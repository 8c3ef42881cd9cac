\* Listings with a CFG section: does the script always reach objcopy?
CONSTANT Listings <- MCCfgListings
CONSTANT NoName = NoName
SPECIFICATION Spec
PROPERTY LookupCompletes
\* The lookup ends at objcopy, at sys.exit or at an exception.
CHECK_DEADLOCK FALSE
