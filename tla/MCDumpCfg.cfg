\* dump_cfg.py: lookup, objcopy, parse and output.
CONSTANT Listings <- MCListings
CONSTANT Contents <- MCContents
CONSTANT NoName = NoName
CONSTANT NoFile = NoFile
SPECIFICATION Spec
INVARIANT WritesFirstCfgEdgesOnce
INVARIANT SelectsFirstCfgSection
INVARIANT LargeListingNoValueError
\* The script ends after its output, at sys.exit or at an exception.
CHECK_DEADLOCK FALSE
