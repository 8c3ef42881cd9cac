--------------------------- MODULE MCSectionLookup ---------------------------
EXTENDS SectionLookup, MCListings
=============================================================================
