---------------------------- MODULE MCRegionMove ----------------------------
EXTENDS RegionMove

\* Shift distances below, at and above the chunk size.
const_Deltas == 1..3
=============================================================================
