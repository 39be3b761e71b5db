------------------------- MODULE MCRegionAllocator --------------------------
(* The allocator with the source's constants, for TLC.                     *)
EXTENDS RegionAllocator
=============================================================================
