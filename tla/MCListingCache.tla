--------------------------- MODULE MCListingCache ---------------------------
(* Small instances of ListingCache for TLC.                                *)
EXTENDS ListingCache, TLC

CONSTANTS r1, r2

ReaderSymmetry == Permutations(Readers)
=============================================================================
