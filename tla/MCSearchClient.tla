--------------------------- MODULE MCSearchClient ---------------------------
(* Small instances of SearchClient for TLC.                                *)
EXTENDS SearchClient

CONSTANTS a, b
=============================================================================
