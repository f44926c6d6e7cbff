------------------------------ MODULE MCBuffer ------------------------------
(***************************************************************************)
(* Buffer with a vector of a few bytes, so that it is compacted and grown  *)
(* with data in every place.                                               *)
(***************************************************************************)
EXTENDS Buffer
=============================================================================
