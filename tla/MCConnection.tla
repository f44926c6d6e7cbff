---------------------------- MODULE MCConnection ----------------------------
(***************************************************************************)
(* Connection with a few bytes in each direction; see the configurations.  *)
(***************************************************************************)
EXTENDS Connection
=============================================================================
