---------------------------- MODULE MCLoopStart ----------------------------
(***************************************************************************)
(* LoopStart with a few threads; see the configuration.                    *)
(***************************************************************************)
EXTENDS LoopStart
=============================================================================
