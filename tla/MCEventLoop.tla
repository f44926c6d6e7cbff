---------------------------- MODULE MCEventLoop ----------------------------
(***************************************************************************)
(* EventLoop with two posting threads and the loop's own.                  *)
(***************************************************************************)
EXTENDS EventLoop
=============================================================================
