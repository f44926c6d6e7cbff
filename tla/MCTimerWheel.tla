---------------------------- MODULE MCTimerWheel ----------------------------
(***************************************************************************)
(* TimerWheel with a wheel of three slots, so that timeouts below, at and  *)
(* above the capacity all occur and refreshed tasks lap the wheel.         *)
(***************************************************************************)
EXTENDS TimerWheel
=============================================================================
