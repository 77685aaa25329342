---------------------------- MODULE MCInterrupts ----------------------------
(* Two slots of timer routines with periods 1 and 3, waits of none, two    *)
(* and six ticks, and a tick counter that wraps at four, which 3 does not  *)
(* divide and six exceeds.                                                 *)
EXTENDS Interrupts
=============================================================================
