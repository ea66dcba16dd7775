------------------------------ MODULE TimersMC ------------------------------
(* Timers with its parameters given values for TLC. *)
EXTENDS Timers

(* -repeat 2 and -repeat * ; the timers of the client fire once *)
MCRepeats == {2, -1}
=============================================================================
