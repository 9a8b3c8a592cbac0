--------------------------- MODULE EventLoopClock ---------------------------
(* time.monotonic of the process, in ticks.                                *)
EXTENDS Integers

CONSTANT Horizon        \* bound of the clock
VARIABLE clock

ASSUME HorizonAssumption == Horizon \in Nat

ClockOK == clock \in 0..Horizon

Tick == clock < Horizon /\ clock' = clock + 1

=============================================================================
