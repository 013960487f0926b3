-------------------------------- MODULE Clock --------------------------------
(***************************************************************************)
(* The API's clock (time.Now): it only moves forward.                       *)
(***************************************************************************)
EXTENDS Integers

CONSTANT MaxTime  \* bound: ticks

ASSUME ClockAssumption == MaxTime \in Nat

VARIABLE now

Never == -1
Times == 0 .. MaxTime

Tick == now < MaxTime /\ now' = now + 1
=============================================================================
