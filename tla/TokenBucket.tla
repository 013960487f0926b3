------------------------------ MODULE TokenBucket ------------------------------
(***************************************************************************)
(* What the rate limiter promises: a bucket per key that refills as time     *)
(* passes, serves a request for one token and refuses it only without one.   *)
(* Tokens are counted in parts, one Minute-th of a token each.               *)
(***************************************************************************)
EXTENDS Integers, FiniteSetsExt

CONSTANTS
  Keys, RateOf,  \* tokens per minute
  Minute         \* ticks

VARIABLES
  level,   \* key -> parts left
  answer   \* key -> the last answer

Full(k) == RateOf[k] * Minute
Capped(k, parts) == Min({Full(k), parts})

Init ==
  /\ level = [k \in Keys |-> Full(k)]
  /\ answer = [k \in Keys |-> "none"]

Refill ==
  /\ level' = [k \in Keys |-> Capped(k, level[k] + RateOf[k])]
  /\ UNCHANGED answer

Serve(k) ==
  /\ level[k] >= Minute
  /\ level' = [level EXCEPT ![k] = @ - Minute]
  /\ answer' = [answer EXCEPT ![k] = "served"]

Refuse(k) ==
  /\ level[k] < Minute
  /\ answer' = [answer EXCEPT ![k] = "limited"]
  /\ UNCHANGED level

Next == Refill \/ \E k \in Keys : Serve(k) \/ Refuse(k)

Spec == Init /\ [][Next]_<<level, answer>>
=============================================================================
