------------------------------ MODULE ClaimPool ------------------------------
(***************************************************************************)
(* What a settlement contract promises the holders of one bond, without     *)
(* wallets, deposits, roles or a clock: money flows into a pot, once the    *)
(* rate is fixed nothing else does, and from then on units leave either     *)
(* paid at that rate or retired for nothing.                                *)
(***************************************************************************)
EXTENDS Totals

(* The rate is not fixed yet. *)
NoRate == <<>>

VARIABLES
  pot,    \* USDC held for this bond
  units,  \* units outstanding
  rate    \* NoRate, or <<repaid, snapshot>> once fixed

poolVars == <<pot, units, rate>>

PoolInit == pot = 0 /\ units = 0 /\ rate = NoRate

(* A payer adds money while the rate is open. *)
Fund ==
  /\ rate = NoRate
  /\ pot' \in Nat /\ pot < pot'
  /\ UNCHANGED <<units, rate>>

(* A payer takes money back while the rate is open and nobody holds units. *)
Refund ==
  /\ rate = NoRate /\ units = 0
  /\ pot' \in Nat /\ pot' < pot
  /\ UNCHANGED <<units, rate>>

(* Units are issued while the rate is open. *)
Issue ==
  /\ rate = NoRate
  /\ units' \in Nat /\ units < units'
  /\ UNCHANGED <<pot, rate>>

(* The rate is fixed, once, on a pot and units that both exist. *)
Fix ==
  /\ rate = NoRate
  /\ pot > 0 /\ units > 0
  /\ rate' = <<pot, units>>
  /\ UNCHANGED <<pot, units>>

(* Units leave and are paid their share. *)
Redeem ==
  /\ rate # NoRate
  /\ units' \in Nat /\ units' < units
  /\ pot' = pot - MulDivFloor(rate[1], units - units', rate[2])
  /\ UNCHANGED rate

(* Units leave through another contract and are paid nothing here. *)
Retire ==
  /\ units' \in Nat /\ units' < units
  /\ UNCHANGED <<pot, rate>>

PoolNext == Fund \/ Refund \/ Issue \/ Fix \/ Redeem \/ Retire

PoolSpec == PoolInit /\ [][PoolNext]_poolVars

-----------------------------------------------------------------------------
PoolTypeOK ==
  /\ pot \in Nat
  /\ units \in Nat
  /\ rate \in {NoRate} \cup (Nat \X (Nat \ {0}))

(* Everybody still in can be paid at the fixed rate. *)
Covered == rate # NoRate => rate[1] * units <= pot * rate[2]
=============================================================================
