-------------------------- MODULE ClaimPool_proofs --------------------------
(***************************************************************************)
(* The promise of ClaimPool, for every pot and every number of units.       *)
(***************************************************************************)
EXTENDS ClaimPool, Totals_proofs

(* An open rate is told from every fixed one. *)
LEMMA NoRateIsNoPair == NoRate \notin Nat \X Nat
BY DEF NoRate

PoolInv == PoolTypeOK /\ Covered

(* The pool is well typed and covered, whatever is funded, redeemed or retired
   (claim at MaturitySettlement.sol:110-120). *)
THEOREM PoolCovered == PoolSpec => []PoolInv
<1> USE NoRateIsNoPair
<1>1. PoolInit => PoolInv
  BY DEF PoolInit, PoolInv, PoolTypeOK, Covered
<1>2. PoolInv /\ [PoolNext]_poolVars => PoolInv'
  <2> SUFFICES ASSUME PoolInv, [PoolNext]_poolVars
               PROVE  PoolInv'
    OBVIOUS
  <2> USE DEF PoolInv, PoolTypeOK, Covered
  <2>1. CASE Fund
    BY <2>1 DEF Fund
  <2>2. CASE Refund
    BY <2>2 DEF Refund
  <2>3. CASE Issue
    BY <2>3 DEF Issue
  <2>4. CASE Fix
    BY <2>4 DEF Fix
  <2>5. CASE Redeem
    <3>1. /\ rate[1] \in Nat /\ rate[2] \in Nat \ {0}
          /\ units' \in Nat /\ units' <= units
      BY <2>5 DEF Redeem
    <3>2. rate[1] * units <= pot * rate[2]
      BY <2>5 DEF Redeem
    <3>3. /\ pot' \in Nat
          /\ rate[1] * units' <= pot' * rate[2]
      BY <2>5, <3>1, <3>2, RedeemKeepsCover DEF Redeem
    <3> QED
      BY <2>5, <3>1, <3>3 DEF Redeem
  <2>6. CASE Retire
    <3>1. units' \in Nat /\ units' <= units /\ UNCHANGED <<pot, rate>>
      BY <2>6 DEF Retire
    <3>2. CASE rate = NoRate
      BY <3>1, <3>2
    <3>3. CASE rate # NoRate
      <4>1. rate[1] \in Nat /\ rate[2] \in Nat
        BY <3>3
      <4>2. rate[1] * units' <= rate[1] * units
        BY <3>1, <4>1
      <4>3. rate[1] * units' \in Nat /\ rate[1] * units \in Nat /\ pot * rate[2] \in Nat
        BY <3>1, <4>1
      <4> QED
        BY <3>1, <3>3, <4>2, <4>3
    <3> QED
      BY <3>2, <3>3
  <2>7. CASE UNCHANGED poolVars
    BY <2>7 DEF poolVars
  <2> QED
    BY <2>1, <2>2, <2>3, <2>4, <2>5, <2>6, <2>7 DEF PoolNext
<1> QED
  BY <1>1, <1>2, PTL DEF PoolSpec
=============================================================================
