--------------------------------- MODULE Agent ---------------------------------
(***************************************************************************)
(* The investment agent (apps/agent/src/index.ts).  It asks for the insights *)
(* and reads the price off the 402, pays it, and with --execute sizes an     *)
(* order from one look at the chain (plan.ts), approves its total and buys,  *)
(* all from one wallet.  Unlike the web app it simulates nothing and only    *)
(* looks at the receipt of the purchase.                                     *)
(*                                                                          *)
(* External: the API behind X402Gate, whose answer may fail to come after    *)
(* the payment settled.                                                      *)
(***************************************************************************)
EXTENDS Investor

CONSTANTS
  SCALE,    \* base units in a whole unit, of bond and USDC
  Requests, \* what its owner may ask for, in whole units
  Price     \* of the insights, in USDC

ASSUME AgentAssumption == SCALE \in Nat \ {0} /\ Requests \subseteq Nat /\ Price \in Nat

(* How far the flags let it go: --dry, neither, --execute. *)
Modes == {"dry", "look", "act"}

VARIABLE agent  \* where the run is, its flags, the cash it started with, and
                \* its order once it has one

AgentOrders == [units: Nat \ {0}, total: Nat, balance: Nat]

AgentTypeOK ==
  /\ agent.mode \in Modes /\ agent.cash \in Nat
  /\ \/ agent.at \in {"probing", "paying", "deciding", "reading", "stopped", "done"}
     \/ /\ agent.at \in {"approving", "buying", "funded", "reverted"}
        /\ agent.order \in AgentOrders

AgentInit == agent \in [at: {"probing"}, mode: Modes, cash: {usdc[Me]}]

AgentTo(at) == agent' = [agent EXCEPT !.at = at]
AgentStays == UNCHANGED <<chainVars, allowances>>

-----------------------------------------------------------------------------
(* The unpaid request: not a 402, or one that offers nothing, stops the run. *)
Discover ==
  /\ agent.at = "probing"
  /\ AgentTo(IF agent.mode = "dry" THEN "done" ELSE "paying") \/ AgentTo("stopped")
  /\ AgentStays

(* The paid request.  Without a key, or refused, nothing is taken; a payment
   that settled may still be answered with an error. *)
PayForData ==
  /\ agent.at = "paying"
  /\ \/ AgentTo("stopped") /\ UNCHANGED usdc
     \/ /\ usdc[Me] >= Price /\ usdc' = [usdc EXCEPT ![Me] = @ - Price]
        /\ AgentTo("deciding") \/ AgentTo("stopped")
  /\ UNCHANGED <<tokenVars, oracleVars, marketVars, now, allowances>>

(* There is no bond to fund, or none is asked for; the chain of the answer may
   have no deployment. *)
Decide ==
  /\ agent.at = "deciding"
  /\ \/ AgentTo("done")
     \/ agent.mode = "act" /\ (AgentTo("reading") \/ AgentTo("stopped"))
  /\ AgentStays

(* What units cost under a fee: price and fee, each rounded up as on chain. *)
WithFee(units, fee) ==
  PrimaryCost(units) + MulDivCeil(PrimaryCost(units), fee, Bps)

(* Mutant of Affordable: the fee is not part of a unit's price. *)
AffordableBeforeFee(balance) == MulDivFloor(balance, SCALE, PrimaryCost(SCALE))

(* planBuy, affordable. *)
Affordable(balance) == MulDivFloor(balance, SCALE, WithFee(SCALE, feeBps))

(* planBuy: the least of three, zero when there is nothing to buy. *)
PlanBuy(requested) ==
  LET limits == {requested, Face - totalSupply[Bond], Affordable(usdc[Me])}
  IN  IF WithFee(SCALE, feeBps) = 0 THEN 0
      ELSE CHOOSE least \in limits : \A limit \in limits : least <= limit

(* The reads, and the order they lead to; none for a wallet that is not
   allowed, and none when there is nothing to buy. *)
Plan(requested) ==
  LET units == PlanBuy(requested)
  IN  /\ agent.at = "reading"
      /\ agent' = IF Me \notin isEligible[Bond] \/ units = 0 THEN [agent EXCEPT !.at = "stopped"]
                  ELSE [at |-> "approving", mode |-> agent.mode, cash |-> agent.cash,
                        order |-> [units |-> units, total |-> WithFee(units, feeBps),
                                   balance |-> usdc[Me]]]
      /\ AgentStays

(* The approval is mined. *)
Approve ==
  /\ agent.at = "approving"
  /\ ApproveUsdc([op |-> "approveUsdc", amount |-> agent.order.total])
  /\ agent' = [agent EXCEPT !.at = "buying"]

(* The purchase is mined: it goes through, or it reverts. *)
Buy ==
  /\ agent.at = "buying"
  /\ LET call == [op |-> "buyPrimary", units |-> agent.order.units]
     IN  IF Succeeds(call)
           THEN Execute(call) /\ agent' = [agent EXCEPT !.at = "funded"]
           ELSE /\ agent' = [agent EXCEPT !.at = "reverted"]
                /\ AgentStays

AgentNext ==
  \/ Discover \/ PayForData \/ Decide
  \/ \E requested \in Requests : Plan(requested)
  \/ Approve \/ Buy
=============================================================================
