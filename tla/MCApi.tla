--------------------------------- MODULE MCApi ---------------------------------
(***************************************************************************)
(* The payment gate, the faucet, the rate limiter and the quote service of   *)
(* one API process, and the operator's tools: the scripts that list a book   *)
(* of invoices, send USDC and check the project's claims, and the command    *)
(* line for regulated securities.  They share nothing but the clock, so each *)
(* runs while the others stand still.                                        *)
(***************************************************************************)
EXTENDS X402Gate, Faucet, RateLimit, QuoteService, SeedMarket, AtsTool,
  OperatorScripts

CONSTANT payer

VARIABLE running

OnePayer == [p \in Payloads |-> payer]

apiVars == <<now, gateVars, faucetVars, limitVars, quoteVars>>
scriptVars == <<sendVars, verifyVars>>
toolVars == <<seedVars, atsVars, scriptVars>>
vars == <<running, apiVars, toolVars>>

(* Every prefix and country code of length 2 or 3 over digits and letters whose
   values cover each case of doubling and of odd and even expansions. *)
ShortBodies == UNION {[1 .. n -> {0, 1, 5, 9, 10, 17, 27, 35}] : n \in {2, 3}}

TypeOK == GateTypeOK /\ FaucetTypeOK /\ LimitTypeOK /\ QuoteTypeOK
ToolsTypeOK == SeedTypeOK /\ AtsTypeOK /\ SendTypeOK /\ VerifyTypeOK

(* The book is listed where the script does not run. *)
Init ==
  /\ running \in {"gate", "faucet", "limiter", "quotes", "seeding", "ats", "sending", "verifying"}
  /\ GateInit /\ FaucetInit /\ LimitInit /\ QuoteInit /\ AtsInit /\ SendInit /\ VerifyInit
  /\ running # "sending" => associated
  /\ running # "verifying" => named = Claims /\ holds = Claims
  /\ IF running = "seeding" THEN SeedInit
     ELSE /\ run = [at |-> BookLength + 1, step |-> "done"]
          /\ signed = [i \in Book |-> 0] /\ onMarket = Book /\ onTopic = Book /\ stopped = 0

Gate == running = "gate" /\ UNCHANGED <<running, faucetVars, limitVars, quoteVars, toolVars>>
Others == UNCHANGED <<running, gateVars, toolVars>>

Next ==
  \/ Gate /\ GateNext
  \/ running = "faucet" /\ Others /\ UNCHANGED <<limitVars, quoteVars>> /\ FaucetNext
  \/ running = "limiter" /\ Others /\ UNCHANGED <<faucetVars, quoteVars>> /\ LimitNext
  \/ running = "quotes" /\ Others /\ UNCHANGED <<faucetVars, limitVars>> /\ QuoteNext
  \/ running = "seeding" /\ SeedNext /\ UNCHANGED <<running, apiVars, atsVars, scriptVars>>
  \/ running = "ats" /\ AtsNext /\ UNCHANGED <<running, apiVars, seedVars, scriptVars>>
  \/ running = "sending" /\ SendNext /\ UNCHANGED <<running, apiVars, seedVars, atsVars, verifyVars>>
  \/ running = "verifying" /\ VerifyNext /\ UNCHANGED <<running, apiVars, seedVars, atsVars, sendVars>>

(* The facilitator answers or the request's context ends; the operator starts a
   tool again that stopped. *)
Spec ==
  /\ Init /\ [][Next]_vars
  /\ \A r \in Requests : WF_vars(Gate /\ RequestStep(r) /\ UNCHANGED now)
  /\ SeedFairness /\ AtsFairness

(* A reservation ends: the payload is served or can be presented again, on every
   error path (gate.go:135-156). *)
ReservationsEnd ==
  \A p \in Payloads :
    seen[p] # Never /\ served[p] = 0 ~> seen[p] = Never \/ served[p] > 0

(* The services keep their books: what is metered was paid, a faucet slot was
   earned, the buckets kept are recent ones and rates follow the tenor. *)
ServiceInv == TypeOK /\ MeteredIsPaid /\ SlotsAreEarned /\ BucketsAreRecent /\ RatesFollowTenor

(* The tools leave behind no more than the runs that stopped account for, and
   what they say is true: "sent" of money that arrived, "passed" of claims that
   held (seed-market.ts:253-273, ats.ts:128-185, record.ts:22-33,
   send-usdc.ts:74-102, verify-claims.ts:30-34). *)
ToolsInv ==
  /\ ToolsTypeOK
  /\ LeftoversAreStops /\ StrayAreStops /\ ReRunIsSafe
  /\ RevertsAreRaces /\ SentIsThere /\ VerdictIsEarned

(* An operator that runs a tool again until it ends gets what it was run for:
   the book is listed, the account is allowed (seed-market.ts:191-273,
   ats.ts:133-185). *)
ToolsComeThrough == BookIsListed /\ AllowComesThrough

ASSUME IsinsPassTheRule == DerivedIsinsAreValid
=============================================================================
