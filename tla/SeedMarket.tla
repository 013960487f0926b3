------------------------------ MODULE SeedMarket ------------------------------
(***************************************************************************)
(* scripts/seed/seed-market.ts: lists a book of invoices one after another,  *)
(* each looked up, quoted, listed and anchored.  A run stops at the first    *)
(* failure, wherever that is; the operator runs it again, and what is listed *)
(* by then is skipped.                                                       *)
(*                                                                           *)
(* External: the RPC node, the API's answers, the market, which lists an     *)
(* invoice once.                                                             *)
(***************************************************************************)
EXTENDS Integers, FiniteSets

CONSTANTS
  BookLength,   \* invoices of the book
  MaxFailures   \* bound: runs that stop early

VARIABLES
  run,       \* the running script: the invoice it is at and the step
  signed,    \* invoice -> listings signed and not mined
  onMarket,  \* invoices listed
  onTopic,   \* invoices whose record is anchored
  stopped    \* runs that stopped early

seedVars == <<run, signed, onMarket, onTopic, stopped>>

ASSUME SeedAssumption == BookLength \in Nat \ {0} /\ MaxFailures \in Nat

Book == 1 .. BookLength
Off == [at |-> 0, step |-> "off"]

SeedTypeOK ==
  /\ run \in {Off} \cup [at: 1 .. BookLength + 1, step: {"look", "quote", "list", "wait", "attest", "done"}]
  /\ signed \in [Book -> 0 .. MaxFailures + 1]
  /\ onMarket \subseteq Book /\ onTopic \subseteq onMarket /\ stopped \in 0 .. 2 * MaxFailures
  /\ run.step = "attest" => run.at \in onMarket

SeedInit ==
  /\ run = Off /\ signed = [i \in Book |-> 0]
  /\ onMarket = {} /\ onTopic = {} /\ stopped = 0

SeedTo(step) == run' = [run EXCEPT !.step = step]
NextInvoice ==
  run' = [at |-> run.at + 1, step |-> IF run.at = BookLength THEN "done" ELSE "look"]
Stop == run' = Off /\ stopped' = stopped + 1
Trouble == stopped < MaxFailures /\ Stop

-----------------------------------------------------------------------------
(* The operator starts the script, until it came through once. *)
StartSeeding ==
  /\ run = Off
  /\ run' = [at |-> 1, step |-> "look"]
  /\ UNCHANGED <<signed, onMarket, onTopic, stopped>>

(* Mutant of Look: every failure of bondOf reads as listed. *)
LookSwallowing ==
  /\ run.step = "look"
  /\ \/ run.at \in onMarket /\ NextInvoice /\ UNCHANGED stopped
     \/ run.at \notin onMarket /\ SeedTo("quote") /\ UNCHANGED stopped
     \/ NextInvoice /\ stopped < MaxFailures /\ stopped' = stopped + 1
  /\ UNCHANGED <<signed, onMarket, onTopic>>

(* listedBond: a listed invoice is skipped; only UnknownInvoice means that it
   is not. *)
Look ==
  /\ run.step = "look"
  /\ \/ run.at \in onMarket /\ NextInvoice /\ UNCHANGED stopped
     \/ run.at \notin onMarket /\ SeedTo("quote") /\ UNCHANGED stopped
  /\ UNCHANGED <<signed, onMarket, onTopic>>

(* quoteFor *)
QuoteSeeded == run.step = "quote" /\ SeedTo("list") /\ UNCHANGED <<signed, onMarket, onTopic, stopped>>

(* writeContract: the estimate reverts for what is listed by now. *)
SendListing ==
  /\ run.step = "list"
  /\ \/ /\ run.at \notin onMarket
        /\ signed' = [signed EXCEPT ![run.at] = @ + 1] /\ SeedTo("wait") /\ UNCHANGED stopped
     \/ run.at \in onMarket /\ UNCHANGED signed /\ Stop
  /\ UNCHANGED <<onMarket, onTopic>>

(* A listing is mined.  The script waits for the last it signed; a second one
   for the same invoice reverts and ends the run. *)
MineListing(i) ==
  LET awaited == run = [at |-> i, step |-> "wait"] /\ signed[i] = 1
  IN  /\ signed[i] > 0
      /\ signed' = [signed EXCEPT ![i] = @ - 1]
      /\ onMarket' = onMarket \cup {i}
      /\ IF ~awaited THEN UNCHANGED <<run, stopped>>
         ELSE IF i \in onMarket THEN Stop ELSE SeedTo("attest") /\ UNCHANGED stopped
      /\ UNCHANGED onTopic

(* attest: anchored, or a failure with the record on the topic all the same. *)
AttestSeeded ==
  /\ run.step = "attest"
  /\ (NextInvoice /\ UNCHANGED stopped) \/ Trouble
  /\ onTopic' = onTopic \cup {run.at}
  /\ UNCHANGED <<signed, onMarket>>

(* Whatever the step waits for fails or does not come in time: an error nobody
   catches ends the process, as does killing it. *)
Ended ==
  /\ run.step \notin {"off", "done"} /\ Trouble
  /\ UNCHANGED <<signed, onMarket, onTopic>>

SeedNext ==
  \/ StartSeeding \/ Look \/ QuoteSeeded \/ SendListing \/ AttestSeeded \/ Ended
  \/ \E i \in Book : MineListing(i)

SeedFairness ==
  /\ WF_seedVars(StartSeeding \/ Look \/ QuoteSeeded \/ SendListing \/ AttestSeeded)
  /\ \A i \in Book : WF_seedVars(MineListing(i))

-----------------------------------------------------------------------------
(* An invoice is on the market without its record only where a run stopped: at
   most one per run that did, whichever receipts were late, besides the one the
   script is at (seed-market.ts:253-273). *)
LeftoversAreStops ==
  Cardinality(onMarket \ onTopic) <= stopped + (IF run.step \in {"wait", "attest"} THEN 1 ELSE 0)

(* Run again until it comes through, which it does, the script has listed the
   whole book (seed-market.ts:191-221, 253-273). *)
BookIsListed == <>(run.step = "done" /\ onMarket = Book)
=============================================================================
