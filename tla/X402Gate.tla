------------------------------- MODULE X402Gate -------------------------------
(***************************************************************************)
(* The payment gate (apps/api/internal/x402/gate.go): reserve the payload,   *)
(* verify and settle it at the facilitator, meter and serve.  Requests run   *)
(* at once, with the same payload too, and the facilitator is asked under no *)
(* lock.                                                                     *)
(*                                                                           *)
(* External: the facilitator.  It settles a payload only until MaxTimeout    *)
(* after it was signed, its answer can be lost, and it may answer a second   *)
(* request for a settled payload as it did the first.                        *)
(***************************************************************************)
EXTENDS Clock, FiniteSets

CONSTANTS
  Payloads, Payers, PayerOf,
  Requests,     \* requests in flight at once
  ReplayTTL, MaxTimeout

VARIABLES
  seen,      \* Gate.seen: payload -> when it was reserved or settled
  usage,     \* Gate.usage: payer -> calls
  requests,  \* request -> Free or what it is at
  signedAt,  \* when the payload was signed
  ledger,    \* payloads settled on the network
  served     \* history: payload -> times it was served by this process

gateVars == <<seen, usage, requests, signedAt, ledger, served>>

ASSUME GateAssumption ==
  /\ PayerOf \in [Payloads -> Payers] /\ IsFiniteSet(Payloads)
  /\ {ReplayTTL, MaxTimeout} \subseteq Nat /\ MaxTimeout < ReplayTTL

Free == [at |-> "free"]
Calls == Cardinality(Payloads)

GateTypeOK ==
  /\ now \in Times
  /\ seen \in [Payloads -> Times \cup {Never}]
  /\ usage \in [Payers -> 0 .. Calls]
  /\ requests \in [Requests -> {Free} \cup [at: {"verify", "settle", "record"}, payload: Payloads]]
  /\ signedAt \in [Payloads -> Times \cup {Never}]
  /\ ledger \subseteq {p \in Payloads : signedAt[p] # Never}
  /\ served \in [Payloads -> Nat]

GateInit ==
  /\ now = 0
  /\ seen = [p \in Payloads |-> Never]
  /\ usage = [y \in Payers |-> 0]
  /\ requests = [r \in Requests |-> Free]
  /\ signedAt = [p \in Payloads |-> Never]
  /\ ledger = {}
  /\ served = [p \in Payloads |-> 0]

Moves(r, at) == requests' = [requests EXCEPT ![r].at = at]
Ends(r) == requests' = [requests EXCEPT ![r] = Free]
Valid(p) == now - signedAt[p] <= MaxTimeout

-----------------------------------------------------------------------------
(* A client signs a payload. *)
SignPayment(p) ==
  /\ signedAt[p] = Never
  /\ signedAt' = [signedAt EXCEPT ![p] = now]
  /\ UNCHANGED <<seen, usage, requests, ledger, served>>

(* Middleware, reserve: a payload already seen is refused. *)
Reserve(r, p) ==
  /\ requests[r] = Free /\ signedAt[p] # Never
  /\ seen[p] = Never
  /\ seen' = [seen EXCEPT ![p] = now]
  /\ requests' = [requests EXCEPT ![r] = [at |-> "verify", payload |-> p]]
  /\ UNCHANGED <<usage, signedAt, ledger, served>>

Release(r) ==
  /\ seen' = [seen EXCEPT ![requests[r].payload] = Never]
  /\ Ends(r)

(* The facilitator finds the payload valid. *)
Verified(r) ==
  /\ requests[r].at = "verify" /\ Valid(requests[r].payload)
  /\ Moves(r, "settle")
  /\ UNCHANGED <<seen, usage, signedAt, ledger, served>>

(* The facilitator settles, and says so. *)
Settled(r) ==
  LET p == requests[r].payload
  IN  /\ requests[r].at = "settle"
      /\ Valid(p) \/ p \in ledger
      /\ ledger' = ledger \cup {p}
      /\ Moves(r, "record")
      /\ UNCHANGED <<seen, usage, signedAt, served>>

(* Mutant of Fails: the reservation outlives the request. *)
FailsReserved(r) ==
  /\ requests[r].at \in {"verify", "settle"}
  /\ Ends(r)
  /\ UNCHANGED <<seen, usage, signedAt, ledger, served>>

(* The facilitator refuses, errs, or settles and its answer is lost. *)
Fails(r) ==
  LET p == requests[r].payload
  IN  /\ requests[r].at \in {"verify", "settle"}
      /\ Release(r)
      /\ ledger' \in {ledger} \cup (IF requests[r].at = "settle" /\ Valid(p)
                                       THEN {ledger \cup {p}} ELSE {})
      /\ UNCHANGED <<usage, signedAt, served>>

(* Mutant of Prune: every entry goes that is not of this instant. *)
PruneAll(s) == [p \in Payloads |-> IF now > s[p] THEN Never ELSE s[p]]

(* prune *)
Prune(s) == [p \in Payloads |-> IF now - s[p] > ReplayTTL THEN Never ELSE s[p]]

(* Mutant of Record: a failed settlement is metered like a successful one. *)
RecordAnyway(r) ==
  LET p == requests[r].payload
  IN  /\ requests[r].at \in {"settle", "record"}
      /\ seen' = Prune([seen EXCEPT ![p] = now])
      /\ usage' = [usage EXCEPT ![PayerOf[p]] = @ + 1]
      /\ served' = [served EXCEPT ![p] = @ + 1]
      /\ Ends(r)
      /\ UNCHANGED <<signedAt, ledger>>

(* record, OnSettle and the wrapped handler. *)
Record(r) ==
  LET p == requests[r].payload
  IN  /\ requests[r].at = "record"
      /\ seen' = Prune([seen EXCEPT ![p] = now])
      /\ usage' = [usage EXCEPT ![PayerOf[p]] = @ + 1]
      /\ served' = [served EXCEPT ![p] = @ + 1]
      /\ Ends(r)
      /\ UNCHANGED <<signedAt, ledger>>

RequestStep(r) == Verified(r) \/ Settled(r) \/ Fails(r) \/ Record(r)

GateNext ==
  \/ /\ \/ \E p \in Payloads : SignPayment(p) \/ \E r \in Requests : Reserve(r, p)
        \/ \E r \in Requests : RequestStep(r)
     /\ UNCHANGED now
  \/ Tick /\ UNCHANGED gateVars

GateSpec == GateInit /\ [][GateNext]_<<now, gateVars>>

-----------------------------------------------------------------------------
(* A payment is served at most once, also when requests with the same payload
   race, when the first one was lost and is retried, and when the replay set is
   pruned while a request hangs at the facilitator (gate.go:127-134, 188-218). *)
PaidOnceServedOnce == \A p \in Payloads : served[p] <= 1

(* A payer is never metered for more calls than payments of its own that are on
   the ledger (gate.go:146-161, 220-243). *)
MeteredIsPaid ==
  \A y \in Payers : usage[y] <= Cardinality({p \in ledger : PayerOf[p] = y})
=============================================================================
