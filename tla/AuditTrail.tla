----------------------------- MODULE AuditTrail -----------------------------
(***************************************************************************)
(* The audit topic and the anchor that writes it (apps/api/internal/hcs, the *)
(* attest handler of internal/server/server.go, newAnchor of cmd/api/main.go) *)
(*                                                                           *)
(* The anchor holds its mutex while a record is on its way to the topic.  A  *)
(* record with a logo does not fit one consensus message and is written in   *)
(* chunks.  The index of pledged documents lives in memory and is rebuilt    *)
(* from what the mirror node serves when the process starts.  A message that *)
(* was handed to the network belongs to it: it can still reach the topic     *)
(* after its submission was given up, or its process died.                   *)
(*                                                                           *)
(* External: the topic, the mirror node, other accounts writing to the topic. *)
(***************************************************************************)
EXTENDS Integers, Sequences

CONSTANTS
  Docs, Invoices,
  None,           \* an unset document, invoice, wallet or nullifier
  MaxTopic,       \* bound: messages on the topic
  MaxRestarts,    \* bound: restarts
  MaxFaults       \* bound: unreported + late + lost

VARIABLES
  topic,      \* consensus messages, in consensus order
  writing,    \* Idle, or the record whose Submit holds the anchor's mutex
  wire,       \* slot -> Idle, or a submission given up with its next chunk sent
  docHashes,  \* Anchor.docHashes
  restarts,   \* counter against the bound
  unreported, \* history: records that landed and were reported as failed
  late,       \* history: messages that landed after their submission was given up
  lost        \* history: restarts that replayed a part of the topic, or nothing

trailVars == <<topic, writing, wire, docHashes, restarts, unreported, late, lost>>

ASSUME TrailAssumption ==
  /\ None \notin Docs \cup Invoices
  /\ {MaxTopic, MaxRestarts, MaxFaults} \subseteq Nat

Attestation ==
  {r \in [kind: {"attestation"}, invoice: Invoices, doc: Docs \cup {None}, logo: BOOLEAN] :
     r.doc # None \/ r.logo}
Receipt == [kind |-> "receipt"]
Idle == [kind |-> "idle"]

Chunks(r) == IF r.kind = "attestation" /\ r.logo THEN 2 ELSE 1

Slots == 1 .. MaxFaults
FaultLeft == unreported + late + lost < MaxFaults

(* One chunk of a record: start is the transaction that started its submission. *)
Message(r, k, start, payer) ==
  [record |-> r, number |-> k, total |-> Chunks(r), start |-> start, payer |-> payer]

TrailTypeOK ==
  /\ Len(topic) <= MaxTopic
  /\ \A i \in DOMAIN topic : topic[i].number \in 1 .. topic[i].total /\ topic[i].start \in 1 .. i
  /\ writing = Idle \/ writing.chunks \in 0 .. Chunks(writing.record)
  /\ \A k \in Slots : wire[k] = Idle \/ wire[k].chunks < Chunks(wire[k].record)
  /\ docHashes \in [Docs -> Invoices \cup {None}]

TrailInit ==
  /\ topic = <<>> /\ writing = Idle /\ wire = [k \in Slots |-> Idle]
  /\ docHashes = [d \in Docs |-> None]
  /\ restarts = 0 /\ unreported = 0 /\ late = 0 /\ lost = 0

-----------------------------------------------------------------------------
(* Submit, entered with the mutex held. *)
Begin(r) ==
  /\ writing = Idle
  /\ writing' = [kind |-> "submit", record |-> r, chunks |-> 0,
                  start |-> 0]
  /\ UNCHANGED <<topic, wire, docHashes, restarts, unreported, late, lost>>

(* Mutant of Attest: the owner of the document is not looked up. *)
AttestUnchecked(r) == r \in Attestation /\ Begin(r)

(* Attest: a document already pledged under another invoice is refused. *)
Attest(r) ==
  /\ r \in Attestation
  /\ r.doc # None => docHashes[r.doc] \in {None, r.invoice}
  /\ Begin(r)

AnchorReceipt == Begin(Receipt)

(* The next chunk of a submission, where it reaches the topic now. *)
NextChunk(s) ==
  LET k == s.chunks + 1
  IN  Message(s.record, k, IF k = 1 THEN Len(topic) + 1 ELSE s.start, "operator")

(* The topic takes the next chunk of the record being submitted. *)
Consensus ==
  /\ writing # Idle /\ writing.chunks < Chunks(writing.record) /\ Len(topic) < MaxTopic
  /\ topic' = Append(topic, NextChunk(writing))
  /\ writing' = [writing EXCEPT !.chunks = @ + 1, !.start = NextChunk(writing).start]
  /\ UNCHANGED <<wire, docHashes, restarts, unreported, late, lost>>

(* It takes the chunk that a submission had sent before it was given up. *)
LateConsensus(k) ==
  /\ wire[k] # Idle /\ Len(topic) < MaxTopic /\ FaultLeft
  /\ topic' = Append(topic, NextChunk(wire[k]))
  /\ wire' = [wire EXCEPT ![k] = Idle]
  /\ late' = late + 1
  /\ UNCHANGED <<writing, docHashes, restarts, unreported, lost>>

Pledges(r, d) == r.kind = "attestation" /\ r.doc = d

(* Submit returned: Attest binds the document and the mutex is released. *)
Submitted ==
  /\ writing # Idle /\ writing.chunks = Chunks(writing.record)
  /\ writing' = Idle
  /\ docHashes' = [d \in Docs |->
       IF Pledges(writing.record, d) THEN writing.record.invoice ELSE docHashes[d]]
  /\ UNCHANGED <<topic, wire, restarts, unreported, late, lost>>

(* The submission is given up: a chunk of it that was sent stays on the wire. *)
GivenUp ==
  /\ writing' = Idle
  /\ \/ UNCHANGED wire
     \/ /\ writing # Idle /\ writing.chunks < Chunks(writing.record) /\ FaultLeft
        /\ \E k \in Slots : wire[k] = Idle /\ wire' = [wire EXCEPT ![k] = writing]

(* Submit failed, before the record was complete or without a receipt for it. *)
SubmitFails ==
  /\ writing # Idle /\ GivenUp
  /\ IF writing.chunks < Chunks(writing.record) THEN UNCHANGED unreported
       ELSE FaultLeft /\ unreported' = unreported + 1
  /\ UNCHANGED <<topic, docHashes, restarts, late, lost>>

(* The topic is public: an attestation some other account pays for. *)
OtherPayer(r) ==
  /\ Len(topic) < MaxTopic
  /\ topic' = Append(topic, Message(r, 1, Len(topic) + 1, "other"))
  /\ UNCHANGED <<writing, wire, docHashes, restarts, unreported, late, lost>>

-----------------------------------------------------------------------------
(* Every chunk of the submission that starts at i is there. *)
Whole(t, i) ==
  \A k \in 1 .. t[i].total : \E j \in DOMAIN t : t[j].start = i /\ t[j].number = k

(* Mutant of FetchTopicMessages: whoever paid. *)
FetchAnyPayer(t) == {i \in DOMAIN t : t[i].number = 1 /\ Whole(t, i)}

(* FetchTopicMessages: the operator's submissions, by where they start, put
   together from their chunks. *)
FetchTopicMessages(t) ==
  {i \in DOMAIN t : t[i].payer = "operator" /\ t[i].number = 1 /\ Whole(t, i)}

(* It returns the messages that were not split before those that were. *)
Rank(t, i) == IF t[i].total = 1 THEN i ELSE Len(t) + i

(* The record of the first of some submissions. *)
First(t, of) == t[CHOOSE i \in of : \A j \in of : Rank(t, i) <= Rank(t, j)].record

(* Load: the first attestation of a document binds it. *)
Load(t) ==
  [d \in Docs |->
    LET of == {i \in FetchTopicMessages(t) : Pledges(t[i].record, d)}
    IN  IF of = {} THEN None ELSE First(t, of).invoice]

(* newAnchor replays what the mirror node serves: all of the topic, the part
   before a failing page, or nothing; a replay that fails is only logged.  The
   process before it died with what it was writing. *)
Replay(served) ==
  /\ restarts < MaxRestarts /\ restarts' = restarts + 1
  /\ IF served = Len(topic) THEN UNCHANGED lost ELSE FaultLeft /\ lost' = lost + 1
  /\ GivenUp
  /\ docHashes' = Load(SubSeq(topic, 1, served))
  /\ UNCHANGED <<topic, unreported, late>>
=============================================================================
