------------------------- MODULE SelfieCheck_proofs -------------------------
(***************************************************************************)
(* What the audit trail and the Selfie Check promise, for every number of    *)
(* documents, invoices, wallets, persons, requests and restarts, and what a  *)
(* record that is reported as failed, that lands after it was given up, or a *)
(* restart that does not read all of the topic can cost.                     *)
(***************************************************************************)
EXTENDS SelfieCheck, NaturalsInduction, WellFoundedInduction, SequenceTheorems,
  FiniteSetTheorems, TLAPS

Record == Attestation \cup {Receipt} \cup Pass
TopicMessage ==
  [record: Record, number: {1, 2}, total: {1, 2}, start: Nat, payer: {"operator", "other"}]
Submission == [kind: {"submit"}, record: Record, chunks: 0 .. 2, start: Nat]

TrailTyped ==
  /\ topic \in Seq(TopicMessage) /\ Len(topic) <= MaxTopic
  /\ writing \in {Idle} \cup Submission
  /\ wire \in [Slots -> {Idle} \cup Submission]
  /\ docHashes \in [Docs -> Invoices \cup {None}]
  /\ unreported \in Nat /\ late \in Nat /\ lost \in Nat
CallTypes == {NoCall} \cup [at: {"portal", "passed", "signalled", "anchoring"}, pass: Pass]
ServiceTyped ==
  /\ used \subseteq Nullifiers /\ selfie \subseteq Wallets /\ told \subseteq Pass
  /\ wallet \in [Nullifiers -> Wallets \cup {None}]
  /\ human \in [Wallets -> Nullifiers \cup {None}]
  /\ calls \in [Callers -> CallTypes]
Typed == TrailTyped /\ ServiceTyped

(* A message carries the record of the message that started its submission. *)
Shaped(i) ==
  LET m == topic[i]
  IN  /\ m.total = Chunks(m.record) /\ m.number \in 1 .. m.total
      /\ m.number = 1 => m.start = i
      /\ m.number = 2 =>
           /\ m.start \in 1 .. i - 1 /\ topic[m.start].number = 1
           /\ topic[m.start].record = m.record /\ topic[m.start].payer = m.payer

(* The first message of a submission is where the submission says. *)
Started(s) ==
  s.chunks > 0 =>
    /\ s.start \in DOMAIN topic
    /\ topic[s.start] = Message(s.record, 1, s.start, "operator")

(* What of the submission under way is on the topic. *)
OnItsWay ==
  writing # Idle =>
    /\ writing.chunks <= Chunks(writing.record)
    /\ Started(writing)
    /\ \A i \in DOMAIN topic :
         writing.chunks > 0 /\ topic[i].start = writing.start =>
           topic[i].number <= writing.chunks
    /\ writing.chunks = 2 =>
         \E i \in DOMAIN topic : topic[i].start = writing.start /\ topic[i].number = 2

(* What was given up lacks a chunk, and is not the submission under way. *)
OnTheWire ==
  \A k \in Slots : wire[k] # Idle =>
    /\ wire[k].chunks < Chunks(wire[k].record)
    /\ Started(wire[k])
    /\ writing # Idle /\ writing.chunks > 0 /\ wire[k].chunks > 0 => wire[k].start # writing.start

Written == \A i \in DOMAIN topic : Shaped(i)

(* Started by the submission whose result is not known yet. *)
Current(i) == writing # Idle /\ writing.chunks > 0 /\ writing.start = i

(* No submission under way pledges a document that another invoice owns. *)
Owned ==
  \A d \in Docs : writing # Idle /\ Pledges(writing.record, d) =>
    docHashes[d] \in {None, writing.record.invoice}

(* The index binds every document that was pledged, while it is on its way too. *)
Indexed ==
  \A d \in Docs, i \in Complete :
    Pledges(topic[i].record, d) /\ ~Current(i) => docHashes[d] = topic[i].record.invoice

(* And nothing else. *)
Backed ==
  \A d \in Docs : docHashes[d] # None => docHashes[d] \in PledgedTo(d)

AtMost(S, n) == IsFiniteSet(S) /\ Cardinality(S) <= n

(* The submission under way pledges a document, and all of it is on the topic. *)
Lands(d) ==
  writing # Idle /\ Pledges(writing.record, d) /\ writing.chunks = Chunks(writing.record)

(* The invoices a document is pledged to: one while the index knows of it or is
   about to, and one for each fault. *)
PledgesCounted ==
  \A d \in Docs :
    AtMost(PledgedTo(d), unreported + late + lost + IF docHashes[d] # None \/ Lands(d) THEN 1 ELSE 0)

IsOurs(i) == topic[i].payer = "operator" /\ topic[i].record.kind = "selfie"
Spent(p) == p.nullifier \in used /\ wallet[p.nullifier] = p.wallet
SpentFor(c) == calls[c].at \in {"passed", "signalled", "anchoring"}
SignalledFor(c) == calls[c].at \in {"signalled", "anchoring"}

UsedIsBound == \A n \in Nullifiers : n \in used <=> wallet[n] # None

(* A pass that came through the portal is spent while the process lives. *)
PassesInHand ==
  /\ \A c \in Callers : SpentFor(c) =>
       Spent(calls[c].pass) /\ human[calls[c].pass.wallet] # None
  /\ \A c \in Callers : SignalledFor(c) => calls[c].pass.wallet \in selfie
  /\ \A c \in Callers : calls[c].at = "anchoring" =>
       writing # Idle /\ writing.record = calls[c].pass
  /\ writing # Idle /\ writing.record.kind = "selfie" =>
       Spent(writing.record) /\ writing.record.wallet \in selfie

(* The wallets a person is bound to, in memory and on the topic. *)
TopicWallets(n) ==
  {topic[i].record.wallet : i \in {j \in DOMAIN topic : IsOurs(j) /\ topic[j].record.nullifier = n}}
WalletsOf(n) == TopicWallets(n) \cup ({wallet[n]} \ {None})

(* One once the nullifier is spent, and one for each pass that landed late and
   each part of the topic that was not read. *)
WalletsCounted ==
  \A n \in Nullifiers : AtMost(WalletsOf(n), late + lost + IF n \in used THEN 1 ELSE 0)

(* Behind a wallet with the signal is a person who is bound to it. *)
HumansKnown ==
  /\ \A w \in selfie : human[w] # None
  /\ \A w \in Wallets : human[w] # None => w \in WalletsOf(human[w])

(* A pass that was reported as anchored is on the topic. *)
ToldIsThere ==
  \A p \in told : \E i \in DOMAIN topic : topic[i].payer = "operator" /\ topic[i].record = p
ToldIsKept == \A p \in told : p.nullifier \in used /\ p.wallet \in selfie
TopicIsSpent == \A i \in DOMAIN topic : IsOurs(i) => Spent(topic[i].record)

PledgesHold == Owned /\ Backed /\ PledgesCounted /\ (unreported + late + lost = 0 => Indexed)
PassesHold ==
  /\ PassesInHand /\ WalletsCounted /\ HumansKnown /\ ToldIsThere
  /\ lost = 0 => ToldIsKept
  /\ late + lost = 0 => TopicIsSpent

IInv ==
  Typed /\ Written /\ OnItsWay /\ OnTheWire /\ UsedIsBound /\ PledgesHold /\ PassesHold

-----------------------------------------------------------------------------
(* Every set of natural numbers with an element has a least one. *)
LEMMA Least ==
  ASSUME NEW S \in SUBSET Nat, S # {}
  PROVE  \E m \in S : \A k \in S : m <= k
<1> DEFINE R == OpToRel(<, Nat)
<1>1. IsWellFoundedOn(R, Nat)
  BY NatLessThanWellFounded
<1> HIDE DEF R
<1>2. PICK m \in S : \A k \in S : ~(<<k, m>> \in R)
  BY <1>1, WFMin
<1>3. \A k \in S : <<k, m>> \in Nat \X Nat
  OBVIOUS
<1>4. \A k \in S : ~(k < m)
  BY <1>2, <1>3 DEF R, OpToRel
<1> QED
  BY <1>4

(* The first of some submissions is one of them. *)
LEMMA FirstIsOne ==
  ASSUME NEW t \in Seq(TopicMessage), NEW of \in SUBSET DOMAIN t, of # {}
  PROVE  \E i \in of : First(t, of) = t[i].record
<1> DEFINE ranks == {Rank(t, i) : i \in of}
           IsFirst(i) == \A j \in of : Rank(t, i) <= Rank(t, j)
<1>1. \A i \in of : Rank(t, i) \in Nat
  BY DEF Rank
<1>2. ranks \in SUBSET Nat /\ ranks # {}
  BY <1>1
<1>3. PICK m \in ranks : \A k \in ranks : m <= k
  BY <1>2, Least
<1>4. \E i \in of : IsFirst(i)
  BY <1>3
<1>5. (CHOOSE i \in of : IsFirst(i)) \in of
  BY <1>4
<1> QED
  BY <1>5 DEF First

LEMMA KindsDiffer ==
  /\ Idle \notin Submission /\ Receipt \notin Attestation \cup Pass
  /\ NoCall \notin [at: {"portal", "passed", "signalled", "anchoring"}, pass: Pass]
  /\ \A r \in Attestation : r.kind = "attestation"
  /\ \A r \in Pass : r.kind = "selfie"
BY DEF Idle, Submission, Receipt, Attestation, Pass, NoCall

LEMMA RecordOfKind ==
  ASSUME NEW r \in Record
  PROVE  /\ r.kind = "attestation" => r \in Attestation
         /\ r.kind = "selfie" => r \in Pass
BY KindsDiffer DEF Record, Receipt

LEMMA PledgeNamesInvoice ==
  ASSUME NEW r \in Record, NEW d \in Docs, Pledges(r, d)
  PROVE  r \in Attestation /\ r.invoice \in Invoices
<1>1. r \in Attestation
  BY RecordOfKind DEF Pledges
<1> QED
  BY <1>1 DEF Attestation

LEMMA RecordOfMessage ==
  ASSUME NEW t \in Seq(TopicMessage), NEW i \in DOMAIN t
  PROVE  i \in 1 .. Len(t) /\ t[i] \in TopicMessage /\ t[i].record \in Record
<1>1. t[i] \in TopicMessage /\ i \in 1 .. Len(t)
  OBVIOUS
<1> QED
  BY <1>1 DEF TopicMessage

LEMMA ChunksType == \A r : Chunks(r) \in {1, 2}
BY DEF Chunks

LEMMA BeginTyped ==
  ASSUME Typed, NEW r \in Record, Begin(r)
  PROVE  writing' \in Submission
BY DEF Begin, Submission

(* The next chunk of a submission that lacks one. *)
LEMMA NextChunkTyped ==
  ASSUME Typed, NEW s \in Submission, s.chunks < Chunks(s.record)
  PROVE  LET m == NextChunk(s)
         IN  /\ m \in TopicMessage /\ s.chunks \in 0 .. 1 /\ s.record \in Record
             /\ m.record = s.record /\ m.number = s.chunks + 1 /\ m.total = Chunks(s.record)
             /\ m.start = IF s.chunks = 0 THEN Len(topic) + 1 ELSE s.start
             /\ m.payer = "operator"
<1>1. s.chunks \in 0 .. 1 /\ s.record \in Record /\ s.start \in Nat /\ Len(topic) \in Nat
  BY ChunksType DEF Submission, Typed, TrailTyped
<1> DEFINE k == s.chunks + 1
           start == IF k = 1 THEN Len(topic) + 1 ELSE s.start
<1>2. k \in {1, 2} /\ start \in Nat /\ start = IF s.chunks = 0 THEN Len(topic) + 1 ELSE s.start
  BY <1>1
<1>3. NextChunk(s) = Message(s.record, k, start, "operator")
  BY DEF NextChunk
<1> HIDE DEF start
<1>4. Message(s.record, k, start, "operator") \in TopicMessage
  BY <1>1, <1>2, ChunksType DEF Message, TopicMessage
<1> QED
  BY <1>1, <1>2, <1>3, <1>4 DEF Message

(* What Consensus does. *)
LEMMA ConsensusTyped ==
  ASSUME Typed, Consensus
  PROVE  /\ writing \in Submission /\ writing' \in Submission
         /\ writing.chunks < Chunks(writing.record)
         /\ writing'.record = writing.record /\ writing'.chunks = writing.chunks + 1
         /\ writing'.start = NextChunk(writing).start
         /\ topic' = Append(topic, NextChunk(writing))
         /\ topic' \in Seq(TopicMessage) /\ Len(topic') <= MaxTopic
<1>1. writing \in Submission /\ writing.chunks < Chunks(writing.record) /\ Len(topic) < MaxTopic
  BY DEF Consensus, Typed, TrailTyped
<1> DEFINE m == NextChunk(writing)
<1>2. m \in TopicMessage /\ writing.chunks \in 0 .. 1 /\ writing.record \in Record
  BY <1>1, NextChunkTyped
<1>3. topic' = Append(topic, m) /\ writing' = [writing EXCEPT !.chunks = @ + 1, !.start = m.start]
  BY DEF Consensus
<1> HIDE DEF m
<1>4. m.start \in Nat
  BY <1>2 DEF TopicMessage
<1>5. writing' = [kind |-> "submit", record |-> writing.record, chunks |-> writing.chunks + 1, start |-> m.start]
  BY <1>1, <1>3 DEF Submission
<1>6. writing' \in Submission
  BY <1>2, <1>4, <1>5 DEF Submission
<1>7. topic' \in Seq(TopicMessage) /\ Len(topic') = Len(topic) + 1
  BY <1>2, <1>3 DEF Typed, TrailTyped
<1>8. Len(topic') <= MaxTopic
  BY <1>1, <1>7, TrailAssumption DEF Typed, TrailTyped
<1> QED
  BY <1>1, <1>3, <1>5, <1>6, <1>7, <1>8 DEF m

(* What LateConsensus does. *)
LEMMA LateTyped ==
  ASSUME Typed, OnTheWire, NEW k \in Slots, LateConsensus(k)
  PROVE  /\ wire[k] \in Submission /\ wire[k].chunks < Chunks(wire[k].record)
         /\ wire' \in [Slots -> {Idle} \cup Submission]
         /\ \A j \in Slots : wire'[j] # Idle => wire'[j] = wire[j]
         /\ topic' = Append(topic, NextChunk(wire[k]))
         /\ topic' \in Seq(TopicMessage) /\ Len(topic') <= MaxTopic
         /\ late' = late + 1 /\ late' \in Nat
<1>1. wire[k] \in Submission /\ wire[k].chunks < Chunks(wire[k].record) /\ Len(topic) < MaxTopic
  BY DEF LateConsensus, Typed, TrailTyped, OnTheWire
<1> DEFINE m == NextChunk(wire[k])
<1>2. m \in TopicMessage
  BY <1>1, NextChunkTyped
<1>3. topic' = Append(topic, m) /\ wire' = [wire EXCEPT ![k] = Idle]
  BY DEF LateConsensus
<1> HIDE DEF m
<1>4. topic' \in Seq(TopicMessage) /\ Len(topic') = Len(topic) + 1
  BY <1>2, <1>3 DEF Typed, TrailTyped
<1>5. Len(topic') <= MaxTopic
  BY <1>1, <1>4, TrailAssumption DEF Typed, TrailTyped
<1>6. late' = late + 1 /\ late' \in Nat
  BY DEF LateConsensus, Typed, TrailTyped
<1> QED
  BY <1>1, <1>3, <1>4, <1>5, <1>6 DEF m, Typed, TrailTyped

(* What is given up goes to the wire, or away. *)
LEMMA GivenUpTyped ==
  ASSUME Typed, GivenUp
  PROVE  /\ writing' = Idle /\ wire' \in [Slots -> {Idle} \cup Submission]
         /\ \A k \in Slots : wire'[k] # Idle =>
              \/ wire'[k] = wire[k]
              \/ writing # Idle /\ writing.chunks < Chunks(writing.record) /\ wire'[k] = writing
BY DEF GivenUp, Typed, TrailTyped

(* What Load, WalletOf and HumanOf find is in a record that was fetched. *)
LEMMA Loaded ==
  ASSUME NEW t \in Seq(TopicMessage), NEW d \in Docs
  PROVE  LET of == {i \in FetchTopicMessages(t) : Pledges(t[i].record, d)}
         IN  /\ of = {} => Load(t)[d] = None
             /\ of # {} => \E i \in of : Load(t)[d] = t[i].record.invoice
             /\ Load(t)[d] \in Invoices \cup {None}
<1> DEFINE of == {i \in FetchTopicMessages(t) : Pledges(t[i].record, d)}
<1>1. of \in SUBSET DOMAIN t
  BY DEF FetchTopicMessages
<1>2. \A i \in of : t[i].record \in Record /\ Pledges(t[i].record, d)
  BY <1>1, RecordOfMessage
<1>3. \A i \in of : t[i].record.invoice \in Invoices
  BY <1>2, PledgeNamesInvoice
<1>4. Load(t)[d] = IF of = {} THEN None ELSE First(t, of).invoice
  BY DEF Load
<1> HIDE DEF of
<1>5. CASE of = {}
  BY <1>4, <1>5 DEF of
<1>6. CASE of # {}
  <2>1. PICK i \in of : First(t, of) = t[i].record
    BY <1>1, <1>6, FirstIsOne
  <2> QED
    BY <1>3, <1>4, <1>6, <2>1 DEF of
<1> QED
  BY <1>5, <1>6

LEMMA PassesFetched ==
  ASSUME NEW t \in Seq(TopicMessage)
  PROVE  Passes(t) \in SUBSET DOMAIN t /\ \A i \in Passes(t) : t[i].record \in Pass
<1>1. Passes(t) \in SUBSET DOMAIN t
  BY DEF Passes, FetchTopicMessages
<1>2. \A i \in Passes(t) : t[i].record \in Record /\ t[i].record.kind = "selfie"
  BY <1>1, RecordOfMessage DEF Passes
<1> QED
  BY <1>1, <1>2, RecordOfKind

LEMMA WalletFound ==
  ASSUME NEW t \in Seq(TopicMessage), NEW n \in Nullifiers
  PROVE  LET of == {i \in Passes(t) : t[i].record.nullifier = n}
         IN  /\ of = {} => WalletOf(t, n) = None
             /\ of # {} => \E i \in of : WalletOf(t, n) = t[i].record.wallet
             /\ WalletOf(t, n) \in Wallets \cup {None}
<1> DEFINE of == {i \in Passes(t) : t[i].record.nullifier = n}
<1>1. of \in SUBSET DOMAIN t /\ \A i \in of : t[i].record.wallet \in Wallets
  BY PassesFetched DEF Pass
<1>2. WalletOf(t, n) = IF of = {} THEN None ELSE First(t, of).wallet
  BY DEF WalletOf
<1> HIDE DEF of
<1>3. CASE of = {}
  BY <1>2, <1>3 DEF of
<1>4. CASE of # {}
  <2>1. PICK i \in of : First(t, of) = t[i].record
    BY <1>1, <1>4, FirstIsOne
  <2> QED
    BY <1>1, <1>2, <1>4, <2>1 DEF of
<1> QED
  BY <1>3, <1>4

LEMMA HumanFound ==
  ASSUME NEW t \in Seq(TopicMessage), NEW w \in Wallets
  PROVE  LET of == {i \in Passes(t) : t[i].record.wallet = w}
         IN  /\ of = {} => HumanOf(t, w) = None
             /\ of # {} => \E i \in of : HumanOf(t, w) = t[i].record.nullifier
             /\ HumanOf(t, w) \in Nullifiers \cup {None}
<1> DEFINE of == {i \in Passes(t) : t[i].record.wallet = w}
<1>1. of \in SUBSET DOMAIN t /\ \A i \in of : t[i].record.nullifier \in Nullifiers
  BY PassesFetched DEF Pass
<1>2. HumanOf(t, w) = IF of = {} THEN None ELSE First(t, of).nullifier
  BY DEF HumanOf
<1> HIDE DEF of
<1>3. CASE of = {}
  BY <1>2, <1>3 DEF of
<1>4. CASE of # {}
  <2>1. PICK i \in of : First(t, of) = t[i].record
    BY <1>1, <1>4, FirstIsOne
  <2> QED
    BY <1>1, <1>2, <1>4, <2>1 DEF of
<1> QED
  BY <1>3, <1>4

-----------------------------------------------------------------------------
LEMMA TypedInit == Init => Typed
<1> SUFFICES ASSUME Init PROVE Typed
  OBVIOUS
<1>1. topic \in Seq(TopicMessage) /\ Len(topic) = 0
  BY DEF Init, TrailInit
<1> QED
  BY <1>1, TrailAssumption DEF Init, TrailInit, Typed, TrailTyped, ServiceTyped, CallTypes

LEMMA TypedRestart ==
  ASSUME Typed, NEW served \in 0 .. MaxTopic, served <= Len(topic), Restart(served)
  PROVE  Typed'
<1> DEFINE t == SubSeq(topic, 1, served)
<1>1. t \in Seq(TopicMessage)
  BY DEF Typed, TrailTyped, ServiceTyped
<1>2. docHashes' = Load(t) /\ GivenUp /\ topic' = topic /\ unreported' = unreported /\ late' = late
  BY DEF Restart, Replay
<1>3. docHashes' \in [Docs -> Invoices \cup {None}]
  <2>1. docHashes' = [d \in Docs |-> docHashes'[d]]
    BY <1>2 DEF Load
  <2> QED
    BY <1>1, <1>2, <2>1, Loaded
<1>4. lost' \in Nat
  BY DEF Restart, Replay, Typed, TrailTyped
<1>5. /\ used' = {t[i].record.nullifier : i \in Passes(t)}
      /\ selfie' = {t[i].record.wallet : i \in Passes(t)}
      /\ wallet' = [n \in Nullifiers |-> WalletOf(t, n)]
      /\ human' = [w \in Wallets |-> HumanOf(t, w)]
      /\ calls' = [c \in Callers |-> NoCall] /\ told' = told
  BY DEF Restart, Restore
<1>8. \A i \in Passes(t) : t[i].record.nullifier \in Nullifiers /\ t[i].record.wallet \in Wallets
  BY <1>1, PassesFetched DEF Pass
<1>6. used' \subseteq Nullifiers /\ selfie' \subseteq Wallets
  BY <1>5, <1>8
<1>7. wallet' \in [Nullifiers -> Wallets \cup {None}] /\ human' \in [Wallets -> Nullifiers \cup {None}]
  BY <1>1, <1>5, WalletFound, HumanFound
<1> QED
  BY <1>2, <1>3, <1>4, <1>5, <1>6, <1>7, GivenUpTyped DEF Typed, TrailTyped, ServiceTyped, CallTypes

LEMMA TypedTrail ==
  ASSUME Typed, OnTheWire,
         \/ Consensus \/ Submitted \/ SubmitFails
         \/ \E k \in Slots : LateConsensus(k)
         \/ \E r \in Record : Begin(r)
         \/ \E r \in Attestation : ~r.logo /\ OtherPayer(r)
  PROVE  TrailTyped'
<1>1. CASE Consensus
  BY <1>1, ConsensusTyped DEF Consensus, Typed, TrailTyped, ServiceTyped
<1>6. ASSUME NEW k \in Slots, LateConsensus(k) PROVE TrailTyped'
  BY <1>6, LateTyped DEF LateConsensus, Typed, TrailTyped
<1>2. CASE Submitted
  <2>1. writing \in Submission
    BY <1>2 DEF Submitted, Typed, TrailTyped, ServiceTyped
  <2>2. \A d \in Docs : Pledges(writing.record, d) => writing.record.invoice \in Invoices
    BY <2>1, KindsDiffer DEF Submission, Record, Pledges, Attestation, Receipt
  <2> QED
    BY <1>2, <2>2 DEF Submitted, Typed, TrailTyped, ServiceTyped
<1>3. CASE SubmitFails
  BY <1>3, GivenUpTyped DEF SubmitFails, Typed, TrailTyped, ServiceTyped
<1>4. ASSUME NEW r \in Record, Begin(r)
      PROVE  writing' \in Submission
  BY <1>4, BeginTyped
<1>5. ASSUME NEW r \in Attestation, ~r.logo, OtherPayer(r)
      PROVE  topic' \in Seq(TopicMessage) /\ Len(topic') <= MaxTopic
  <2>1. Message(r, 1, Len(topic) + 1, "other") \in TopicMessage
    BY <1>5, ChunksType DEF Message, TopicMessage, Typed, TrailTyped, ServiceTyped, Record
  <2>2. Len(topic) < MaxTopic /\ topic' = Append(topic, Message(r, 1, Len(topic) + 1, "other"))
    BY <1>5 DEF OtherPayer
  <2> QED
    BY <2>1, <2>2, TrailAssumption DEF Typed, TrailTyped, ServiceTyped
<1> QED
  BY <1>1, <1>2, <1>3, <1>4, <1>5, <1>6 DEF Begin, OtherPayer, Typed, TrailTyped, ServiceTyped

(* A request under way carries a pass. *)
LEMMA CallTyped ==
  ASSUME ServiceTyped, NEW c \in Callers, calls[c].at \in {"portal", "passed", "signalled", "anchoring"}
  PROVE  calls[c] = [at |-> calls[c].at, pass |-> calls[c].pass] /\ calls[c].pass \in Pass
<1>1. calls[c] \in CallTypes
  BY DEF ServiceTyped
<1>2. calls[c] # NoCall
  BY DEF NoCall
<1> QED
  BY <1>1, <1>2 DEF CallTypes

LEMMA GoesTyped ==
  ASSUME ServiceTyped, NEW c \in Callers, calls[c].at \in {"portal", "passed", "signalled", "anchoring"},
         NEW next \in {"passed", "signalled", "anchoring"}, Goes(c, next)
  PROVE  /\ calls' = [calls EXCEPT ![c] = [at |-> next, pass |-> calls[c].pass]]
         /\ calls' \in [Callers -> CallTypes]
<1>1. calls[c] = [at |-> calls[c].at, pass |-> calls[c].pass] /\ calls[c].pass \in Pass
  BY CallTyped
<1>2. [calls[c] EXCEPT !.at = next] = [at |-> next, pass |-> calls[c].pass]
  BY <1>1
<1>3. calls' = [calls EXCEPT ![c] = [at |-> next, pass |-> calls[c].pass]]
  BY <1>2 DEF Goes
<1> QED
  BY <1>1, <1>3 DEF ServiceTyped, CallTypes

LEMMA BindTyped ==
  ASSUME ServiceTyped, NEW p \in Pass, Bind(p)
  PROVE  /\ wallet' \in [Nullifiers -> Wallets \cup {None}]
         /\ human' \in [Wallets -> Nullifiers \cup {None}]
         /\ p.nullifier \in Nullifiers /\ p.wallet \in Wallets
<1>1. p.nullifier \in Nullifiers /\ p.wallet \in Wallets
  BY DEF Pass
<1> QED
  BY <1>1 DEF Bind, Bound, ServiceTyped

LEMMA TypedStep ==
  ASSUME Typed, OnTheWire, [Next]_vars
  PROVE  Typed'
<1>0. ServiceTyped /\ TrailTyped /\ (ServiceTyped' /\ TrailTyped' => Typed')
  BY DEF Typed
<1>t. UNCHANGED trailVars => TrailTyped'
  BY <1>0 DEF trailVars, TrailTyped
<1>1. ASSUME NEW c \in Callers, NEW p \in Pass, Verify(c, p) PROVE Typed'
  BY <1>0, <1>1, <1>t DEF Verify, ServiceTyped, CallTypes, serviceVars
<1>2. ASSUME NEW c \in Callers, PortalAccepts(c) PROVE Typed'
  <2>1. calls[c].pass \in Pass
    BY <1>0, <1>2, CallTyped DEF PortalAccepts
  <2>2. CASE calls[c].pass.nullifier \in used
    BY <1>0, <1>2, <1>t, <2>2 DEF PortalAccepts, Ends, ServiceTyped, CallTypes, serviceVars
  <2>3. CASE calls[c].pass.nullifier \notin used
    <3>1. Goes(c, "passed") /\ used' = used \cup {calls[c].pass.nullifier} /\ Bind(calls[c].pass)
      BY <1>2, <2>3 DEF PortalAccepts
    <3> QED
      BY <1>0, <1>2, <1>t, <2>1, <3>1, GoesTyped, BindTyped DEF PortalAccepts, ServiceTyped
  <2> QED
    BY <2>2, <2>3
<1>3. ASSUME NEW c \in Callers, PortalRejects(c) PROVE Typed'
  BY <1>0, <1>3, <1>t DEF PortalRejects, Ends, ServiceTyped, CallTypes, serviceVars
<1>4. ASSUME NEW c \in Callers, SetSelfieCheck(c) PROVE Typed'
  <2>1. calls[c].pass.wallet \in Wallets
    BY <1>0, <1>4, CallTyped DEF SetSelfieCheck, Pass
  <2> QED
    BY <1>0, <1>4, <1>t, <2>1, GoesTyped DEF SetSelfieCheck, ServiceTyped, serviceVars
<1>5. ASSUME NEW c \in Callers, AnchorPass(c) PROVE Typed'
  <2>1. \E r \in Record : Begin(r)
    BY <1>0, <1>5, CallTyped DEF AnchorPass, Record
  <2>2. TrailTyped'
    BY <2>1, TypedTrail
  <2> QED
    BY <1>0, <1>5, <2>2, GoesTyped DEF AnchorPass, ServiceTyped, serviceVars
<1>6. ASSUME Answered PROVE calls' \in [Callers -> CallTypes]
  BY <1>0, <1>6 DEF Answered, ServiceTyped, CallTypes
<1>7. CASE Anchored
  <2>1. TrailTyped'
    BY <1>7, TypedTrail DEF Anchored
  <2>2. \A c \in Anchoring : calls[c].pass \in Pass
    BY <1>0, CallTyped DEF Anchoring
  <2> QED
    BY <1>0, <1>6, <1>7, <2>1, <2>2 DEF Anchored, ServiceTyped, serviceVars
<1>8. CASE NotAnchored
  <2>1. TrailTyped'
    BY <1>8, TypedTrail DEF NotAnchored
  <2> QED
    BY <1>0, <1>6, <1>8, <2>1 DEF NotAnchored, ServiceTyped, serviceVars
<1>9. CASE OtherRecord
  <2>1. \E r \in Record : Begin(r)
    BY <1>9 DEF OtherRecord, AnchorReceipt, Attest, Record
  <2>2. TrailTyped'
    BY <2>1, TypedTrail
  <2> QED
    BY <1>0, <1>9, <2>2 DEF OtherRecord, ServiceTyped, serviceVars
<1>10. CASE OnTopic
  <2>2. TrailTyped'
    BY <1>10, TypedTrail DEF OnTopic
  <2> QED
    BY <1>0, <1>10, <2>2 DEF OnTopic, ServiceTyped, serviceVars
<1>11. CASE UNCHANGED vars
  BY <1>0, <1>11, <1>t DEF vars, serviceVars, ServiceTyped
<1> QED
  BY <1>1, <1>2, <1>3, <1>4, <1>5, <1>7, <1>8, <1>9, <1>10, <1>11, TypedRestart DEF Next

-----------------------------------------------------------------------------
LEMMA Appended ==
  ASSUME TrailTyped, NEW m \in TopicMessage, topic' = Append(topic, m)
  PROVE  /\ DOMAIN topic = 1 .. Len(topic) /\ Len(topic) \in Nat
         /\ DOMAIN topic' = 1 .. Len(topic) + 1
         /\ \A i \in 1 .. Len(topic) : topic'[i] = topic[i]
         /\ topic'[Len(topic) + 1] = m
BY DEF TrailTyped

LEMMA ShapeOf ==
  ASSUME TrailTyped, Written, NEW i \in DOMAIN topic
  PROVE  /\ i \in 1 .. Len(topic) /\ topic[i].start \in 1 .. i
         /\ topic[i].number \in 1 .. topic[i].total /\ topic[i].total \in {1, 2}
<1>1. i \in 1 .. Len(topic) /\ topic[i] \in TopicMessage
  BY RecordOfMessage DEF TrailTyped
<1>2. topic[i].number \in {1, 2} /\ topic[i].total \in {1, 2}
  BY <1>1 DEF TopicMessage
<1> QED
  BY <1>1, <1>2 DEF Written, Shaped

(* A message that starts at most at itself leaves the others as they are. *)
LEMMA ShapeKept ==
  ASSUME TrailTyped, Written, NEW m \in TopicMessage, topic' = Append(topic, m),
         \A i \in Nat : i = Len(topic) + 1 => Shaped(i)'
  PROVE  Written'
<1>1. ASSUME NEW i \in 1 .. Len(topic) PROVE Shaped(i)'
  BY <1>1, Appended DEF Written, Shaped
<1> QED
  BY <1>1, Appended DEF Written

(* A chunk of a submission whose first message is there. *)
LEMMA WrittenByChunk ==
  ASSUME Typed, Written, NEW s \in Submission, s.chunks < Chunks(s.record), Started(s),
         topic' = Append(topic, NextChunk(s))
  PROVE  Written'
<1> DEFINE n == Len(topic) + 1
           m == NextChunk(s)
<1>1. /\ m \in TopicMessage /\ s.chunks \in 0 .. 1
      /\ m.record = s.record /\ m.number = s.chunks + 1 /\ m.total = Chunks(s.record)
      /\ m.start = IF s.chunks = 0 THEN n ELSE s.start
      /\ m.payer = "operator"
  BY NextChunkTyped
<1> HIDE DEF m
<1>2. topic' = Append(topic, m)
  BY DEF m
<1>3. /\ DOMAIN topic = 1 .. Len(topic) /\ Len(topic) \in Nat
      /\ DOMAIN topic' = 1 .. n
      /\ \A i \in 1 .. Len(topic) : topic'[i] = topic[i]
      /\ topic'[n] = m
  BY <1>1, <1>2, Appended DEF Typed
<1>4. Chunks(s.record) \in {1, 2}
  BY ChunksType
<1>5. CASE s.chunks = 0
  <2>1. ASSUME NEW i \in Nat, i = n PROVE Shaped(i)'
    BY <1>1, <1>3, <1>4, <1>5, <2>1 DEF Shaped
  <2> QED
    BY <1>1, <1>2, <2>1, ShapeKept DEF Typed
<1>6. CASE s.chunks = 1
  <2>1. s.start \in 1 .. Len(topic) /\ topic[s.start] = Message(s.record, 1, s.start, "operator")
    BY <1>3, <1>6 DEF Started
  <2>2. topic[s.start].number = 1 /\ topic[s.start].record = s.record /\ topic[s.start].payer = "operator"
    BY <2>1 DEF Message
  <2>3. ASSUME NEW i \in Nat, i = n PROVE Shaped(i)'
    BY <1>1, <1>3, <1>4, <1>6, <2>1, <2>2, <2>3 DEF Shaped
  <2> QED
    BY <1>1, <1>2, <2>3, ShapeKept DEF Typed
<1> QED
  BY <1>1, <1>5, <1>6

(* A message more does not move where a submission started. *)
LEMMA StartedKept ==
  ASSUME TrailTyped, NEW m \in TopicMessage, topic' = Append(topic, m), NEW s, Started(s)
  PROVE  s.chunks > 0 =>
           /\ s.start \in DOMAIN topic' /\ s.start \in 1 .. Len(topic)
           /\ topic'[s.start] = Message(s.record, 1, s.start, "operator")
BY Appended DEF Started

LEMMA WrittenByConsensus ==
  ASSUME Typed, Written, OnItsWay, OnTheWire, Consensus
  PROVE  Written' /\ OnItsWay' /\ OnTheWire'
<1> DEFINE r == writing.record
           k == writing.chunks + 1
           n == Len(topic) + 1
           m == NextChunk(writing)
<1>1. /\ writing \in Submission /\ writing' \in Submission /\ writing.chunks < Chunks(r)
      /\ writing'.record = r /\ writing'.chunks = k /\ writing'.start = m.start
      /\ topic' = Append(topic, m)
  BY ConsensusTyped
<1>2. writing # Idle /\ writing' # Idle /\ wire' = wire
  BY <1>1, KindsDiffer DEF Consensus
<1>3. /\ m \in TopicMessage /\ writing.chunks \in 0 .. 1
      /\ m.record = r /\ m.number = k /\ m.total = Chunks(r)
      /\ m.start = IF writing.chunks = 0 THEN n ELSE writing.start
      /\ m.payer = "operator"
  BY <1>1, NextChunkTyped
<1> HIDE DEF m
<1>4. Started(writing) /\ k <= Chunks(r) /\ Chunks(r) \in {1, 2}
  BY <1>1, <1>2, <1>3, ChunksType DEF OnItsWay
<1>5. /\ DOMAIN topic = 1 .. Len(topic) /\ Len(topic) \in Nat
      /\ DOMAIN topic' = 1 .. n
      /\ \A i \in 1 .. Len(topic) : topic'[i] = topic[i]
      /\ topic'[n] = m
  BY <1>1, <1>3, Appended DEF Typed
<1>6. Written'
  BY <1>1, <1>4, WrittenByChunk DEF m
<1>7. ASSUME NEW j \in Slots, wire[j] # Idle
      PROVE  /\ wire[j].chunks < Chunks(wire[j].record) /\ Started(wire[j])'
             /\ wire[j].chunks > 0 => wire[j].start # writing'.start
  <2>1. wire[j].chunks < Chunks(wire[j].record) /\ Started(wire[j])
        /\ (writing.chunks > 0 /\ wire[j].chunks > 0 => wire[j].start # writing.start)
    BY <1>2, <1>7 DEF OnTheWire
  <2>2. wire[j].chunks > 0 =>
          /\ wire[j].start \in DOMAIN topic' /\ wire[j].start \in 1 .. Len(topic)
          /\ topic'[wire[j].start] = Message(wire[j].record, 1, wire[j].start, "operator")
    BY <1>1, <1>3, <2>1, StartedKept DEF Typed
  <2> QED
    BY <1>1, <1>2, <1>3, <1>5, <2>1, <2>2 DEF Started
<1>8. OnTheWire'
  BY <1>2, <1>7 DEF OnTheWire
<1>9. CASE writing.chunks = 0
  <2>1. k = 1 /\ writing'.start = n
    BY <1>1, <1>3, <1>9
  <2>2. topic'[n] = Message(r, 1, n, "operator")
    BY <1>5, <1>9, <2>1 DEF m, NextChunk
  <2>3. \A i \in 1 .. Len(topic) : topic[i].start # n
    BY <1>5, ShapeOf DEF Typed
  <2> QED
    BY <1>1, <1>3, <1>4, <1>5, <1>6, <1>8, <2>1, <2>2, <2>3 DEF OnItsWay, Started
<1>10. CASE writing.chunks = 1
  <2>1. k = 2 /\ writing'.start = writing.start
    BY <1>1, <1>3, <1>10
  <2>2. /\ writing.start \in DOMAIN topic'
        /\ topic'[writing.start] = Message(r, 1, writing.start, "operator")
    BY <1>1, <1>3, <1>4, <1>10, StartedKept DEF Typed
  <2>3. \A i \in 1 .. Len(topic) : topic[i].number <= 2
    BY <1>5, ShapeOf DEF Typed
  <2>4. \A i \in DOMAIN topic' : topic'[i].number <= 2
    BY <1>3, <1>5, <2>1, <2>3
  <2>5. topic'[n].start = writing'.start /\ topic'[n].number = 2
    BY <1>1, <1>3, <1>5, <2>1
  <2>6. Started(writing)'
    BY <1>1, <2>1, <2>2 DEF Started
  <2>7. writing'.chunks = 2 /\ 2 <= Chunks(writing'.record) /\ n \in DOMAIN topic'
    BY <1>1, <1>4, <1>5, <2>1
  <2> QED
    BY ONLY <1>6, <1>8, <2>4, <2>5, <2>6, <2>7 DEF OnItsWay
<1> QED
  BY <1>3, <1>9, <1>10

(* A message of another submission than the one under way. *)
LEMMA WayKept ==
  ASSUME Typed, Written, OnItsWay, NEW m \in TopicMessage, topic' = Append(topic, m), writing' = writing,
         writing # Idle /\ writing.chunks > 0 => m.start # writing.start
  PROVE  OnItsWay'
<1>1. /\ DOMAIN topic = 1 .. Len(topic) /\ Len(topic) \in Nat
      /\ DOMAIN topic' = 1 .. Len(topic) + 1
      /\ \A i \in 1 .. Len(topic) : topic'[i] = topic[i]
      /\ topic'[Len(topic) + 1] = m
  BY Appended DEF Typed
<1>2. ASSUME writing # Idle PROVE Started(writing)'
  BY <1>2, StartedKept DEF OnItsWay, Started, Typed
<1> QED
  BY <1>1, <1>2 DEF OnItsWay

LEMMA WireKept ==
  ASSUME Typed, OnTheWire, NEW m \in TopicMessage, topic' = Append(topic, m), writing' = writing,
         \A j \in Slots : wire'[j] # Idle => wire'[j] = wire[j]
  PROVE  OnTheWire'
<1>1. ASSUME NEW j \in Slots, wire'[j] # Idle
      PROVE  /\ wire'[j].chunks < Chunks(wire'[j].record) /\ Started(wire[j])'
             /\ writing # Idle /\ writing.chunks > 0 /\ wire'[j].chunks > 0 => wire'[j].start # writing.start
  BY <1>1, StartedKept DEF OnTheWire, Started, Typed
<1> QED
  BY <1>1 DEF OnTheWire, Started

LEMMA WrittenByLate ==
  ASSUME Typed, Written, OnItsWay, OnTheWire, NEW k \in Slots, LateConsensus(k)
  PROVE  Written' /\ OnItsWay' /\ OnTheWire'
<1> DEFINE m == NextChunk(wire[k])
<1>1. /\ wire[k] \in Submission /\ wire[k].chunks < Chunks(wire[k].record)
      /\ \A j \in Slots : wire'[j] # Idle => wire'[j] = wire[j]
      /\ topic' = Append(topic, m)
  BY LateTyped
<1>2. wire[k] # Idle /\ writing' = writing
  BY DEF LateConsensus
<1>3. /\ m \in TopicMessage /\ wire[k].chunks \in 0 .. 1
      /\ m.start = IF wire[k].chunks = 0 THEN Len(topic) + 1 ELSE wire[k].start
  BY <1>1, NextChunkTyped
<1>4. Started(wire[k])
  BY <1>2 DEF OnTheWire
<1>5. Written'
  BY <1>1, <1>4, WrittenByChunk
<1> HIDE DEF m
<1>6. writing # Idle /\ writing.chunks > 0 => m.start # writing.start /\ writing.start \in 1 .. Len(topic)
  BY <1>2, <1>3 DEF OnItsWay, OnTheWire, Started, Typed, TrailTyped
<1> QED
  BY <1>1, <1>2, <1>3, <1>5, <1>6, WayKept, WireKept

LEMMA WrittenByOther ==
  ASSUME Typed, Written, OnItsWay, OnTheWire, NEW r \in Attestation, ~r.logo, OtherPayer(r)
  PROVE  Written' /\ OnItsWay' /\ OnTheWire'
<1> DEFINE n == Len(topic) + 1
           m == Message(r, 1, n, "other")
<1>1. m \in TopicMessage /\ topic' = Append(topic, m) /\ writing' = writing /\ wire' = wire
  BY ChunksType DEF OtherPayer, Message, TopicMessage, Typed, TrailTyped, Record
<1>2. m.number = 1 /\ m.start = n /\ m.total = Chunks(r) /\ m.record = r /\ Chunks(r) = 1
  BY DEF Message, Chunks
<1>3. /\ DOMAIN topic = 1 .. Len(topic) /\ Len(topic) \in Nat
      /\ DOMAIN topic' = 1 .. n
      /\ \A i \in 1 .. Len(topic) : topic'[i] = topic[i]
      /\ topic'[n] = m
  BY <1>1, Appended DEF Typed
<1> HIDE DEF m
<1>4. ASSUME NEW i \in Nat, i = n PROVE Shaped(i)'
  BY <1>2, <1>3, <1>4 DEF Shaped
<1>5. Written'
  BY <1>1, <1>4, ShapeKept DEF Typed
<1>6. writing # Idle /\ writing.chunks > 0 => m.start # writing.start
  BY <1>2, <1>3 DEF OnItsWay, Started
<1> QED
  BY <1>1, <1>5, <1>6, WayKept, WireKept

(* The topic and the submissions, step by step. *)
LEMMA TrailSteps ==
  ASSUME Typed, [Next]_vars
  PROVE  \/ topic' = topic /\ writing' = writing /\ wire' = wire
         \/ topic' = topic /\ writing' = Idle /\ wire' = wire
         \/ topic' = topic /\ GivenUp
         \/ topic' = topic /\ wire' = wire /\ \E r \in Record : Begin(r)
         \/ Consensus
         \/ \E k \in Slots : LateConsensus(k)
         \/ \E r \in Attestation : ~r.logo /\ OtherPayer(r)
<1>1. ASSUME NEW c \in Callers, AnchorPass(c)
      PROVE  topic' = topic /\ wire' = wire /\ \E r \in Record : Begin(r)
  BY <1>1, CallTyped DEF AnchorPass, Record, Typed, Begin
<1>2. CASE OtherRecord
  BY <1>2 DEF OtherRecord, AnchorReceipt, Attest, Record, Begin
<1>3. ASSUME NEW c \in Callers,
             (\E p \in Pass : Verify(c, p)) \/ PortalAccepts(c) \/ PortalRejects(c) \/ SetSelfieCheck(c)
      PROVE  topic' = topic /\ writing' = writing /\ wire' = wire
  BY <1>3 DEF Verify, PortalAccepts, PortalRejects, SetSelfieCheck, trailVars
<1>4. CASE Anchored
  BY <1>4 DEF Anchored, Submitted
<1>5. CASE NotAnchored \/ \E served \in 0 .. MaxTopic : Restart(served)
  BY <1>5 DEF NotAnchored, SubmitFails, Restart, Replay
<1>6. CASE OnTopic
  BY <1>6 DEF OnTopic
<1>7. CASE UNCHANGED vars
  BY <1>7 DEF vars, trailVars
<1> QED
  BY <1>1, <1>2, <1>3, <1>4, <1>5, <1>6, <1>7 DEF Next

LEMMA WrittenStep ==
  ASSUME Typed, Written, OnItsWay, OnTheWire, [Next]_vars
  PROVE  Written' /\ OnItsWay' /\ OnTheWire'
<1>1. ASSUME topic' = topic PROVE Written'
  BY <1>1 DEF Written, Shaped
<1>2. CASE topic' = topic /\ writing' = writing /\ wire' = wire
  BY <1>1, <1>2 DEF OnItsWay, OnTheWire, Started
<1>3. CASE topic' = topic /\ writing' = Idle /\ wire' = wire
  BY <1>1, <1>3 DEF OnItsWay, OnTheWire, Started
<1>4. CASE topic' = topic /\ GivenUp
  <2>1. /\ writing' = Idle
        /\ \A k \in Slots : wire'[k] # Idle =>
              \/ wire'[k] = wire[k]
              \/ writing # Idle /\ writing.chunks < Chunks(writing.record) /\ wire'[k] = writing
    BY <1>4, GivenUpTyped
  <2> QED
    BY <1>1, <1>4, <2>1 DEF OnItsWay, OnTheWire, Started
<1>5. ASSUME topic' = topic, wire' = wire, NEW r \in Record, Begin(r)
      PROVE  Written' /\ OnItsWay' /\ OnTheWire'
  <2>1. writing'.chunks = 0 /\ writing'.record = r
    BY <1>5 DEF Begin
  <2> QED
    BY <1>1, <1>5, <2>1, ChunksType DEF OnItsWay, OnTheWire, Started
<1> QED
  BY <1>2, <1>3, <1>4, <1>5, TrailSteps, WrittenByConsensus, WrittenByLate, WrittenByOther

-----------------------------------------------------------------------------
LEMMA CompleteIsFetched == Complete = FetchTopicMessages(topic)
BY DEF Complete, FetchTopicMessages

LEMMA CompleteOnes ==
  ASSUME TrailTyped, NEW i \in Complete
  PROVE  /\ i \in DOMAIN topic /\ topic[i].payer = "operator" /\ topic[i].number = 1
         /\ topic[i].record \in Record
  BY RecordOfMessage DEF Complete, TrailTyped

(* One more message completes the submission it belongs to, and no other. *)
LEMMA CompleteGrows ==
  ASSUME TrailTyped, Written, NEW m \in TopicMessage, topic' = Append(topic, m), Written'
  PROVE  /\ \A i \in Complete : i \in Complete' /\ topic'[i] = topic[i]
         /\ \A i \in Complete' : (i \in Complete \/ m.start = i) /\ topic'[i].payer = "operator"
         /\ \A i \in Complete' : i \notin Complete =>
              topic'[i].record = m.record /\ m.payer = "operator" /\ m.number = m.total
<1>1. /\ DOMAIN topic = 1 .. Len(topic) /\ Len(topic) \in Nat
      /\ DOMAIN topic' = 1 .. Len(topic) + 1
      /\ \A i \in 1 .. Len(topic) : topic'[i] = topic[i]
      /\ topic'[Len(topic) + 1] = m
  BY Appended
<1>2. ASSUME NEW i \in Complete PROVE i \in Complete' /\ topic'[i] = topic[i]
  <2>1. i \in 1 .. Len(topic) /\ topic'[i] = topic[i] /\ topic[i].payer = "operator" /\ topic[i].number = 1
    BY <1>1 DEF Complete
  <2>2. \A k \in 1 .. topic[i].total : \E j \in DOMAIN topic : topic[j].start = i /\ topic[j].number = k
    BY DEF Complete, Whole
  <2>3. \A k \in 1 .. topic'[i].total : \E j \in DOMAIN topic' : topic'[j].start = i /\ topic'[j].number = k
    BY <1>1, <2>1, <2>2
  <2> QED
    BY <1>1, <2>1, <2>3 DEF Complete, Whole
<1>3. ASSUME NEW i \in Complete', m.start # i PROVE i \in Complete
  <2>1. i \in DOMAIN topic' /\ topic'[i].payer = "operator" /\ topic'[i].number = 1
    BY DEF Complete
  <2>2. \A k \in 1 .. topic'[i].total : \E j \in DOMAIN topic' : topic'[j].start = i /\ topic'[j].number = k
    BY DEF Complete, Whole
  <2>3. topic'[i].start = i
    BY <2>1 DEF Written, Shaped
  <2>4. i \in 1 .. Len(topic) /\ topic'[i] = topic[i]
    BY <1>1, <1>3, <2>1, <2>3
  <2>5. \A k \in 1 .. topic[i].total : \E j \in DOMAIN topic : topic[j].start = i /\ topic[j].number = k
    BY <1>1, <1>3, <2>2, <2>4
  <2> QED
    BY <1>1, <2>1, <2>4, <2>5 DEF Complete, Whole
<1>4. \A i \in Complete' : topic'[i].payer = "operator"
  BY DEF Complete
<1>5. PICK n \in DOMAIN topic' : n = Len(topic) + 1 /\ topic'[n] = m
  BY <1>1
<1>8. Shaped(n)'
  BY <1>5 DEF Written
<1>6. /\ m.number \in 1 .. m.total /\ m.total \in {1, 2}
      /\ m.number = 1 => m.start = n
      /\ m.number = 2 => topic'[m.start].record = m.record /\ topic'[m.start].payer = m.payer
  BY <1>5, <1>8, ChunksType DEF Shaped
<1>7. ASSUME NEW i \in Complete', i \notin Complete
      PROVE  topic'[i].record = m.record /\ m.payer = "operator" /\ m.number = m.total
  <2>1. i = m.start /\ topic'[i].payer = "operator" /\ i \in DOMAIN topic'
    BY <1>3, <1>4, <1>7 DEF Complete
  <2>2. CASE m.number = 2
    BY <1>6, <2>1, <2>2
  <2>3. CASE m.number = 1
    <3>1. i = n /\ topic'[i] = m
      BY <1>5, <1>6, <2>1, <2>3
    <3>2. CASE m.total = 2
      <4>1. PICK j \in DOMAIN topic' : topic'[j].start = n /\ topic'[j].number = 2
        BY <3>1, <3>2 DEF Complete, Whole
      <4>2. j \in 1 .. Len(topic)
        BY <1>1, <1>5, <2>3, <4>1
      <4>3. topic[j].start = n /\ j \in DOMAIN topic
        BY <1>1, <4>1, <4>2
      <4>4. topic[j].start \in 1 .. j
        BY <4>3, ShapeOf
      <4> QED
        BY <1>1, <1>5, <4>2, <4>3, <4>4
    <3>3. CASE m.total = 1
      BY <2>1, <2>3, <3>1, <3>3
    <3> QED
      BY <1>6, <3>2, <3>3
  <2>4. m.number \in {1, 2}
    BY DEF TopicMessage
  <2> QED
    BY <2>2, <2>3, <2>4
<1> QED
  BY <1>2, <1>3, <1>4, <1>7

(* So it pledges a document to its own invoice, or to none. *)
LEMMA PledgedGrows ==
  ASSUME TrailTyped, Written, NEW m \in TopicMessage, topic' = Append(topic, m), Written',
         NEW d \in Docs
  PROVE  /\ PledgedTo(d) \subseteq PledgedTo(d)'
         /\ PledgedTo(d)' \subseteq PledgedTo(d) \cup {m.record.invoice}
         /\ ~Pledges(m.record, d) \/ m.number # m.total \/ m.payer # "operator" =>
              PledgedTo(d)' = PledgedTo(d)
<1>1. /\ \A i \in Complete : i \in Complete' /\ topic'[i] = topic[i]
      /\ \A i \in Complete' : i \notin Complete =>
           topic'[i].record = m.record /\ m.payer = "operator" /\ m.number = m.total
  BY CompleteGrows
<1>2. \A x \in PledgedTo(d) : x \in PledgedTo(d)'
  BY <1>1 DEF PledgedTo
<1>3. ASSUME NEW x \in PledgedTo(d)', x \notin PledgedTo(d)
      PROVE  Pledges(m.record, d) /\ x = m.record.invoice /\ m.payer = "operator" /\ m.number = m.total
  <2>1. PICK i \in Complete' : Pledges(topic'[i].record, d) /\ x = topic'[i].record.invoice
    BY <1>3 DEF PledgedTo
  <2>2. i \notin Complete
    BY <1>1, <1>3, <2>1 DEF PledgedTo
  <2> QED
    BY <1>1, <2>1, <2>2
<1> QED
  BY <1>2, <1>3

(* Sets of at most so many elements. *)
LEMMA AtMostSubset ==
  ASSUME NEW n \in Nat, NEW k \in Nat, k <= n, NEW S, AtMost(S, k), NEW T, T \subseteq S
  PROVE  AtMost(T, n)
<1>1. IsFiniteSet(T) /\ Cardinality(T) <= Cardinality(S)
  BY FS_Subset DEF AtMost
<1>2. Cardinality(T) \in Nat /\ Cardinality(S) \in Nat
  BY <1>1, FS_CardinalityType DEF AtMost
<1> QED
  BY <1>1, <1>2 DEF AtMost

LEMMA AtMostOneMore ==
  ASSUME NEW n \in Nat, NEW S, AtMost(S, n), NEW x, NEW T, T \subseteq S \cup {x}
  PROVE  AtMost(T, n + 1)
<1>1. IsFiniteSet(S \cup {x}) /\ Cardinality(S) \in Nat
      /\ Cardinality(S \cup {x}) = IF x \in S THEN Cardinality(S) ELSE Cardinality(S) + 1
  BY FS_AddElement, FS_CardinalityType DEF AtMost
<1>2. AtMost(S \cup {x}, n + 1)
  BY <1>1 DEF AtMost
<1> QED
  BY <1>2, AtMostSubset

(* The submissions of one document agree, on the topic and on its way. *)
LEMMA Agree ==
  ASSUME TrailTyped, OnItsWay, Owned, Indexed, NEW d \in Docs, NEW i \in Complete, NEW j \in Complete,
         Pledges(topic[i].record, d), Pledges(topic[j].record, d)
  PROVE  topic[i].record.invoice = topic[j].record.invoice
<1>1. topic[i].record.invoice \in Invoices /\ topic[j].record.invoice \in Invoices
  BY CompleteOnes, PledgeNamesInvoice
<1>2. ASSUME NEW k \in Complete, Current(k), Pledges(topic[k].record, d)
      PROVE  topic[k].record = writing.record /\ docHashes[d] \in {None, topic[k].record.invoice}
  <2>1. topic[k] = Message(writing.record, 1, k, "operator")
    BY <1>2 DEF Current, OnItsWay, Started
  <2>2. topic[k].record = writing.record
    BY <2>1 DEF Message
  <2> QED
    BY <1>2, <2>2 DEF Current, Owned
<1>3. ASSUME NEW k \in Complete, ~Current(k), Pledges(topic[k].record, d)
      PROVE  docHashes[d] = topic[k].record.invoice
  BY <1>3 DEF Indexed
<1>4. CASE Current(i) /\ Current(j)
  BY <1>4 DEF Current
<1> QED
  BY <1>1, <1>2, <1>3, <1>4, TrailAssumption

(* A submission under way of which every chunk is written is complete. *)
LEMMA CurrentComplete ==
  ASSUME Typed, Written, OnItsWay, writing # Idle
  PROVE  /\ writing.record \in Record
         /\ writing.chunks = Chunks(writing.record) =>
              /\ writing.start \in Complete /\ topic[writing.start].record = writing.record
              /\ \A i \in DOMAIN topic : Current(i) => topic[i].record = writing.record
         /\ writing.chunks < Chunks(writing.record) => \A i \in Complete : ~Current(i)
<1>1. writing \in Submission
  BY DEF Typed, TrailTyped
<1>2. writing.record \in Record /\ writing.chunks \in 0 .. 2 /\ Chunks(writing.record) \in {1, 2}
  BY <1>1, ChunksType DEF Submission
<1>3. ASSUME writing.chunks > 0
      PROVE  /\ writing.start \in DOMAIN topic
             /\ topic[writing.start].record = writing.record /\ topic[writing.start].number = 1
             /\ topic[writing.start].start = writing.start
             /\ topic[writing.start].payer = "operator" /\ topic[writing.start].total = Chunks(writing.record)
  <2>1. /\ writing.start \in DOMAIN topic
        /\ topic[writing.start] = Message(writing.record, 1, writing.start, "operator")
    BY <1>3 DEF OnItsWay, Started
  <2> QED
    BY <2>1 DEF Message
<1>4. ASSUME writing.chunks = Chunks(writing.record) PROVE writing.start \in Complete
  <2>1. writing.chunks > 0
    BY <1>2, <1>4
  <2>2. CASE Chunks(writing.record) = 1
    BY <1>3, <2>1, <2>2 DEF Complete, Whole
  <2>3. CASE Chunks(writing.record) = 2
    <3>1. \E i \in DOMAIN topic : topic[i].start = writing.start /\ topic[i].number = 2
      BY <1>4, <2>3 DEF OnItsWay
    <3>2. \A k \in 1 .. 2 : \E i \in DOMAIN topic : topic[i].start = writing.start /\ topic[i].number = k
      BY <1>3, <2>1, <3>1
    <3> QED
      BY <1>3, <2>1, <2>3, <3>2 DEF Complete, Whole
  <2> QED
    BY <1>2, <2>2, <2>3
<1>5. ASSUME writing.chunks < Chunks(writing.record), NEW i \in Complete, Current(i) PROVE FALSE
  <2>1. writing.chunks > 0 /\ writing.start = i
    BY <1>5 DEF Current
  <2>2. topic[i].total = Chunks(writing.record)
    BY <1>3, <2>1
  <2>3. PICK j \in DOMAIN topic : topic[j].start = i /\ topic[j].number = Chunks(writing.record)
    BY <1>2, <2>2 DEF Complete, Whole
  <2>4. topic[j].number <= writing.chunks
    BY <2>1, <2>3 DEF OnItsWay
  <2> QED
    BY <1>2, <1>5, <2>3, <2>4
<1> QED
  BY <1>2, <1>3, <1>4, <1>5 DEF Current

(* A replay of the whole topic finds what every submission of it agrees on. *)
LEMMA LoadedAll ==
  ASSUME TrailTyped, NEW d \in Docs
  PROVE  /\ Load(topic)[d] # None =>
              \E j \in Complete : Pledges(topic[j].record, d) /\ topic[j].record.invoice = Load(topic)[d]
         /\ \A i \in Complete : Pledges(topic[i].record, d) =>
              \E j \in Complete : Pledges(topic[j].record, d) /\ topic[j].record.invoice = Load(topic)[d]
<1> DEFINE of == {i \in FetchTopicMessages(topic) : Pledges(topic[i].record, d)}
<1>1. /\ of = {} => Load(topic)[d] = None
      /\ of # {} => \E i \in of : Load(topic)[d] = topic[i].record.invoice
  BY Loaded DEF TrailTyped
<1>2. of = {i \in Complete : Pledges(topic[i].record, d)}
  BY CompleteIsFetched
<1> HIDE DEF of
<1> QED
  BY <1>1, <1>2

LEMMA FullReplay ==
  ASSUME Typed, NEW served \in 0 .. MaxTopic, served <= Len(topic), Restart(served), lost' = lost
  PROVE  /\ SubSeq(topic, 1, served) = topic /\ docHashes' = Load(topic)
         /\ Restore(topic) /\ selfie' = {topic[i].record.wallet : i \in Passes(topic)}
<1>1. IF served = Len(topic) THEN lost' = lost ELSE lost' = lost + 1
  BY DEF Restart, Replay
<1>2. served = Len(topic)
  BY <1>1 DEF Typed, TrailTyped
<1>3. SubSeq(topic, 1, Len(topic)) = topic
  BY DEF Typed, TrailTyped
<1> QED
  BY <1>2, <1>3 DEF Restart, Replay

(* What every replay does, of all of the topic or a part. *)
LEMMA AnyReplay ==
  ASSUME Typed, NEW served \in 0 .. MaxTopic, served <= Len(topic), Restart(served)
  PROVE  /\ topic' = topic /\ writing' = Idle /\ unreported' = unreported /\ late' = late
         /\ lost' \in {lost, lost + 1} /\ told' = told /\ calls' = [c \in Callers |-> NoCall]
         /\ docHashes' = Load(SubSeq(topic, 1, served)) /\ Restore(SubSeq(topic, 1, served))
         /\ selfie' = {SubSeq(topic, 1, served)[i].record.wallet : i \in Passes(SubSeq(topic, 1, served))}
BY DEF Restart, Replay, GivenUp

(* What is fetched of a part of the topic is complete on all of it. *)
LEMMA PartFetched ==
  ASSUME TrailTyped, NEW served \in Nat, served <= Len(topic)
  PROVE  LET t == SubSeq(topic, 1, served)
         IN  /\ t \in Seq(TopicMessage)
             /\ \A i \in FetchTopicMessages(t) : i \in Complete /\ t[i] = topic[i]
<1> DEFINE t == SubSeq(topic, 1, served)
<1>1. /\ t \in Seq(TopicMessage) /\ DOMAIN t = 1 .. served /\ DOMAIN topic = 1 .. Len(topic)
      /\ \A i \in 1 .. served : t[i] = topic[i] /\ i \in 1 .. Len(topic)
  BY DEF TrailTyped
<1> HIDE DEF t
<1>2. ASSUME NEW i \in FetchTopicMessages(t) PROVE i \in Complete /\ t[i] = topic[i]
  <2>1. i \in 1 .. served /\ t[i].payer = "operator" /\ t[i].number = 1 /\ Whole(t, i)
    BY <1>1 DEF FetchTopicMessages
  <2>2. t[i] = topic[i] /\ Whole(topic, i)
    BY <1>1, <2>1 DEF Whole
  <2> QED
    BY <1>1, <2>1, <2>2 DEF Complete
<1> QED
  BY <1>1, <1>2 DEF t

-----------------------------------------------------------------------------
(* Which step touches the index, and how. *)
LEMMA IndexSteps ==
  ASSUME Typed, [Next]_vars
  PROVE  \/ UNCHANGED <<topic, writing, docHashes, unreported, late, lost>>
         \/ \E r \in Attestation : Attest(r)
         \/ \E r \in Record : r.kind # "attestation" /\ Begin(r)
         \/ Consensus
         \/ \E k \in Slots : LateConsensus(k)
         \/ \E r \in Attestation : ~r.logo /\ OtherPayer(r)
         \/ Submitted \/ SubmitFails
         \/ \E served \in 0 .. MaxTopic : served <= Len(topic) /\ Restart(served)
<1>1. ASSUME NEW c \in Callers, AnchorPass(c) PROVE \E r \in Record : r.kind # "attestation" /\ Begin(r)
  BY <1>1, CallTyped, KindsDiffer DEF AnchorPass, Record, Typed
<1>2. CASE OtherRecord
  BY <1>2 DEF OtherRecord, AnchorReceipt, Record, Receipt
<1>3. ASSUME NEW c \in Callers,
             (\E p \in Pass : Verify(c, p)) \/ PortalAccepts(c) \/ PortalRejects(c) \/ SetSelfieCheck(c)
      PROVE  UNCHANGED <<topic, writing, docHashes, unreported, late, lost>>
  BY <1>3 DEF Verify, PortalAccepts, PortalRejects, SetSelfieCheck, trailVars
<1>4. CASE UNCHANGED vars
  BY <1>4 DEF vars, trailVars
<1> QED
  BY <1>1, <1>2, <1>3, <1>4 DEF Next, Anchored, NotAnchored, OnTopic

(* The message another account pays for. *)
LEMMA OtherTyped ==
  ASSUME Typed, NEW r \in Attestation, OtherPayer(r)
  PROVE  LET m == Message(r, 1, Len(topic) + 1, "other")
         IN  /\ m \in TopicMessage /\ topic' = Append(topic, m)
             /\ m.payer = "other" /\ m.start = Len(topic) + 1
BY ChunksType DEF Message, TopicMessage, Typed, TrailTyped, Record, OtherPayer

LEMMA OwnedStep ==
  ASSUME Typed, Owned, [Next]_vars
  PROVE  Owned'
<1>1. CASE UNCHANGED <<topic, writing, docHashes, unreported, late, lost>>
  BY <1>1 DEF Owned
<1>2. ASSUME NEW r \in Attestation, Attest(r) PROVE Owned'
  <2>1. docHashes' = docHashes /\ writing'.record = r
    BY <1>2 DEF Attest, Begin
  <2>2. \A d \in Docs : Pledges(r, d) => docHashes[d] \in {None, r.invoice}
    BY <1>2, TrailAssumption DEF Attest, Pledges
  <2> QED
    BY <2>1, <2>2 DEF Owned
<1>3. ASSUME NEW r \in Record, r.kind # "attestation", Begin(r) PROVE Owned'
  BY <1>3 DEF Begin, Owned, Pledges
<1>4. CASE Consensus
  <2>1. writing # Idle /\ docHashes' = docHashes /\ writing'.record = writing.record
    BY <1>4, ConsensusTyped DEF Consensus
  <2> QED
    BY <2>1 DEF Owned
<1>5. CASE (\E k \in Slots : LateConsensus(k)) \/ \E r \in Attestation : OtherPayer(r)
  BY <1>5 DEF LateConsensus, OtherPayer, Owned
<1>6. CASE Submitted \/ SubmitFails \/ \E served \in 0 .. MaxTopic : served <= Len(topic) /\ Restart(served)
  BY <1>6 DEF Submitted, SubmitFails, Restart, Replay, GivenUp, Owned
<1> QED
  BY <1>1, <1>2, <1>3, <1>4, <1>5, <1>6, IndexSteps

(* A replay, of whatever part, binds a document to a pledge of it. *)
LEMMA LoadedIsPledged ==
  ASSUME Typed, NEW served \in Nat, served <= Len(topic), NEW d \in Docs,
         Load(SubSeq(topic, 1, served))[d] # None
  PROVE  Load(SubSeq(topic, 1, served))[d] \in PledgedTo(d)
<1> DEFINE t == SubSeq(topic, 1, served)
           of == {i \in FetchTopicMessages(t) : Pledges(t[i].record, d)}
<1>1. t \in Seq(TopicMessage) /\ \A i \in FetchTopicMessages(t) : i \in Complete /\ t[i] = topic[i]
  BY PartFetched DEF Typed
<1> HIDE DEF t
<1>2. of # {} /\ \E i \in of : Load(t)[d] = t[i].record.invoice
  BY <1>1, Loaded DEF t
<1>3. PICK i \in of : Load(t)[d] = t[i].record.invoice
  BY <1>2
<1> QED
  BY <1>1, <1>3 DEF PledgedTo, t

LEMMA BackedStep ==
  ASSUME Typed, Written, OnItsWay, OnTheWire, Typed', Written', Backed, [Next]_vars
  PROVE  Backed'
<1>1. ASSUME topic' = topic, docHashes' = docHashes PROVE Backed'
  BY <1>1 DEF Backed, PledgedTo, Complete, Whole, Pledges
<1>2. ASSUME NEW m \in TopicMessage, topic' = Append(topic, m), docHashes' = docHashes PROVE Backed'
  BY <1>2, PledgedGrows DEF Backed, Typed
<1>3. CASE Consensus
  BY <1>2, <1>3, ConsensusTyped, NextChunkTyped DEF Consensus
<1>4. ASSUME NEW k \in Slots, LateConsensus(k) PROVE Backed'
  BY <1>2, <1>4, LateTyped, NextChunkTyped DEF LateConsensus
<1>5. ASSUME NEW r \in Attestation, OtherPayer(r) PROVE Backed'
  BY <1>2, <1>5, OtherTyped DEF OtherPayer
<1>6. CASE Submitted
  <2>1. /\ topic' = topic
        /\ \A d \in Docs : docHashes'[d] =
             IF Pledges(writing.record, d) THEN writing.record.invoice ELSE docHashes[d]
    BY <1>6 DEF Submitted
  <2>2. writing.start \in Complete /\ topic[writing.start].record = writing.record
    BY <1>6, CurrentComplete DEF Submitted
  <2>3. \A d \in Docs : PledgedTo(d)' = PledgedTo(d)
    BY <2>1 DEF PledgedTo, Complete, Whole, Pledges
  <2>4. \A d \in Docs : Pledges(writing.record, d) => writing.record.invoice \in PledgedTo(d)
    BY <2>2 DEF PledgedTo
  <2> QED
    BY <2>1, <2>3, <2>4 DEF Backed
<1>7. ASSUME NEW served \in 0 .. MaxTopic, served <= Len(topic), Restart(served) PROVE Backed'
  <2>1. docHashes' = Load(SubSeq(topic, 1, served)) /\ topic' = topic
    BY <1>7, AnyReplay
  <2>2. \A d \in Docs : PledgedTo(d)' = PledgedTo(d)
    BY <2>1 DEF PledgedTo, Complete, Whole, Pledges
  <2>3. served \in Nat
    BY TrailAssumption
  <2> QED
    BY <1>7, <2>1, <2>2, <2>3, LoadedIsPledged DEF Backed
<1> QED
  BY <1>1, <1>3, <1>4, <1>5, <1>6, <1>7, IndexSteps DEF Attest, Begin, SubmitFails

LEMMA Sums ==
  \A x, y, z \in Nat : x + y + z \in Nat /\ (x + y + z = 0 => x = 0 /\ y = 0 /\ z = 0)
OBVIOUS

(* One more message that its submission does not wait for: at most one more
   invoice, and it was counted. *)
LEMMA PledgesCountedStep ==
  ASSUME Typed, Written, OnItsWay, OnTheWire, Owned, Backed, PledgesCounted,
         Typed', Written', [Next]_vars
  PROVE  PledgesCounted'
<1> DEFINE b == unreported + late + lost
           Sure(d) == IF docHashes[d] # None \/ Lands(d) THEN 1 ELSE 0
<1>n. /\ unreported \in Nat /\ late \in Nat /\ lost \in Nat
      /\ unreported' \in Nat /\ late' \in Nat /\ lost' \in Nat
  BY DEF Typed, TrailTyped
<1>a. b \in Nat /\ b' \in Nat
  BY <1>n, Sums, Zenon
<1>c. \A d \in Docs : Sure(d) \in {0, 1} /\ AtMost(PledgedTo(d), b + Sure(d))
  BY DEF PledgesCounted
<1>0. b \in Nat /\ b' \in Nat /\ \A d \in Docs : Sure(d) \in {0, 1} /\ AtMost(PledgedTo(d), b + Sure(d))
  BY <1>a, <1>c
<1>s. ASSUME NEW d \in Docs, PledgedTo(d)' \subseteq PledgedTo(d), b + Sure(d) <= b' + Sure(d)', Sure(d)' \in {0, 1}
      PROVE  AtMost(PledgedTo(d)', b' + Sure(d)')
  <2>1. b + Sure(d) \in Nat /\ b' + Sure(d)' \in Nat
    BY <1>0, <1>s
  <2> HIDE DEF b, Sure
  <2> QED
    BY <1>0, <1>s, <2>1, AtMostSubset
<1>p. ASSUME NEW d \in Docs, NEW x, PledgedTo(d)' \subseteq PledgedTo(d) \cup {x},
             b + Sure(d) + 1 <= b' + Sure(d)', Sure(d)' \in {0, 1}
      PROVE  AtMost(PledgedTo(d)', b' + Sure(d)')
  <2>1. b + Sure(d) \in Nat /\ b + Sure(d) + 1 \in Nat /\ b' + Sure(d)' \in Nat
    BY <1>0, <1>p
  <2> HIDE DEF b, Sure
  <2>2. AtMost(PledgedTo(d)', b + Sure(d) + 1)
    BY <1>0, <1>p, <2>1, AtMostOneMore
  <2> QED
    BY <1>p, <2>1, <2>2, AtMostSubset
<1>q. (\A d \in Docs : AtMost(PledgedTo(d)', b' + Sure(d)')) => PledgesCounted'
  BY DEF PledgesCounted
<1>t. topic' = topic => \A d \in Docs : PledgedTo(d)' = PledgedTo(d)
  BY DEF PledgedTo, Complete, Whole, Pledges
<1>b. \A d \in Docs : Sure(d)' \in {0, 1}
  OBVIOUS
<1>1. CASE UNCHANGED <<topic, writing, docHashes, unreported, late, lost>>
  BY <1>0, <1>1, <1>s, <1>t, <1>q, <1>b DEF Lands
<1>2. ASSUME NEW r \in Record, Begin(r) PROVE PledgesCounted'
  <2>1. UNCHANGED <<topic, docHashes, unreported, late, lost>> /\ writing = Idle
    BY <1>2 DEF Begin
  <2>2. \A d \in Docs : b + Sure(d) <= b' + Sure(d)'
    BY <1>0, <2>1 DEF Lands
  <2> QED
    BY <2>1, <2>2, <1>s, <1>t, <1>q, <1>b
<1>3. CASE Consensus
  <2> DEFINE m == NextChunk(writing)
  <2>1. /\ m \in TopicMessage /\ topic' = Append(topic, m) /\ m.record = writing.record
        /\ m.number = writing'.chunks /\ m.total = Chunks(writing.record)
        /\ writing'.record = writing.record /\ writing' # Idle /\ writing # Idle
        /\ writing.chunks < Chunks(writing.record)
    BY <1>3, ConsensusTyped, NextChunkTyped, KindsDiffer
  <2>2. UNCHANGED <<docHashes, unreported, late, lost>>
    BY <1>3 DEF Consensus
  <2> HIDE DEF m
  <2>3. ASSUME NEW d \in Docs PROVE AtMost(PledgedTo(d)', b' + Sure(d)')
    <3>1. b' = b /\ ~Lands(d) /\ (Lands(d)' <=> Pledges(m.record, d) /\ m.number = m.total)
      BY <2>1, <2>2 DEF Lands, Submission, Typed, TrailTyped
    <3>2. CASE docHashes[d] = None /\ Lands(d)'
      <4>1. b + Sure(d) + 1 <= b' + Sure(d)'
        BY <1>0, <2>2, <3>1, <3>2
      <4>2. PledgedTo(d)' \subseteq PledgedTo(d) \cup {m.record.invoice}
        BY <2>1, PledgedGrows DEF Typed
      <4> QED
        BY <1>p, <1>b, <4>1, <4>2
    <3>3. CASE ~Lands(d)'
      <4>1. PledgedTo(d)' = PledgedTo(d)
        BY <2>1, <3>1, <3>3, PledgedGrows DEF Typed
      <4>2. b + Sure(d) <= b' + Sure(d)'
        BY <1>0, <2>2, <3>1
      <4> QED
        BY <1>s, <1>b, <4>1, <4>2
    <3>4. CASE docHashes[d] # None /\ Lands(d)'
      <4>1. m.record.invoice \in PledgedTo(d)
        BY <2>1, <3>1, <3>4 DEF Owned, Backed
      <4>2. PledgedTo(d)' \subseteq PledgedTo(d)
        BY <2>1, <4>1, PledgedGrows DEF Typed
      <4>3. b + Sure(d) <= b' + Sure(d)'
        BY <1>0, <2>2, <3>1
      <4> QED
        BY <1>s, <1>b, <4>2, <4>3
    <3> QED
      BY <3>2, <3>3, <3>4
  <2> QED
    BY <1>q, <2>3
<1>4. ASSUME NEW k \in Slots, LateConsensus(k) PROVE PledgesCounted'
  <2> DEFINE m == NextChunk(wire[k])
  <2>1. m \in TopicMessage /\ topic' = Append(topic, m)
    BY <1>4, LateTyped, NextChunkTyped
  <2>2. UNCHANGED <<docHashes, writing, unreported, lost>> /\ late' = late + 1
    BY <1>4 DEF LateConsensus
  <2> HIDE DEF m
  <2>3. b' = b + 1 /\ \A d \in Docs : Sure(d)' = Sure(d)
    BY <2>2 DEF Lands, Typed, TrailTyped
  <2>4. \A d \in Docs : b + Sure(d) + 1 <= b' + Sure(d)'
    BY <1>0, <2>3
  <2>5. \A d \in Docs : PledgedTo(d)' \subseteq PledgedTo(d) \cup {m.record.invoice}
    BY <2>1, PledgedGrows DEF Typed
  <2> QED
    BY <1>p, <1>q, <1>b, <2>4, <2>5
<1>5. ASSUME NEW r \in Attestation, OtherPayer(r) PROVE PledgesCounted'
  <2> DEFINE m == Message(r, 1, Len(topic) + 1, "other")
  <2>1. m \in TopicMessage /\ topic' = Append(topic, m) /\ m.payer # "operator"
    BY <1>5, OtherTyped
  <2>2. UNCHANGED <<docHashes, writing, unreported, late, lost>>
    BY <1>5 DEF OtherPayer
  <2> HIDE DEF m
  <2>3. \A d \in Docs : PledgedTo(d)' = PledgedTo(d)
    BY <2>1, PledgedGrows DEF Typed
  <2>4. \A d \in Docs : b + Sure(d) <= b' + Sure(d)'
    BY <1>0, <2>2 DEF Lands
  <2> QED
    BY <1>s, <1>q, <1>b, <2>3, <2>4
<1>6. CASE Submitted
  <2>1. /\ UNCHANGED <<topic, unreported, late, lost>> /\ writing # Idle
        /\ writing.chunks = Chunks(writing.record)
        /\ \A d \in Docs : docHashes'[d] =
             IF Pledges(writing.record, d) THEN writing.record.invoice ELSE docHashes[d]
    BY <1>6 DEF Submitted
  <2>2. \A d \in Docs : Pledges(writing.record, d) => writing.record.invoice # None
    BY <2>1, CurrentComplete, PledgeNamesInvoice, TrailAssumption
  <2>3. \A d \in Docs : docHashes[d] # None \/ Lands(d) => docHashes'[d] # None
    BY <2>1, <2>2 DEF Lands
  <2>4. \A d \in Docs : b + Sure(d) <= b' + Sure(d)'
    BY <1>0, <2>1, <2>3
  <2> QED
    BY <2>1, <2>4, <1>s, <1>t, <1>q, <1>b
<1>7. CASE SubmitFails
  <2>1. /\ UNCHANGED <<topic, docHashes, late, lost>>
        /\ IF writing.chunks < Chunks(writing.record) THEN unreported' = unreported ELSE unreported' = unreported + 1
    BY <1>7 DEF SubmitFails
  <2>2. \A d \in Docs : Lands(d) => unreported' = unreported + 1
    BY <2>1, ChunksType DEF Lands
  <2>6. late' = late /\ lost' = lost /\ unreported' \in {unreported, unreported + 1}
    BY <2>1
  <2>7. unreported' = unreported + 1 => b' = b + 1
    BY <1>n, <2>6
  <2>8. unreported' = unreported => b' = b
    BY <1>n, <2>6
  <2>4. b' \in {b, b + 1} /\ (unreported' = unreported + 1 => b' = b + 1)
    BY ONLY <2>6, <2>7, <2>8
  <2>5. \A d \in Docs : Sure(d) = 1 => Sure(d)' = 1 \/ b' = b + 1
    BY <2>1, <2>2, <2>4
  <2>3. ASSUME NEW d \in Docs PROVE b + Sure(d) <= b' + Sure(d)'
    <3>1. Sure(d) \in {0, 1} /\ Sure(d)' \in {0, 1} /\ b \in Nat /\ (Sure(d) = 1 => Sure(d)' = 1 \/ b' = b + 1)
      BY <1>0, <1>b, <2>5
    <3> HIDE DEF Sure, b
    <3> QED
      BY <2>4, <3>1
  <2> QED
    BY <2>1, <2>3, <1>s, <1>t, <1>q, <1>b
<1>8. ASSUME NEW served \in 0 .. MaxTopic, served <= Len(topic), Restart(served) PROVE PledgesCounted'
  <2>1. /\ topic' = topic /\ unreported' = unreported /\ late' = late /\ lost' \in {lost, lost + 1}
    BY <1>8, AnyReplay
  <2>2. ASSUME NEW d \in Docs PROVE AtMost(PledgedTo(d)', b' + Sure(d)')
    <3>1. CASE lost' = lost + 1
      <4>1. b + Sure(d) <= b' + Sure(d)'
        BY <1>0, <2>1, <3>1 DEF Typed, TrailTyped
      <4> QED
        BY <1>s, <1>t, <1>b, <2>1, <4>1
    <3>2. CASE lost' = lost /\ docHashes'[d] # None
      <4>1. b + Sure(d) <= b' + Sure(d)'
        BY <1>0, <2>1, <3>2 DEF Typed, TrailTyped
      <4> QED
        BY <1>s, <1>t, <1>b, <2>1, <4>1
    <3>3. CASE lost' = lost /\ docHashes'[d] = None
      <4>1. docHashes' = Load(topic)
        BY <1>8, <3>3, FullReplay
      <4>2. \A i \in Complete : ~Pledges(topic[i].record, d)
        <5>1. ASSUME NEW i \in Complete, Pledges(topic[i].record, d) PROVE FALSE
          <6>1. PICK j \in Complete : Pledges(topic[j].record, d) /\ topic[j].record.invoice = Load(topic)[d]
            BY <5>1, LoadedAll DEF Typed
          <6>2. topic[j].record.invoice # None
            BY <6>1, CompleteOnes, PledgeNamesInvoice, TrailAssumption DEF Typed
          <6> QED
            BY <3>3, <4>1, <6>1, <6>2
        <5> QED
          BY <5>1
      <4>3. PledgedTo(d)' = {}
        BY <1>t, <2>1, <4>2 DEF PledgedTo
      <4>4. b' + Sure(d)' \in Nat
        BY <1>0
      <4> HIDE DEF b, Sure
      <4> QED
        BY <4>3, <4>4, FS_EmptySet DEF AtMost
    <3> QED
      BY <2>1, <3>1, <3>2, <3>3
  <2> QED
    BY <1>q, <2>2
<1>9. ASSUME NEW r \in Attestation, Attest(r) PROVE PledgesCounted'
  BY <1>2, <1>9 DEF Attest, Record
<1> QED
  BY <1>1, <1>2, <1>3, <1>4, <1>5, <1>6, <1>7, <1>8, <1>9, IndexSteps

(* What was counted as a fault stays counted. *)
LEMMA Counters ==
  ASSUME Typed, [Next]_vars
  PROVE  /\ unreported' \in {unreported, unreported + 1}
         /\ late' \in {late, late + 1} /\ lost' \in {lost, lost + 1}
<1>1. CASE UNCHANGED <<topic, writing, docHashes, unreported, late, lost>>
  BY <1>1
<1>2. ASSUME NEW r \in Record, Begin(r) PROVE UNCHANGED <<unreported, late, lost>>
  BY <1>2 DEF Begin
<1>3. CASE SubmitFails \/ Submitted \/ Consensus
  BY <1>3 DEF SubmitFails, Submitted, Consensus
<1>4. CASE (\E k \in Slots : LateConsensus(k)) \/ \E r \in Attestation : OtherPayer(r)
  BY <1>4 DEF LateConsensus, OtherPayer
<1> QED
  BY <1>1, <1>2, <1>3, <1>4, AnyReplay, IndexSteps DEF Attest, Record

LEMMA IndexedStep ==
  ASSUME Typed, Written, OnItsWay, OnTheWire, Typed', Written', Owned, Indexed, [Next]_vars,
         unreported' = 0, late' = 0, lost' = 0
  PROVE  Indexed'
<1>1. CASE UNCHANGED <<topic, writing, docHashes, unreported, late, lost>>
  BY <1>1 DEF Indexed, Complete, Whole, Current
<1>2. ASSUME NEW r \in Record, Begin(r) PROVE Indexed'
  <2>1. /\ topic' = topic /\ docHashes' = docHashes /\ writing = Idle
        /\ writing'.record = r /\ writing'.chunks = 0
    BY <1>2 DEF Begin
  <2>2. \A i : ~Current(i) /\ ~Current(i)'
    BY <2>1 DEF Current
  <2>3. Complete' = Complete
    BY <2>1 DEF Complete, Whole
  <2> QED
    BY <1>2, <2>1, <2>2, <2>3 DEF Indexed
<1>3. ASSUME NEW r \in Attestation, Attest(r) PROVE Indexed'
  BY <1>2, <1>3 DEF Attest, Record
<1>5. CASE Consensus
  <2> DEFINE m == NextChunk(writing)
  <2>1. /\ writing \in Submission /\ writing.chunks < Chunks(writing.record) /\ writing' # Idle
        /\ writing'.chunks = writing.chunks + 1 /\ writing'.start = m.start /\ topic' = Append(topic, m)
    BY <1>5, ConsensusTyped, KindsDiffer
  <2>2. /\ m \in TopicMessage /\ writing.chunks \in 0 .. 1
        /\ m.start = IF writing.chunks = 0 THEN Len(topic) + 1 ELSE writing.start
    BY <2>1, NextChunkTyped
  <2>3. writing # Idle /\ docHashes' = docHashes
    BY <1>5 DEF Consensus
  <2> HIDE DEF m
  <2>4. /\ \A i \in Complete : i \in Complete' /\ topic'[i] = topic[i]
        /\ \A i \in Complete' : i \in Complete \/ m.start = i
    BY <2>1, <2>2, CompleteGrows DEF Typed
  <2>5. \A i : ~Current(i)' => m.start # i /\ ~Current(i)
    <3>1. writing'.chunks > 0 /\ (writing.chunks > 0 => m.start = writing.start)
      BY <2>1, <2>2
    <3> QED
      BY <2>1, <3>1 DEF Current
  <2>6. ASSUME NEW d \in Docs, NEW i \in Complete', Pledges(topic'[i].record, d), ~Current(i)'
        PROVE  docHashes'[d] = topic'[i].record.invoice
    <3>1. i \in Complete /\ ~Current(i) /\ topic'[i] = topic[i]
      BY <2>4, <2>5, <2>6
    <3> QED
      BY <2>3, <2>6, <3>1 DEF Indexed
  <2> QED
    BY <2>6 DEF Indexed
<1>6. ASSUME NEW r \in Attestation, ~r.logo, OtherPayer(r) PROVE Indexed'
  <2> DEFINE m == Message(r, 1, Len(topic) + 1, "other")
  <2>1. m \in TopicMessage /\ topic' = Append(topic, m) /\ m.payer = "other"
    BY <1>6, OtherTyped
  <2>2. writing' = writing /\ docHashes' = docHashes
    BY <1>6 DEF OtherPayer
  <2> HIDE DEF m
  <2>3. /\ \A i \in Complete : i \in Complete' /\ topic'[i] = topic[i]
        /\ \A i \in Complete' : i \in Complete
    BY <2>1, CompleteGrows DEF Typed
  <2>4. \A i : Current(i)' <=> Current(i)
    BY <2>2 DEF Current
  <2> QED
    BY <2>2, <2>3, <2>4 DEF Indexed
<1>7. CASE Submitted
  <2>1. /\ topic' = topic /\ Complete' = Complete /\ writing # Idle /\ writing' = Idle
        /\ \A d \in Docs : docHashes'[d] =
             IF Pledges(writing.record, d) THEN writing.record.invoice ELSE docHashes[d]
    BY <1>7 DEF Submitted, Complete, Whole
  <2>2. \A i \in Complete : Current(i) => topic[i].record = writing.record
    BY <1>7, <2>1, CurrentComplete DEF Submitted, Complete
  <2>3. ASSUME NEW d \in Docs, NEW i \in Complete, Pledges(topic[i].record, d)
        PROVE  docHashes'[d] = topic[i].record.invoice
    <3>1. CASE Current(i)
      BY <2>1, <2>2, <2>3, <3>1
    <3>2. CASE ~Current(i)
      <4>1. docHashes[d] = topic[i].record.invoice /\ docHashes[d] # None
        BY <2>3, <3>2, CompleteOnes, PledgeNamesInvoice, TrailAssumption DEF Indexed, Typed
      <4> QED
        BY <2>1, <4>1 DEF Owned
    <3> QED
      BY <3>1, <3>2
  <2> QED
    BY <2>1, <2>3 DEF Indexed
<1>8. CASE SubmitFails
  <2>1. /\ topic' = topic /\ Complete' = Complete /\ writing # Idle /\ writing' = Idle
        /\ docHashes' = docHashes
    BY <1>8 DEF SubmitFails, GivenUp, Complete, Whole
  <2>2. writing.chunks < Chunks(writing.record)
    BY <1>8 DEF SubmitFails, Typed, TrailTyped
  <2>3. \A i \in Complete : ~Current(i)
    BY <2>1, <2>2, CurrentComplete
  <2> QED
    BY <2>1, <2>3 DEF Indexed
<1>9. ASSUME NEW served \in 0 .. MaxTopic, served <= Len(topic), Restart(served) PROVE Indexed'
  <2>1. topic' = topic /\ Complete' = Complete /\ lost' = lost
    BY <1>9, AnyReplay DEF Complete, Whole, Typed, TrailTyped
  <2>2. docHashes' = Load(topic)
    BY <1>9, <2>1, FullReplay
  <2>3. ASSUME NEW d \in Docs, NEW i \in Complete, Pledges(topic[i].record, d)
        PROVE  Load(topic)[d] = topic[i].record.invoice
    <3>1. PICK j \in Complete : Pledges(topic[j].record, d) /\ topic[j].record.invoice = Load(topic)[d]
      BY <2>3, LoadedAll DEF Typed
    <3> QED
      BY <2>3, <3>1, Agree DEF Typed
  <2> QED
    BY <2>1, <2>2, <2>3 DEF Indexed
<1>10. ASSUME NEW k \in Slots, LateConsensus(k) PROVE Indexed'
  BY <1>10, LateTyped DEF Typed, TrailTyped
<1> QED
  BY <1>1, <1>2, <1>3, <1>5, <1>6, <1>7, <1>8, <1>9, <1>10, IndexSteps

-----------------------------------------------------------------------------
(* The nullifier of a pass that the portal accepted is spent on its wallet. *)
Binds(p) ==
  /\ p.nullifier \notin used /\ wallet[p.nullifier] = None
  /\ used' = used \cup {p.nullifier}
  /\ wallet' = [wallet EXCEPT ![p.nullifier] = p.wallet]
  /\ human' = Bound(human, p.wallet, p.nullifier)

LEMMA PortalBinds ==
  ASSUME Typed, UsedIsBound, NEW c \in Callers, PortalAccepts(c), calls[c].pass.nullifier \notin used
  PROVE  /\ calls[c].pass \in Pass /\ Binds(calls[c].pass)
         /\ calls'[c] = [at |-> "passed", pass |-> calls[c].pass]
         /\ \A b \in Callers \ {c} : calls'[b] = calls[b]
         /\ UNCHANGED <<trailVars, selfie, told>>
<1> DEFINE p == calls[c].pass
<1>1. /\ p \in Pass /\ Goes(c, "passed") /\ used' = used \cup {p.nullifier} /\ Bind(p)
      /\ UNCHANGED <<trailVars, selfie, told>> /\ calls[c].at = "portal"
  BY CallTyped DEF PortalAccepts, Typed
<1>2. /\ calls'[c] = [at |-> "passed", pass |-> p]
      /\ \A b \in Callers \ {c} : calls'[b] = calls[b]
  BY <1>1, GoesTyped DEF Typed, ServiceTyped
<1> HIDE DEF p
<1>3. p.nullifier \in Nullifiers /\ p.nullifier \notin used
  BY <1>1 DEF p, Pass
<1>4. wallet[p.nullifier] = None
  BY <1>3 DEF UsedIsBound
<1>5. Binds(p)
  BY <1>1, <1>3, <1>4 DEF Binds, Bind, Bound
<1> QED
  BY <1>1, <1>2, <1>5 DEF p

(* Which step touches the service, and how. *)
LEMMA ServiceSteps ==
  ASSUME Typed, UsedIsBound, [Next]_vars
  PROVE  \/ UNCHANGED <<topic, serviceVars, selfie, told, late, lost>>
         \/ OnTopic
         \/ UNCHANGED <<topic, selfie, told, late, lost>> /\ \E p \in Pass : Binds(p)
         \/ \E c \in Callers : SetSelfieCheck(c)
         \/ Anchored
         \/ \E served \in 0 .. MaxTopic : served <= Len(topic) /\ Restart(served)
<1>1. ASSUME NEW c \in Callers, PortalAccepts(c)
      PROVE  \/ UNCHANGED <<topic, serviceVars, selfie, told, late, lost>>
             \/ UNCHANGED <<topic, selfie, told, late, lost>> /\ \E p \in Pass : Binds(p)
  <2>1. CASE calls[c].pass.nullifier \in used
    BY <1>1, <2>1 DEF PortalAccepts, trailVars
  <2>2. CASE calls[c].pass.nullifier \notin used
    BY <1>1, <2>2, PortalBinds DEF trailVars
  <2> QED
    BY <2>1, <2>2
<1>2. ASSUME NEW c \in Callers, (\E p \in Pass : Verify(c, p)) \/ PortalRejects(c) \/ AnchorPass(c)
      PROVE  UNCHANGED <<topic, serviceVars, selfie, told, late, lost>>
  BY <1>2 DEF Verify, PortalRejects, AnchorPass, Begin, trailVars
<1>3. CASE NotAnchored \/ OtherRecord
  BY <1>3 DEF NotAnchored, SubmitFails, OtherRecord, AnchorReceipt, Attest, Begin
<1>4. CASE UNCHANGED vars
  BY <1>4 DEF vars, trailVars
<1> QED
  BY <1>1, <1>2, <1>3, <1>4 DEF Next

(* What the topic takes: of the submission under way, or counted, or not ours. *)
LEMMA TopicSteps ==
  ASSUME Typed, OnTheWire, OnTopic
  PROVE  /\ UNCHANGED <<serviceVars, selfie, calls, told, lost>>
         /\ writing' # Idle => writing # Idle /\ writing'.record = writing.record
         /\ \E m \in TopicMessage :
              /\ topic' = Append(topic, m)
              /\ \/ m.payer = "other" /\ late' = late
                 \/ writing # Idle /\ m.record = writing.record /\ late' = late
                 \/ late' = late + 1
<1>1. UNCHANGED <<serviceVars, selfie, calls, told>>
  BY DEF OnTopic
<1>2. CASE Consensus
  <2>1. writing # Idle /\ late' = late /\ lost' = lost
    BY <1>2 DEF Consensus
  <2> QED
    BY <1>1, <1>2, <2>1, ConsensusTyped, NextChunkTyped
<1>3. ASSUME NEW k \in Slots, LateConsensus(k)
      PROVE  /\ writing' = writing /\ lost' = lost /\ late' = late + 1
             /\ \E m \in TopicMessage : topic' = Append(topic, m)
  BY <1>3, LateTyped, NextChunkTyped DEF LateConsensus
<1>4. ASSUME NEW r \in Attestation, OtherPayer(r)
      PROVE  /\ writing' = writing /\ lost' = lost /\ late' = late
             /\ \E m \in TopicMessage : topic' = Append(topic, m) /\ m.payer = "other"
  BY <1>4, OtherTyped DEF OtherPayer
<1> QED
  BY <1>1, <1>2, <1>3, <1>4 DEF OnTopic

(* The passes on the topic are the passes a full replay finds. *)
LEMMA OursArePasses ==
  ASSUME Typed, Written, NEW i \in DOMAIN topic, IsOurs(i)
  PROVE  i \in Passes(topic) /\ topic[i].record \in Pass
<1>1. topic[i].total = 1 /\ topic[i].number = 1 /\ topic[i].start = i
  BY ShapeOf DEF Written, Shaped, IsOurs, Chunks, Typed
<1>2. i \in Passes(topic)
  BY <1>1 DEF Passes, FetchTopicMessages, Whole, IsOurs
<1> QED
  BY <1>2, PassesFetched DEF Typed, TrailTyped

(* A replay of a part of it finds passes of the topic. *)
LEMMA PassesAreOurs ==
  ASSUME Typed, NEW served \in Nat, served <= Len(topic)
  PROVE  LET t == SubSeq(topic, 1, served)
         IN  /\ t \in Seq(TopicMessage)
             /\ \A i \in Passes(t) : i \in DOMAIN topic /\ IsOurs(i) /\ t[i] = topic[i] /\ t[i].record \in Pass
<1> DEFINE t == SubSeq(topic, 1, served)
<1>1. t \in Seq(TopicMessage) /\ \A i \in FetchTopicMessages(t) : i \in Complete /\ t[i] = topic[i]
  BY PartFetched DEF Typed
<1> HIDE DEF t
<1>2. \A i \in Passes(t) : t[i].record \in Pass
  BY <1>1, PassesFetched
<1>3. \A i \in Passes(t) : i \in FetchTopicMessages(t) /\ t[i].record.kind = "selfie"
  BY DEF Passes
<1>4. \A i \in Complete : i \in DOMAIN topic /\ topic[i].payer = "operator"
  BY DEF Complete
<1> QED
  BY <1>1, <1>2, <1>3, <1>4 DEF t, IsOurs

-----------------------------------------------------------------------------
LEMMA PassesInHandStep ==
  ASSUME Typed, OnTheWire, UsedIsBound, PassesInHand, [Next]_vars
  PROVE  PassesInHand'
<1>1. writing # Idle /\ writing.record.kind = "selfie" => writing.record \in Pass
  BY RecordOfKind DEF Typed, TrailTyped, Submission
<1>2. ASSUME NEW c \in Callers, (\E p \in Pass : Verify(c, p)) \/ PortalRejects(c)
                                \/ (PortalAccepts(c) /\ calls[c].pass.nullifier \in used)
      PROVE  PassesInHand'
  <2>1. /\ UNCHANGED <<used, wallet, human, selfie, writing>> /\ calls'[c].at \in {"portal", "none"}
        /\ \A b \in Callers \ {c} : calls'[b] = calls[b]
    BY <1>2 DEF Verify, PortalRejects, PortalAccepts, Ends, NoCall, serviceVars, trailVars, Typed, ServiceTyped
  <2> QED
    BY <2>1 DEF PassesInHand, SpentFor, SignalledFor, Spent
<1>3. ASSUME NEW c \in Callers, PortalAccepts(c), calls[c].pass.nullifier \notin used PROVE PassesInHand'
  <2>0. PICK p \in Pass : p = calls[c].pass
    BY <1>3, PortalBinds
  <2>1. /\ Binds(p) /\ UNCHANGED <<writing, selfie>>
        /\ calls'[c] = [at |-> "passed", pass |-> p]
        /\ \A b \in Callers \ {c} : calls'[b] = calls[b]
    BY <1>3, <2>0, PortalBinds DEF trailVars
  <2>2. p.nullifier \in Nullifiers /\ p.wallet \in Wallets
    BY <2>1 DEF Pass
  <2>3. \A q \in Pass : Spent(q) => Spent(q)'
    BY <2>0, <2>1, <2>2 DEF Binds, Spent, Typed, ServiceTyped, Pass
  <2>4. Spent(p)'
    BY <2>1, <2>2 DEF Binds, Spent, Typed, ServiceTyped
  <2>5. \A w \in Wallets : (human[w] # None => human'[w] # None) /\ (w = p.wallet => human'[w] # None)
    BY <2>1, <2>2, SelfieAssumption DEF Binds, Bound, Typed, ServiceTyped
  <2>6. \A b \in Callers : SpentFor(b) => calls[b].pass \in Pass /\ calls[b].pass.wallet \in Wallets
    BY CallTyped DEF SpentFor, Pass, Typed
  <2>7. ASSUME NEW b \in Callers, SpentFor(b)'
        PROVE  Spent(calls[b].pass)' /\ human'[calls'[b].pass.wallet] # None
    <3>1. CASE b = c
      BY <2>1, <2>2, <2>4, <2>5, <3>1 DEF Spent
    <3>2. CASE b # c
      <4>1. calls'[b] = calls[b] /\ SpentFor(b)
        BY <2>1, <2>7, <3>2 DEF SpentFor
      <4> QED
        BY <2>3, <2>5, <2>6, <4>1 DEF PassesInHand, Spent
    <3> QED
      BY <3>1, <3>2
  <2>8. \A b \in Callers : SignalledFor(b)' => calls'[b].pass.wallet \in selfie'
    BY <2>1 DEF PassesInHand, SignalledFor
  <2>9. \A b \in Callers : calls'[b].at = "anchoring" => writing' # Idle /\ writing'.record = calls'[b].pass
    BY <2>1 DEF PassesInHand
  <2>10. writing' # Idle /\ writing'.record.kind = "selfie" =>
           Spent(writing.record)' /\ writing'.record.wallet \in selfie'
    BY <1>1, <2>1, <2>3 DEF PassesInHand, Spent
  <2> QED
    BY <2>1, <2>7, <2>8, <2>9, <2>10 DEF PassesInHand, Spent
<1>4. ASSUME NEW c \in Callers, SetSelfieCheck(c) PROVE PassesInHand'
  <2>1. /\ UNCHANGED <<used, wallet, human, writing>> /\ selfie' = selfie \cup {calls[c].pass.wallet}
        /\ calls[c].at = "passed" /\ calls'[c] = [at |-> "signalled", pass |-> calls[c].pass]
        /\ \A b \in Callers \ {c} : calls'[b] = calls[b]
    BY <1>4, GoesTyped DEF SetSelfieCheck, serviceVars, trailVars, Typed, ServiceTyped
  <2> QED
    BY <2>1 DEF PassesInHand, SpentFor, SignalledFor, Spent
<1>5. ASSUME NEW c \in Callers, AnchorPass(c) PROVE PassesInHand'
  <2>1. /\ UNCHANGED <<used, wallet, human, selfie>> /\ writing = Idle
        /\ calls[c].at = "signalled" /\ writing'.record = calls[c].pass /\ writing' # Idle
        /\ calls'[c] = [at |-> "anchoring", pass |-> calls[c].pass]
        /\ \A b \in Callers \ {c} : calls'[b] = calls[b]
    BY <1>5, GoesTyped DEF AnchorPass, Begin, Idle, serviceVars, Typed, ServiceTyped
  <2> QED
    BY <2>1 DEF PassesInHand, SpentFor, SignalledFor, Spent
<1>6. CASE Anchored \/ NotAnchored
  <2>1. /\ UNCHANGED <<used, wallet, human, selfie>> /\ writing' = Idle
        /\ \A c \in Callers : calls'[c] = IF c \in Anchoring THEN NoCall ELSE calls[c]
    BY <1>6 DEF Anchored, NotAnchored, Submitted, SubmitFails, GivenUp, Answered, serviceVars
  <2>2. \A c \in Callers : calls'[c].at # "anchoring" /\ (calls'[c].at # "none" => calls'[c] = calls[c])
    BY <2>1 DEF Anchoring, NoCall
  <2> QED
    BY <2>1, <2>2 DEF PassesInHand, SpentFor, SignalledFor, Spent
<1>7. CASE OtherRecord
  <2>1. /\ UNCHANGED <<used, wallet, human, selfie, calls>> /\ writing = Idle
        /\ writing'.record.kind # "selfie"
    BY <1>7, KindsDiffer DEF OtherRecord, AnchorReceipt, Attest, Begin, Receipt, serviceVars
  <2> QED
    BY <2>1 DEF PassesInHand, SpentFor, SignalledFor, Spent
<1>8. CASE OnTopic
  <2>1. /\ UNCHANGED <<used, wallet, human, selfie, calls>>
        /\ writing' # Idle => writing # Idle /\ writing'.record = writing.record
    BY <1>8, TopicSteps DEF serviceVars
  <2>2. writing # Idle => writing' # Idle
    BY <1>8, ConsensusTyped, KindsDiffer DEF OnTopic, LateConsensus, OtherPayer
  <2> QED
    BY <2>1, <2>2 DEF PassesInHand, SpentFor, SignalledFor, Spent
<1>9. ASSUME NEW served \in 0 .. MaxTopic, served <= Len(topic), Restart(served) PROVE PassesInHand'
  <2>1. writing' = Idle /\ \A c \in Callers : calls'[c].at = "none"
    BY <1>9, AnyReplay DEF NoCall
  <2> QED
    BY <2>1 DEF PassesInHand, SpentFor, SignalledFor
<1>10. CASE UNCHANGED vars
  BY <1>10 DEF vars, trailVars, serviceVars, PassesInHand, SpentFor, SignalledFor, Spent
<1> QED
  BY <1>2, <1>3, <1>4, <1>5, <1>6, <1>7, <1>8, <1>9, <1>10 DEF Next

(* A nullifier is spent exactly when it is bound, whatever a restart replays. *)
LEMMA UsedIsBoundStep ==
  ASSUME Typed, UsedIsBound, [Next]_vars
  PROVE  UsedIsBound'
<1>1. ASSUME NEW c \in Callers, PortalAccepts(c) PROVE UsedIsBound'
  <2>1. calls[c].pass \in Pass
    BY <1>1, CallTyped DEF PortalAccepts, Typed
  <2>2. calls[c].pass.nullifier \in Nullifiers /\ calls[c].pass.wallet \in Wallets
    BY <2>1 DEF Pass
  <2> QED
    BY <1>1, <2>2, SelfieAssumption
       DEF PortalAccepts, Bind, Bound, serviceVars, UsedIsBound, Typed, ServiceTyped
<1>2. ASSUME NEW served \in 0 .. MaxTopic, served <= Len(topic), Restart(served) PROVE UsedIsBound'
  <2> DEFINE t == SubSeq(topic, 1, served)
  <2>1. t \in Seq(TopicMessage)
    BY <1>2 DEF Typed, TrailTyped
  <2>2. Restore(t)
    BY <1>2 DEF Restart
  <2> HIDE DEF t
  <2>3. \A i \in Passes(t) : t[i].record.wallet \in Wallets
    BY <2>1, PassesFetched DEF Pass
  <2>4. ASSUME NEW n \in Nullifiers PROVE n \in used' <=> wallet'[n] # None
    <3> DEFINE of == {i \in Passes(t) : t[i].record.nullifier = n}
    <3>1. /\ of = {} => WalletOf(t, n) = None
          /\ of # {} => \E i \in of : WalletOf(t, n) = t[i].record.wallet
      BY <2>1, WalletFound
    <3>2. (n \in used' <=> of # {}) /\ wallet'[n] = WalletOf(t, n)
      BY <2>2 DEF Restore
    <3>3. \A i \in of : t[i].record.wallet # None
      BY <2>3, SelfieAssumption
    <3> HIDE DEF of
    <3> QED
      BY <3>1, <3>2, <3>3
  <2> QED
    BY <2>4 DEF UsedIsBound
<1>3. UNCHANGED serviceVars => UsedIsBound'
  BY DEF serviceVars, UsedIsBound
<1> QED
  BY <1>1, <1>2, <1>3
     DEF Next, Verify, PortalRejects, SetSelfieCheck, AnchorPass, Anchored, NotAnchored, OtherRecord,
         OnTopic, vars

(* A message more adds at most the wallet it names to those of its nullifier. *)
LEMMA TopicWalletsGrow ==
  ASSUME TrailTyped, NEW m \in TopicMessage, topic' = Append(topic, m), NEW n
  PROVE  /\ TopicWallets(n) \subseteq TopicWallets(n)'
         /\ TopicWallets(n)' \subseteq TopicWallets(n) \cup {m.record.wallet}
         /\ ~(m.payer = "operator" /\ m.record.kind = "selfie" /\ m.record.nullifier = n) =>
              TopicWallets(n)' = TopicWallets(n)
<1>1. /\ DOMAIN topic = 1 .. Len(topic) /\ Len(topic) \in Nat
      /\ DOMAIN topic' = 1 .. Len(topic) + 1
      /\ \A i \in 1 .. Len(topic) : topic'[i] = topic[i]
      /\ topic'[Len(topic) + 1] = m
  BY Appended
<1>2. \A x \in TopicWallets(n) : x \in TopicWallets(n)'
  BY <1>1 DEF TopicWallets, IsOurs
<1>3. ASSUME NEW x \in TopicWallets(n)', x \notin TopicWallets(n)
      PROVE  m.payer = "operator" /\ m.record.kind = "selfie" /\ m.record.nullifier = n /\ x = m.record.wallet
  <2>1. PICK i \in DOMAIN topic' :
          IsOurs(i)' /\ topic'[i].record.nullifier = n /\ x = topic'[i].record.wallet
    BY DEF TopicWallets
  <2>2. i \notin 1 .. Len(topic)
    BY <1>1, <1>3, <2>1 DEF TopicWallets, IsOurs
  <2>3. i = Len(topic) + 1
    BY <1>1, <2>1, <2>2
  <2> QED
    BY <1>1, <2>1, <2>3 DEF IsOurs
<1> QED
  BY <1>2, <1>3

(* A person gains a wallet by spending the nullifier, or where a fault is counted. *)
LEMMA WalletsCountedStep ==
  ASSUME Typed, Typed', Written, OnTheWire, UsedIsBound, PassesInHand, WalletsCounted, [Next]_vars
  PROVE  WalletsCounted'
<1> DEFINE Sure(n) == IF n \in used THEN 1 ELSE 0
<1>0. late \in Nat /\ lost \in Nat /\ late' \in Nat /\ lost' \in Nat
  BY DEF Typed, TrailTyped
<1>a. ASSUME NEW n \in Nullifiers
      PROVE  /\ AtMost(WalletsOf(n), late + lost + Sure(n))
             /\ Sure(n) \in {0, 1} /\ Sure(n)' \in {0, 1}
             /\ late + lost + Sure(n) \in Nat /\ (late + lost + Sure(n))' \in Nat
  <2>1. AtMost(WalletsOf(n), late + lost + Sure(n))
    BY DEF WalletsCounted
  <2>2. Sure(n) \in {0, 1} /\ Sure(n)' \in {0, 1} /\ {0, 1} \subseteq Nat
    OBVIOUS
  <2> HIDE DEF Sure
  <2>3. late + lost + Sure(n) \in Nat
    BY <1>0, <2>2
  <2>4. (late + lost + Sure(n))' \in Nat
    BY <1>0, <2>2, Sums, Zenon
  <2> QED
    BY <2>1, <2>2, <2>3, <2>4
<1>q. (\A n \in Nullifiers : AtMost(WalletsOf(n)', (late + lost + Sure(n))')) => WalletsCounted'
  BY DEF WalletsCounted
<1>1. CASE UNCHANGED <<topic, serviceVars, selfie, told, late, lost>>
  <2>1. \A n \in Nullifiers : WalletsOf(n)' = WalletsOf(n) /\ (late + lost + Sure(n))' = late + lost + Sure(n)
    BY <1>1 DEF WalletsOf, TopicWallets, IsOurs, serviceVars
  <2> QED
    BY <1>a, <1>q, <2>1
<1>2. CASE OnTopic
  <2>1. UNCHANGED <<used, wallet, lost>>
    BY <1>2, TopicSteps DEF serviceVars
  <2>2. PICK m \in TopicMessage :
          /\ topic' = Append(topic, m)
          /\ \/ m.payer = "other" /\ late' = late
             \/ writing # Idle /\ m.record = writing.record /\ late' = late
             \/ late' = late + 1
    BY <1>2, TopicSteps
  <2>3. ASSUME NEW n \in Nullifiers PROVE AtMost(WalletsOf(n)', (late + lost + Sure(n))')
    <3>1. Sure(n)' = Sure(n)
      BY <2>1
    <3>2. CASE late' = late
      <4>1. (late + lost + Sure(n))' = late + lost + Sure(n)
        BY <2>1, <3>1, <3>2
      <4>2. TopicWallets(n)' \subseteq WalletsOf(n)
        <5>1. CASE m.payer = "operator" /\ m.record.kind = "selfie" /\ m.record.nullifier = n
          <6>1. writing # Idle /\ m.record = writing.record
            BY <1>0, <2>2, <3>2, <5>1
          <6>2. wallet[n] = m.record.wallet /\ n \in used
            BY <5>1, <6>1 DEF PassesInHand, Spent
          <6>3. m.record.wallet \in WalletsOf(n)
            BY <6>2 DEF WalletsOf, UsedIsBound
          <6> QED
            BY <2>2, <6>3, TopicWalletsGrow DEF WalletsOf, Typed
        <5>2. CASE ~(m.payer = "operator" /\ m.record.kind = "selfie" /\ m.record.nullifier = n)
          BY <2>2, <5>2, TopicWalletsGrow DEF WalletsOf, Typed
        <5> QED
          BY <5>1, <5>2
      <4>3. WalletsOf(n)' \subseteq WalletsOf(n)
        BY <2>1, <4>2 DEF WalletsOf
      <4> HIDE DEF Sure
      <4> QED
        BY <1>a, <4>1, <4>3, AtMostSubset
    <3>3. CASE late' = late + 1
      <4>1. WalletsOf(n)' \subseteq WalletsOf(n) \cup {m.record.wallet}
        BY <2>1, <2>2, TopicWalletsGrow DEF WalletsOf, Typed
      <4>2. (late + lost + Sure(n))' = late + lost + Sure(n) + 1
        BY <1>0, <2>1, <3>1, <3>3
      <4> HIDE DEF Sure
      <4> QED
        BY <1>a, <4>1, <4>2, AtMostOneMore
    <3> QED
      BY <2>2, <3>2, <3>3
  <2> QED
    BY <1>q, <2>3
<1>3. ASSUME NEW p \in Pass, Binds(p), UNCHANGED <<topic, selfie, told, late, lost>> PROVE WalletsCounted'
  <2>1. p.nullifier \in Nullifiers /\ p.nullifier \notin used /\ used' = used \cup {p.nullifier}
        /\ wallet' = [wallet EXCEPT ![p.nullifier] = p.wallet]
    BY <1>3 DEF Binds, Pass
  <2>2. \A n \in Nullifiers : wallet'[n] = IF n = p.nullifier THEN p.wallet ELSE wallet[n]
    BY <2>1 DEF Typed, ServiceTyped
  <2>3. \A n \in Nullifiers : TopicWallets(n)' = TopicWallets(n)
    BY <1>3 DEF TopicWallets, IsOurs
  <2>4. ASSUME NEW n \in Nullifiers PROVE AtMost(WalletsOf(n)', (late + lost + Sure(n))')
    <3>1. CASE n = p.nullifier
      <4>1. WalletsOf(n)' \subseteq WalletsOf(n) \cup {p.wallet}
        BY <2>2, <2>3, <3>1 DEF WalletsOf
      <4>2. (late + lost + Sure(n))' = late + lost + Sure(n) + 1
        BY <1>0, <1>3, <2>1, <3>1
      <4> HIDE DEF Sure
      <4> QED
        BY <1>a, <4>1, <4>2, AtMostOneMore
    <3>2. CASE n # p.nullifier
      <4>1. WalletsOf(n)' = WalletsOf(n) /\ Sure(n)' = Sure(n)
        BY <2>1, <2>2, <2>3, <3>2 DEF WalletsOf
      <4>2. (late + lost + Sure(n))' = late + lost + Sure(n)
        BY <1>3, <4>1
      <4> QED
        BY <1>a, <4>1, <4>2
    <3> QED
      BY <3>1, <3>2
  <2> QED
    BY <1>q, <2>4
<1>4. CASE (\E c \in Callers : SetSelfieCheck(c)) \/ Anchored
  <2>1. UNCHANGED <<topic, used, wallet, late, lost>>
    BY <1>4 DEF SetSelfieCheck, Anchored, Submitted, serviceVars, trailVars
  <2>2. \A n \in Nullifiers : WalletsOf(n)' = WalletsOf(n) /\ (late + lost + Sure(n))' = late + lost + Sure(n)
    BY <2>1 DEF WalletsOf, TopicWallets, IsOurs
  <2> QED
    BY <1>a, <1>q, <2>2
<1>5. ASSUME NEW served \in 0 .. MaxTopic, served <= Len(topic), Restart(served) PROVE WalletsCounted'
  <2>1. /\ topic' = topic /\ late' = late /\ lost' \in {lost, lost + 1}
        /\ Restore(SubSeq(topic, 1, served))
    BY <1>5, AnyReplay
  <2>2. \A n \in Nullifiers : TopicWallets(n)' = TopicWallets(n)
    BY <2>1 DEF TopicWallets, IsOurs
  <2>3. ASSUME NEW n \in Nullifiers PROVE wallet'[n] \in TopicWallets(n) \cup {None}
    <3> DEFINE t == SubSeq(topic, 1, served)
               of == {i \in Passes(t) : t[i].record.nullifier = n}
    <3>0. served \in Nat
      BY TrailAssumption
    <3>1. /\ t \in Seq(TopicMessage)
          /\ \A i \in Passes(t) : i \in DOMAIN topic /\ IsOurs(i) /\ t[i] = topic[i]
      BY <1>5, <3>0, PassesAreOurs
    <3> HIDE DEF t
    <3>2. /\ of = {} => WalletOf(t, n) = None
          /\ of # {} => \E i \in of : WalletOf(t, n) = t[i].record.wallet
      BY <3>1, WalletFound
    <3>3. wallet'[n] = WalletOf(t, n)
      BY <2>1 DEF Restore, t
    <3> QED
      BY <3>1, <3>2, <3>3 DEF TopicWallets
  <2>4. \A n \in Nullifiers : WalletsOf(n)' \subseteq TopicWallets(n)
    BY <2>2, <2>3 DEF WalletsOf
  <2>5. ASSUME NEW n \in Nullifiers PROVE AtMost(WalletsOf(n)', (late + lost + Sure(n))')
    <3>1. CASE lost' = lost + 1
      <4>1. late + lost + Sure(n) <= (late + lost + Sure(n))'
        BY <1>0, <1>a, <2>1, <3>1
      <4>2. WalletsOf(n)' \subseteq WalletsOf(n)
        BY <2>4 DEF WalletsOf
      <4> HIDE DEF Sure
      <4> QED
        BY <1>a, <4>1, <4>2, AtMostSubset
    <3>2. CASE lost' = lost /\ n \in used'
      <4>1. late + lost + Sure(n) <= (late + lost + Sure(n))'
        BY <1>0, <1>a, <2>1, <3>2
      <4>2. WalletsOf(n)' \subseteq WalletsOf(n)
        BY <2>4 DEF WalletsOf
      <4> HIDE DEF Sure
      <4> QED
        BY <1>a, <4>1, <4>2, AtMostSubset
    <3>3. CASE lost' = lost /\ n \notin used'
      <4>1. used' = {topic[i].record.nullifier : i \in Passes(topic)}
        BY <1>5, <3>3, FullReplay DEF Restore
      <4>2. \A i \in DOMAIN topic : IsOurs(i) => topic[i].record.nullifier # n
        BY <3>3, <4>1, OursArePasses
      <4>3. WalletsOf(n)' = {}
        BY <2>4, <4>2 DEF TopicWallets
      <4> HIDE DEF Sure
      <4> QED
        BY <1>a, <4>3, FS_EmptySet DEF AtMost
    <3> QED
      BY <2>1, <3>1, <3>2, <3>3
  <2> QED
    BY <1>q, <2>5
<1> QED
  BY <1>1, <1>2, <1>3, <1>4, <1>5, ServiceSteps

(* A wallet is only ever bound to a person who is bound to it. *)
LEMMA HumansKnownStep ==
  ASSUME Typed, OnTheWire, UsedIsBound, PassesInHand, HumansKnown, [Next]_vars
  PROVE  HumansKnown'
<1>1. CASE UNCHANGED <<topic, serviceVars, selfie, told, late, lost>>
  BY <1>1 DEF HumansKnown, WalletsOf, TopicWallets, IsOurs, serviceVars
<1>2. CASE OnTopic
  <2>1. UNCHANGED <<wallet, human, selfie>> /\ \E m \in TopicMessage : topic' = Append(topic, m)
    BY <1>2, TopicSteps DEF serviceVars
  <2>2. \A n : WalletsOf(n) \subseteq WalletsOf(n)'
    BY <2>1, TopicWalletsGrow DEF WalletsOf, Typed
  <2> QED
    BY <2>1, <2>2 DEF HumansKnown
<1>3. ASSUME NEW p \in Pass, Binds(p), UNCHANGED <<topic, selfie, told, late, lost>> PROVE HumansKnown'
  <2>1. /\ p.nullifier \in Nullifiers /\ p.wallet \in Wallets
        /\ wallet[p.nullifier] = None /\ wallet' = [wallet EXCEPT ![p.nullifier] = p.wallet]
        /\ human' = Bound(human, p.wallet, p.nullifier)
    BY <1>3 DEF Binds, Pass
  <2>2. \A n \in Nullifiers : wallet'[n] = IF n = p.nullifier THEN p.wallet ELSE wallet[n]
    BY <2>1 DEF Typed, ServiceTyped
  <2>3. \A n : TopicWallets(n)' = TopicWallets(n)
    BY <1>3 DEF TopicWallets, IsOurs
  <2>4. /\ \A n \in Nullifiers : WalletsOf(n) \subseteq WalletsOf(n)'
        /\ p.wallet \in WalletsOf(p.nullifier)'
    BY <2>1, <2>2, <2>3, SelfieAssumption DEF WalletsOf
  <2>5. \A w \in Wallets :
          human'[w] = IF w = p.wallet /\ human[w] = None THEN p.nullifier ELSE human[w]
    BY <2>1 DEF Bound, Typed, ServiceTyped
  <2>6. \A w \in Wallets : human[w] \in Nullifiers \cup {None}
    BY DEF Typed, ServiceTyped
  <2>8. ASSUME NEW w \in Wallets, human'[w] # None
        PROVE  \E n \in Nullifiers : human'[w] = n /\ w \in WalletsOf(n)'
    <3>1. CASE w = p.wallet /\ human[w] = None
      BY <2>1, <2>4, <2>5, <3>1
    <3>2. CASE ~(w = p.wallet /\ human[w] = None)
      <4>1. human'[w] = human[w] /\ human[w] \in Nullifiers /\ w \in WalletsOf(human[w])
        BY <2>5, <2>6, <2>8, <3>2 DEF HumansKnown
      <4> QED
        BY <2>4, <4>1
    <3> QED
      BY <3>1, <3>2
  <2>9. ASSUME NEW w \in Wallets, human'[w] # None PROVE w \in WalletsOf(human[w])'
    <3>1. PICK n \in Nullifiers : human'[w] = n /\ w \in WalletsOf(n)'
      BY <2>8, <2>9
    <3> QED
      BY <3>1 DEF WalletsOf, TopicWallets
  <2>10. \A w \in selfie' : human'[w] # None
    BY <1>3, <2>1, <2>5, SelfieAssumption DEF HumansKnown, Typed, ServiceTyped
  <2> QED
    BY <2>9, <2>10 DEF HumansKnown
<1>4. ASSUME NEW c \in Callers, SetSelfieCheck(c) PROVE HumansKnown'
  <2>1. /\ UNCHANGED <<topic, wallet, human>> /\ selfie' = selfie \cup {calls[c].pass.wallet}
        /\ human[calls[c].pass.wallet] # None
    BY <1>4 DEF SetSelfieCheck, serviceVars, trailVars, PassesInHand, SpentFor
  <2> QED
    BY <2>1 DEF HumansKnown, WalletsOf, TopicWallets, IsOurs
<1>5. CASE Anchored
  BY <1>5 DEF Anchored, Submitted, serviceVars, HumansKnown, WalletsOf, TopicWallets, IsOurs
<1>6. ASSUME NEW served \in 0 .. MaxTopic, served <= Len(topic), Restart(served) PROVE HumansKnown'
  <2> DEFINE t == SubSeq(topic, 1, served)
  <2>1. topic' = topic /\ Restore(t) /\ selfie' = {t[i].record.wallet : i \in Passes(t)}
    BY <1>6, AnyReplay
  <2>2. served \in Nat
    BY TrailAssumption
  <2>3. /\ t \in Seq(TopicMessage)
        /\ \A i \in Passes(t) : i \in DOMAIN topic /\ IsOurs(i) /\ t[i] = topic[i] /\ t[i].record \in Pass
    BY <1>6, <2>2, PassesAreOurs
  <2>4. human' = [w \in Wallets |-> HumanOf(t, w)]
    BY <2>1 DEF Restore
  <2>5. PICK r : r = t
    OBVIOUS
  <2> HIDE DEF t
  <2>6. \A i \in Passes(r) : /\ i \in DOMAIN topic /\ IsOurs(i) /\ r[i] = topic[i]
                             /\ r[i].record.wallet \in Wallets /\ r[i].record.nullifier \in Nullifiers
    BY <2>3, <2>5 DEF Pass
  <2>7. ASSUME NEW w \in Wallets
        PROVE  /\ (\E i \in Passes(r) : r[i].record.wallet = w) => human'[w] # None
               /\ human'[w] # None => \E i \in Passes(r) :
                    r[i].record.wallet = w /\ human'[w] = r[i].record.nullifier
    <3> DEFINE of == {i \in Passes(r) : r[i].record.wallet = w}
    <3>1. /\ of = {} => HumanOf(r, w) = None
          /\ of # {} => \E i \in of : HumanOf(r, w) = r[i].record.nullifier
      BY <2>3, <2>5, HumanFound
    <3>2. human'[w] = HumanOf(r, w)
      BY <2>4, <2>5
    <3> QED
      BY <2>6, <3>1, <3>2, SelfieAssumption
  <2>8. \A w \in selfie' : human'[w] # None
    BY <2>1, <2>5, <2>6, <2>7
  <2>9. ASSUME NEW w \in Wallets, human'[w] # None PROVE w \in WalletsOf(human[w])'
    <3>1. PICK i \in Passes(r) : r[i].record.wallet = w /\ human'[w] = r[i].record.nullifier
      BY <2>7, <2>9
    <3> QED
      BY <2>1, <2>6, <3>1 DEF WalletsOf, TopicWallets, IsOurs
  <2> QED
    BY <2>8, <2>9 DEF HumansKnown
<1> QED
  BY <1>1, <1>2, <1>3, <1>4, <1>5, <1>6, ServiceSteps

LEMMA ToldIsThereStep ==
  ASSUME Typed, Written, OnItsWay, OnTheWire, UsedIsBound, PassesInHand, ToldIsThere, [Next]_vars
  PROVE  ToldIsThere'
<1>1. ASSUME topic' = topic, told' = told PROVE ToldIsThere'
  BY <1>1 DEF ToldIsThere
<1>2. CASE OnTopic
  <2>1. PICK m \in TopicMessage : topic' = Append(topic, m)
    BY <1>2, TopicSteps
  <2>2. told' = told
    BY <1>2, TopicSteps
  <2> QED
    BY <2>1, <2>2, Appended DEF ToldIsThere, Typed
<1>3. CASE Anchored
  <2>1. /\ topic' = topic /\ writing # Idle /\ writing.chunks = Chunks(writing.record)
        /\ \A p \in told' : p \in told \/ p = writing.record
    BY <1>3 DEF Anchored, Submitted, Anchoring, PassesInHand
  <2>2. /\ writing.start \in DOMAIN topic /\ topic[writing.start].payer = "operator"
        /\ topic[writing.start].record = writing.record
    BY <2>1, CurrentComplete DEF Complete
  <2> QED
    BY <2>1, <2>2 DEF ToldIsThere
<1> QED
  BY <1>1, <1>2, <1>3, AnyReplay, ServiceSteps DEF SetSelfieCheck, trailVars

(* With no restart that missed a part of the topic. *)
LEMMA ToldIsKeptStep ==
  ASSUME Typed, Written, OnItsWay, OnTheWire, UsedIsBound, PassesInHand, ToldIsThere, ToldIsKept,
         [Next]_vars, lost' = lost
  PROVE  ToldIsKept'
<1>1. ASSUME told' = told, \A n \in used : n \in used', \A w \in selfie : w \in selfie' PROVE ToldIsKept'
  BY <1>1 DEF ToldIsKept
<1>2. CASE UNCHANGED <<topic, serviceVars, selfie, told, late, lost>> \/ OnTopic
  BY <1>1, <1>2, TopicSteps DEF serviceVars
<1>3. ASSUME NEW p \in Pass, Binds(p), UNCHANGED <<topic, selfie, told, late, lost>> PROVE ToldIsKept'
  BY <1>1, <1>3 DEF Binds
<1>4. ASSUME NEW c \in Callers, SetSelfieCheck(c) PROVE ToldIsKept'
  BY <1>1, <1>4 DEF SetSelfieCheck, serviceVars
<1>5. CASE Anchored
  <2>1. /\ writing # Idle /\ UNCHANGED <<used, selfie>>
        /\ \A p \in told' : p \in told \/ (p = writing.record /\ p \in Pass)
    BY <1>5, CallTyped DEF Anchored, Submitted, Anchoring, PassesInHand, serviceVars, Typed
  <2>2. writing.record \in Pass => writing.record.nullifier \in used /\ writing.record.wallet \in selfie
    BY <2>1, KindsDiffer DEF PassesInHand, Spent
  <2> QED
    BY <2>1, <2>2 DEF ToldIsKept
<1>6. ASSUME NEW served \in 0 .. MaxTopic, served <= Len(topic), Restart(served) PROVE ToldIsKept'
  <2>1. /\ told' = told /\ used' = {topic[i].record.nullifier : i \in Passes(topic)}
        /\ selfie' = {topic[i].record.wallet : i \in Passes(topic)}
    BY <1>6, AnyReplay, FullReplay DEF Restore
  <2>2. \A p \in told : \E i \in Passes(topic) : topic[i].record = p
    BY OursArePasses, KindsDiffer DEF ToldIsThere, IsOurs, Typed, ServiceTyped
  <2> QED
    BY <2>1, <2>2 DEF ToldIsKept
<1> QED
  BY <1>2, <1>3, <1>4, <1>5, <1>6, ServiceSteps

(* With no pass that landed late either. *)
LEMMA TopicIsSpentStep ==
  ASSUME Typed, Written, OnTheWire, UsedIsBound, PassesInHand, TopicIsSpent,
         [Next]_vars, late' = late, lost' = lost
  PROVE  TopicIsSpent'
<1>1. ASSUME UNCHANGED <<topic, used, wallet>> PROVE TopicIsSpent'
  BY <1>1 DEF TopicIsSpent, IsOurs, Spent
<1>2. CASE OnTopic
  <2>1. UNCHANGED <<used, wallet>> /\ late' # late + 1
    BY <1>2, TopicSteps DEF serviceVars, Typed, TrailTyped
  <2>2. PICK m \in TopicMessage :
          /\ topic' = Append(topic, m)
          /\ m.payer = "other" \/ (writing # Idle /\ m.record = writing.record)
    BY <1>2, <2>1, TopicSteps
  <2>3. m.payer = "operator" /\ m.record.kind = "selfie" => Spent(m.record)
    BY <2>2 DEF PassesInHand
  <2>4. /\ DOMAIN topic = 1 .. Len(topic) /\ Len(topic) \in Nat
        /\ DOMAIN topic' = 1 .. Len(topic) + 1
        /\ \A i \in 1 .. Len(topic) : topic'[i] = topic[i]
        /\ topic'[Len(topic) + 1] = m
    BY <2>2, Appended DEF Typed
  <2>5. ASSUME NEW i \in DOMAIN topic', IsOurs(i)' PROVE Spent(topic[i].record)'
    <3>1. CASE i \in 1 .. Len(topic)
      BY <2>1, <2>4, <2>5, <3>1 DEF TopicIsSpent, IsOurs, Spent
    <3>2. CASE i = Len(topic) + 1
      BY <2>1, <2>3, <2>4, <2>5, <3>2 DEF IsOurs, Spent
    <3> QED
      BY <2>4, <3>1, <3>2
  <2> QED
    BY <2>5 DEF TopicIsSpent
<1>3. ASSUME NEW p \in Pass, Binds(p), UNCHANGED <<topic, selfie, told, late, lost>> PROVE TopicIsSpent'
  <2>1. \A n \in used : n \in used' /\ wallet'[n] = wallet[n]
    BY <1>3 DEF Binds, Typed, ServiceTyped
  <2> QED
    BY <1>3, <2>1 DEF TopicIsSpent, IsOurs, Spent
<1>4. ASSUME NEW served \in 0 .. MaxTopic, served <= Len(topic), Restart(served) PROVE TopicIsSpent'
  <2>1. /\ topic' = topic /\ used' = {topic[i].record.nullifier : i \in Passes(topic)}
        /\ wallet' = [n \in Nullifiers |-> WalletOf(topic, n)]
    BY <1>4, AnyReplay, FullReplay DEF Restore
  <2>2. \A i \in Passes(topic) : i \in DOMAIN topic /\ IsOurs(i) /\ topic[i].record \in Pass
    BY PassesFetched, KindsDiffer DEF Passes, FetchTopicMessages, IsOurs, Typed, TrailTyped
  <2>3. ASSUME NEW i \in Passes(topic) PROVE wallet'[topic[i].record.nullifier] = topic[i].record.wallet
    <3>1. PICK n \in Nullifiers : n = topic[i].record.nullifier
      BY <2>2 DEF Pass
    <3> DEFINE of == {j \in Passes(topic) : topic[j].record.nullifier = n}
    <3>2. of # {} => \E j \in of : WalletOf(topic, n) = topic[j].record.wallet
      BY WalletFound DEF Typed, TrailTyped
    <3>3. PICK j \in of : WalletOf(topic, n) = topic[j].record.wallet
      BY <3>1, <3>2
    <3>4. topic[i].record.wallet = wallet[n] /\ topic[j].record.wallet = wallet[n]
      BY <2>2, <3>1 DEF TopicIsSpent, Spent
    <3> QED
      BY <2>1, <3>1, <3>3, <3>4
  <2> QED
    BY <2>1, <2>3, OursArePasses DEF TopicIsSpent, IsOurs, Spent
<1> QED
  BY <1>1, <1>2, <1>3, <1>4, ServiceSteps DEF SetSelfieCheck, Anchored, Submitted, serviceVars, trailVars

-----------------------------------------------------------------------------
(* Every part of the invariant holds at the start. *)
LEMMA InitHolds == Init => IInv
<1> SUFFICES ASSUME Init PROVE IInv
  OBVIOUS
<1>1. Typed
  BY TypedInit
<1>2. /\ DOMAIN topic = {} /\ writing = Idle /\ \A k \in Slots : wire[k] = Idle
      /\ unreported = 0 /\ late = 0 /\ lost = 0 /\ used = {} /\ selfie = {} /\ told = {}
      /\ \A d \in Docs : docHashes[d] = None
      /\ \A n \in Nullifiers : wallet[n] = None
      /\ \A w \in Wallets : human[w] = None
      /\ \A c \in Callers : calls[c].at = "none"
  BY DEF Init, TrailInit, NoCall
<1>3. Written /\ OnItsWay /\ OnTheWire /\ UsedIsBound
  BY <1>2 DEF Written, OnItsWay, OnTheWire, UsedIsBound
<1>4. Complete = {} /\ \A d \in Docs : PledgedTo(d) = {} /\ ~Lands(d)
  BY <1>2 DEF Complete, PledgedTo, Lands
<1>5. \A n \in Nat : AtMost({}, n)
  BY FS_EmptySet DEF AtMost
<1>6. PledgesCounted
  <2>1. ASSUME NEW d \in Docs
        PROVE  unreported + late + lost + (IF docHashes[d] # None \/ Lands(d) THEN 1 ELSE 0) \in Nat
    <3>1. (IF docHashes[d] # None \/ Lands(d) THEN 1 ELSE 0) \in {0, 1}
      OBVIOUS
    <3> QED
      BY <1>2, <3>1
  <2> QED
    BY <1>4, <1>5, <2>1 DEF PledgesCounted
<1>7. PledgesHold
  BY <1>2, <1>4, <1>6 DEF PledgesHold, Owned, Backed, Indexed
<1>8. \A n \in Nullifiers : WalletsOf(n) = {}
  BY <1>2 DEF WalletsOf, TopicWallets
<1>9. WalletsCounted
  <2>1. \A n \in Nullifiers : late + lost + (IF n \in used THEN 1 ELSE 0) \in Nat
    BY <1>2
  <2> QED
    BY <1>5, <1>8, <2>1 DEF WalletsCounted
<1>10. PassesInHand /\ HumansKnown /\ ToldIsThere /\ ToldIsKept /\ TopicIsSpent
  BY <1>2 DEF PassesInHand, SpentFor, SignalledFor, HumansKnown, ToldIsThere, ToldIsKept, TopicIsSpent
<1> QED
  BY <1>1, <1>3, <1>7, <1>9, <1>10 DEF IInv, PassesHold

(* They survive every step; where nothing is counted as a fault now, nothing was. *)
LEMMA StepHolds == IInv /\ [Next]_vars => IInv'
<1> SUFFICES ASSUME IInv, [Next]_vars PROVE IInv'
  OBVIOUS
<1>1. Typed /\ Written /\ OnItsWay /\ OnTheWire /\ UsedIsBound
  BY DEF IInv
<1>2. Typed' /\ Written' /\ OnItsWay' /\ OnTheWire' /\ UsedIsBound'
  BY <1>1, TypedStep, WrittenStep, UsedIsBoundStep
<1>3. /\ unreported \in Nat /\ late \in Nat /\ lost \in Nat
      /\ unreported' \in Nat /\ late' \in Nat /\ lost' \in Nat
  BY <1>1, <1>2 DEF Typed, TrailTyped
<1>4. /\ unreported' \in {unreported, unreported + 1}
      /\ late' \in {late, late + 1} /\ lost' \in {lost, lost + 1}
  BY <1>1, Counters
<1>5. /\ lost' = 0 => lost = 0
      /\ late' = 0 => late = 0
      /\ unreported' = 0 => unreported = 0
  BY <1>3, <1>4
<1>6. PledgesHold'
  <2>1. Owned /\ Backed /\ PledgesCounted /\ (unreported + late + lost = 0 => Indexed)
    BY DEF IInv, PledgesHold
  <2>2. Owned' /\ Backed' /\ PledgesCounted'
    BY <1>1, <1>2, <2>1, OwnedStep, BackedStep, PledgesCountedStep
  <2>3. ASSUME (unreported + late + lost)' = 0 PROVE Indexed'
    <3>1. unreported' = 0 /\ late' = 0 /\ lost' = 0
      BY <1>3, <2>3, Sums, Zenon
    <3>2. unreported + late + lost = 0
      BY <1>5, <3>1
    <3> QED
      BY <1>1, <1>2, <2>1, <3>1, <3>2, IndexedStep
  <2> QED
    BY <2>2, <2>3 DEF PledgesHold
<1>7. PassesHold'
  <2>1. /\ PassesInHand /\ WalletsCounted /\ HumansKnown /\ ToldIsThere
        /\ lost = 0 => ToldIsKept
        /\ late + lost = 0 => TopicIsSpent
    BY DEF IInv, PassesHold
  <2>2. PassesInHand' /\ WalletsCounted' /\ HumansKnown' /\ ToldIsThere'
    BY <1>1, <1>2, <2>1, PassesInHandStep, WalletsCountedStep, HumansKnownStep, ToldIsThereStep
  <2>3. ASSUME lost' = 0 PROVE ToldIsKept'
    BY <1>1, <1>5, <2>1, <2>3, ToldIsKeptStep
  <2>4. ASSUME (late + lost)' = 0 PROVE TopicIsSpent'
    <3>1. late' = 0 /\ lost' = 0
      <4>1. \A x, y \in Nat : x + y = 0 => x = 0 /\ y = 0
        OBVIOUS
      <4> QED
        BY <1>3, <2>4, <4>1, Zenon
    <3>2. late = 0 /\ lost = 0
      BY <1>5, <3>1
    <3> QED
      BY <1>1, <2>1, <3>1, <3>2, TopicIsSpentStep
  <2> QED
    BY <2>2, <2>3, <2>4 DEF PassesHold
<1> QED
  BY <1>2, <1>6, <1>7 DEF IInv

(* What is on the topic, what is on its way to it and what the process knows of
   both fit together in every state, wherever a restart falls and whatever lands
   late. *)
THEOREM TrailInductive == Spec => []IInv
BY InitHolds, StepHolds, PTL DEF Spec

(* The types of the trail and of the Selfie Check, whatever is lost. *)
THEOREM SelfieTypes == Spec => []TypeOK
<1>1. IInv => TypeOK
  <2> SUFFICES ASSUME IInv PROVE TypeOK
    OBVIOUS
  <2>1. Typed /\ Written /\ OnItsWay /\ OnTheWire /\ UsedIsBound
    BY DEF IInv
  <2>2. \A i \in DOMAIN topic : topic[i].number \in 1 .. topic[i].total /\ topic[i].start \in 1 .. i
    BY <2>1, ShapeOf DEF Typed
  <2>3. writing # Idle => writing.chunks \in 0 .. Chunks(writing.record)
    <3> SUFFICES ASSUME writing # Idle PROVE writing.chunks \in 0 .. Chunks(writing.record)
      OBVIOUS
    <3>1. writing \in Submission /\ writing.chunks <= Chunks(writing.record)
      BY <2>1 DEF OnItsWay, Typed, TrailTyped
    <3> QED
      BY <3>1, ChunksType DEF Submission
  <2>4. TrailTypeOK
    BY <2>1, <2>2, <2>3 DEF TrailTypeOK, Typed, TrailTyped, OnTheWire
  <2> QED
    BY <2>1, <2>4 DEF TypeOK, Typed, ServiceTyped, CallTypes, UsedIsBound
<1> QED
  BY <1>1, TrailInductive, PTL

(* Every wallet with the signal has a person behind it, who has one such wallet,
   and one more for each pass that landed late and each restart that missed a
   part of the topic; and a pass reported as anchored is kept over the restarts
   that read it. *)
THEOREM WalletsKeepTheirPerson == Spec => []TrailInv
<1>1. IInv => OneWalletPerPerson
  <2> SUFFICES ASSUME IInv PROVE OneWalletPerPerson
    OBVIOUS
  <2>1. WalletsCounted /\ HumansKnown /\ selfie \subseteq Wallets /\ late \in Nat /\ lost \in Nat
    BY DEF IInv, PassesHold, Typed, TrailTyped, ServiceTyped
  <2>2. ASSUME NEW n \in Nullifiers
        PROVE  Cardinality({w \in selfie : human[w] = n}) <= 1 + late + lost
    <3> DEFINE sure == IF n \in used THEN 1 ELSE 0
    <3>1. AtMost(WalletsOf(n), late + lost + sure)
      BY <2>1 DEF WalletsCounted
    <3>2. late + lost + sure \in Nat /\ 1 + late + lost \in Nat /\ late + lost + sure <= 1 + late + lost
      BY <2>1
    <3>3. {w \in selfie : human[w] = n} \subseteq WalletsOf(n)
      BY <2>1 DEF HumansKnown
    <3> HIDE DEF sure
    <3> QED
      BY <3>1, <3>2, <3>3, AtMostSubset DEF AtMost
  <2> QED
    BY <2>1, <2>2 DEF OneWalletPerPerson, HumansKnown
<1>2. IInv => AnchoredPassesStay
  <2> SUFFICES ASSUME IInv, lost = 0, NEW p \in told
               PROVE  /\ p.nullifier \in used /\ p.wallet \in selfie
                      /\ late = 0 => wallet[p.nullifier] = p.wallet
    BY DEF AnchoredPassesStay
  <2>1. ToldIsThere /\ ToldIsKept /\ told \subseteq Pass /\ (late = 0 => TopicIsSpent)
    BY DEF IInv, PassesHold, Typed, ServiceTyped
  <2>2. PICK i \in DOMAIN topic : topic[i].payer = "operator" /\ topic[i].record = p
    BY <2>1 DEF ToldIsThere
  <2>3. late = 0 => Spent(p)
    BY <2>1, <2>2, KindsDiffer DEF TopicIsSpent, IsOurs
  <2> QED
    BY <2>1, <2>3 DEF ToldIsKept, Spent
<1>3. TypeOK /\ IInv => TrailInv
  BY <1>1, <1>2 DEF TrailInv
<1> QED
  BY <1>3, TrailInductive, SelfieTypes, PTL

(* A document is pledged under one invoice, and under one more for each record
   that landed unreported or late and each restart that missed a part of the
   topic. *)
THEOREM DocumentsAreNotPledgedTwice == Spec => []OneInvoicePerDoc
<1>1. IInv => OneInvoicePerDoc
  <2> SUFFICES ASSUME IInv, NEW d \in Docs
               PROVE  Cardinality(PledgedTo(d)) <= 1 + unreported + late + lost
    BY DEF OneInvoicePerDoc
  <2> DEFINE sure == IF docHashes[d] # None \/ Lands(d) THEN 1 ELSE 0
             b == unreported + late + lost
  <2>1. AtMost(PledgedTo(d), b + sure) /\ unreported \in Nat /\ late \in Nat /\ lost \in Nat
    BY DEF IInv, PledgesHold, PledgesCounted, Typed, TrailTyped
  <2>2. b + sure \in Nat /\ 1 + unreported + late + lost \in Nat /\ b + sure <= 1 + unreported + late + lost
    BY <2>1
  <2> HIDE DEF sure, b
  <2> QED
    BY <2>1, <2>2, AtMostSubset DEF AtMost
<1> QED
  BY <1>1, TrailInductive, PTL

(* No restart that reads all of the topic forgets a pledge, and no step gives a
   document to another invoice while nothing was lost, unreported or late. *)
THEOREM PledgesOutliveRestarts == Spec => PledgesSurvive
<1>1. ASSUME IInv, [Next]_vars, NEW d \in Docs, docHashes[d] # None, lost' = lost
      PROVE  docHashes'[d] # None
  <2>1. Typed /\ Written /\ OnItsWay /\ Backed
    BY <1>1 DEF IInv, PledgesHold
  <2>2. CASE Submitted
    <3>1. docHashes'[d] = IF Pledges(writing.record, d) THEN writing.record.invoice ELSE docHashes[d]
      BY <2>2 DEF Submitted
    <3>2. Pledges(writing.record, d) => writing.record.invoice # None
      BY <2>1, <2>2, CurrentComplete, PledgeNamesInvoice, TrailAssumption DEF Submitted
    <3> QED
      BY <1>1, <3>1, <3>2
  <2>3. ASSUME NEW served \in 0 .. MaxTopic, served <= Len(topic), Restart(served)
        PROVE  docHashes'[d] # None
    <3>1. docHashes' = Load(topic)
      BY <1>1, <2>1, <2>3, FullReplay
    <3>2. PICK i \in Complete : Pledges(topic[i].record, d)
      BY <1>1, <2>1 DEF Backed, PledgedTo
    <3>3. PICK j \in Complete : Pledges(topic[j].record, d) /\ topic[j].record.invoice = Load(topic)[d]
      BY <2>1, <3>2, LoadedAll DEF Typed
    <3> QED
      BY <2>1, <3>1, <3>3, CompleteOnes, PledgeNamesInvoice, TrailAssumption DEF Typed
  <2> QED
    BY <1>1, <2>1, <2>2, <2>3, IndexSteps
       DEF Attest, Begin, Consensus, LateConsensus, OtherPayer, SubmitFails
<1>2. ASSUME IInv, [Next]_vars, NEW d \in Docs, docHashes[d] # None, unreported + late + lost' = 0
      PROVE  docHashes'[d] = docHashes[d]
  <2>1. Typed /\ Typed' /\ OnItsWay
    BY <1>2, TypedStep DEF IInv
  <2>2. unreported = 0 /\ late = 0 /\ lost' = 0
    BY <1>2, <2>1, Sums, Zenon DEF Typed, TrailTyped
  <2>3. lost = 0
    BY <1>2, <2>1, <2>2, Counters DEF Typed, TrailTyped
  <2>4. Owned /\ Backed /\ Indexed
    BY <1>2, <2>2, <2>3 DEF IInv, PledgesHold
  <2>5. CASE Submitted
    BY <1>2, <2>4, <2>5 DEF Submitted, Owned
  <2>6. ASSUME NEW served \in 0 .. MaxTopic, served <= Len(topic), Restart(served)
        PROVE  docHashes'[d] = docHashes[d]
    <3>1. docHashes' = Load(topic)
      BY <2>1, <2>2, <2>3, <2>6, FullReplay
    <3>2. PICK i \in Complete : Pledges(topic[i].record, d) /\ topic[i].record.invoice = docHashes[d]
      BY <1>2, <2>4 DEF Backed, PledgedTo
    <3>3. PICK j \in Complete : Pledges(topic[j].record, d) /\ topic[j].record.invoice = Load(topic)[d]
      BY <2>1, <3>2, LoadedAll DEF Typed
    <3> QED
      BY <2>1, <2>4, <3>1, <3>2, <3>3, Agree DEF Typed
  <2> QED
    BY <1>2, <2>1, <2>5, <2>6, IndexSteps
       DEF Attest, Begin, Consensus, LateConsensus, OtherPayer, SubmitFails
<1>3. IInv /\ [Next]_vars =>
        [\A d \in Docs : docHashes[d] # None =>
           /\ lost' = lost => docHashes'[d] # None
           /\ unreported + late + lost' = 0 => docHashes'[d] = docHashes[d]]_vars
  BY <1>1, <1>2
<1> QED
  BY <1>3, TrailInductive, PTL DEF Spec, PledgesSurvive
=============================================================================
