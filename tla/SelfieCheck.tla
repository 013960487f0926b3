---------------------------- MODULE SelfieCheck ----------------------------
(***************************************************************************)
(* The Selfie Check (internal/world/world.go, worldVerify of                 *)
(* internal/server/world.go, restoreSelfieChecks of cmd/api/main.go) on top  *)
(* of the audit trail that makes it outlive the process.                     *)
(*                                                                           *)
(* A request checks its nullifier, asks the Developer Portal under no lock,  *)
(* checks and spends the nullifier, sets the wallet's signal, and anchors    *)
(* the pass: other requests run between any two of these.                    *)
(***************************************************************************)
EXTENDS AuditTrail, FiniteSets
LOCAL INSTANCE TLC

CONSTANTS Wallets, Nullifiers, Callers

ASSUME SelfieAssumption == None \notin Wallets \cup Nullifiers

VARIABLES
  used,      \* Service.used
  wallet,    \* Service.wallet: nullifier -> wallet it was spent on
  human,     \* Service.human: wallet -> nullifier behind it
  selfie,    \* Flow.selfie
  calls,     \* caller -> NoCall or the request it is serving
  told       \* history: passes whose request was answered "anchored: true"

serviceVars == <<used, wallet, human>>
vars == <<trailVars, serviceVars, selfie, calls, told>>

NoCall == [at |-> "none"]
Pass == [kind: {"selfie"}, wallet: Wallets, nullifier: Nullifiers]

TypeOK ==
  /\ TrailTypeOK
  /\ used \subseteq Nullifiers /\ selfie \subseteq Wallets /\ told \subseteq Pass
  /\ wallet \in [Nullifiers -> Wallets \cup {None}]
  /\ human \in [Wallets -> Nullifiers \cup {None}]
  /\ calls \in [Callers ->
       {NoCall} \cup [at: {"portal", "passed", "signalled", "anchoring"}, pass: Pass]]
  /\ \A n \in Nullifiers : n \in used <=> wallet[n] # None

Init ==
  /\ TrailInit
  /\ used = {} /\ selfie = {} /\ told = {}
  /\ wallet = [n \in Nullifiers |-> None]
  /\ human = [w \in Wallets |-> None]
  /\ calls = [c \in Callers |-> NoCall]

-----------------------------------------------------------------------------
Goes(c, next) == calls' = [calls EXCEPT ![c].at = next]
Ends(c) == calls' = [calls EXCEPT ![c] = NoCall]

(* Verify: refuses a nullifier that is spent, then asks the portal. *)
Verify(c, p) ==
  /\ calls[c] = NoCall
  /\ p.nullifier \notin used
  /\ calls' = [calls EXCEPT ![c] = [at |-> "portal", pass |-> p]]
  /\ UNCHANGED <<trailVars, serviceVars, selfie, told>>

Bound(f, k, v) == IF f[k] = None THEN [f EXCEPT ![k] = v] ELSE f

(* bind: the first binding wins. *)
Bind(p) ==
  /\ wallet' = Bound(wallet, p.nullifier, p.wallet)
  /\ human' = Bound(human, p.wallet, p.nullifier)

(* Mutant of PortalAccepts: relies on the check made before the portal call. *)
PortalAcceptsBlindly(c) ==
  LET p == calls[c].pass
  IN  /\ calls[c].at = "portal"
      /\ Goes(c, "passed") /\ used' = used \cup {p.nullifier} /\ Bind(p)
      /\ UNCHANGED <<trailVars, selfie, told>>

(* Verify: spends the nullifier, unless an identical request was faster. *)
PortalAccepts(c) ==
  LET p == calls[c].pass
  IN  /\ calls[c].at = "portal"
      /\ IF p.nullifier \in used
           THEN Ends(c) /\ UNCHANGED serviceVars
           ELSE Goes(c, "passed") /\ used' = used \cup {p.nullifier} /\ Bind(p)
      /\ UNCHANGED <<trailVars, selfie, told>>

PortalRejects(c) ==
  /\ calls[c].at = "portal"
  /\ Ends(c)
  /\ UNCHANGED <<trailVars, serviceVars, selfie, told>>

SetSelfieCheck(c) ==
  /\ calls[c].at = "passed"
  /\ selfie' = selfie \cup {calls[c].pass.wallet}
  /\ Goes(c, "signalled")
  /\ UNCHANGED <<trailVars, serviceVars, told>>

AnchorPass(c) ==
  /\ calls[c].at = "signalled"
  /\ Begin(calls[c].pass)
  /\ Goes(c, "anchoring")
  /\ UNCHANGED <<serviceVars, selfie, told>>

(* The request whose record is being written; None when it is someone else's. *)
Anchoring == {c \in Callers : calls[c].at = "anchoring"}
Answered == calls' = [c \in Callers |-> IF c \in Anchoring THEN NoCall ELSE calls[c]]

(* Submit returned: "anchored: true". *)
Anchored ==
  /\ Submitted /\ Answered
  /\ told' = told \cup {calls[c].pass : c \in Anchoring}
  /\ UNCHANGED <<serviceVars, selfie>>

(* Submit failed: "anchored: false". *)
NotAnchored ==
  /\ SubmitFails /\ Answered
  /\ UNCHANGED <<serviceVars, selfie, told>>

(* The other requests of the API that write to the trail. *)
OtherRecord ==
  /\ AnchorReceipt \/ \E r \in Attestation : Attest(r)
  /\ UNCHANGED <<serviceVars, selfie, calls, told>>

OnTopic ==
  /\ \/ Consensus
     \/ \E k \in Slots : LateConsensus(k)
     \/ \E r \in Attestation : ~r.logo /\ OtherPayer(r)
  /\ UNCHANGED <<serviceVars, selfie, calls, told>>

-----------------------------------------------------------------------------
Passes(t) == {i \in FetchTopicMessages(t) : t[i].record.kind = "selfie"}

(* The wallet and the human of the first pass that names the other. *)
WalletOf(t, n) ==
  LET of == {i \in Passes(t) : t[i].record.nullifier = n}
  IN  IF of = {} THEN None ELSE First(t, of).wallet

HumanOf(t, w) ==
  LET of == {i \in Passes(t) : t[i].record.wallet = w}
  IN  IF of = {} THEN None ELSE First(t, of).nullifier

(* Restore: the nullifiers spent, and their first bindings. *)
Restore(t) ==
  /\ used' = {t[i].record.nullifier : i \in Passes(t)}
  /\ wallet' = [n \in Nullifiers |-> WalletOf(t, n)]
  /\ human' = [w \in Wallets |-> HumanOf(t, w)]

(* restoreSelfieChecks: every wallet with a pass on the topic has the signal. *)
Restart(served) ==
  LET t == SubSeq(topic, 1, served)
  IN  /\ Replay(served)
      /\ Restore(t)
      /\ selfie' = {t[i].record.wallet : i \in Passes(t)}
      /\ calls' = [c \in Callers |-> NoCall]
      /\ UNCHANGED told

Next ==
  \/ \E c \in Callers :
       \/ \E p \in Pass : Verify(c, p)
       \/ PortalAccepts(c) \/ PortalRejects(c) \/ SetSelfieCheck(c) \/ AnchorPass(c)
  \/ Anchored \/ NotAnchored \/ OtherRecord \/ OnTopic
  \/ \E served \in 0 .. MaxTopic : served <= Len(topic) /\ Restart(served)

Spec == Init /\ [][Next]_vars

(* For TLC: messages, restarts and requests under way are bounded together. *)
Bounded == Len(topic) + restarts + Cardinality({c \in Callers : calls[c] # NoCall}) <= MaxTopic + 1

(* For TLC: no invoice, wallet or request differs from another. *)
Interchangeable == Permutations(Invoices) \cup Permutations(Wallets) \cup Permutations(Callers)

------------------------------------------------------------------------------
(* Every wallet that has the signal has a person behind it, and a person has one
   such wallet.  Each pass that lands after its process died or gave it up can
   cost one more, and so can each restart that did not read all of the topic:
   nothing else can, not two requests that race with one proof, not a write that
   fails or only seems to, and not a restart at any point of a request
   (world.go:202-262, main.go:73-88). *)
OneWalletPerPerson ==
  /\ \A w \in selfie : human[w] # None
  /\ \A n \in Nullifiers : Cardinality({w \in selfie : human[w] = n}) <= 1 + late + lost

(* A pass reported as anchored is kept over restarts that read the topic: its
   nullifier stays spent and its wallet keeps the signal, and the nullifier stays
   bound to that wallet unless an earlier pass landed late (server/world.go:69-86). *)
AnchoredPassesStay ==
  lost = 0 =>
    \A p \in told :
      /\ p.nullifier \in used /\ p.wallet \in selfie
      /\ late = 0 => wallet[p.nullifier] = p.wallet

Complete == {i \in DOMAIN topic :
  topic[i].payer = "operator" /\ topic[i].number = 1 /\ Whole(topic, i)}
PledgedTo(d) == {topic[i].record.invoice : i \in {j \in Complete : Pledges(topic[j].record, d)}}

(* A document is pledged under one invoice on the topic.  Each record that landed
   and was reported as failed, or landed after its process died or gave it up, can
   cost one more, and so can each restart that did not read all of the topic:
   nothing else can, wherever a restart falls (hcs.go:97-127, mirror.go:65-97). *)
OneInvoicePerDoc ==
  \A d \in Docs : Cardinality(PledgedTo(d)) <= 1 + unreported + late + lost

(* A restart that reads all of the topic forgets no pledge, and no step gives the
   document to another invoice, unless two records of it could be on the topic for
   one of the reasons above (apps/api/README.md:117-118; hcs.go:158-191). *)
PledgesSurvive ==
  [][\A d \in Docs : docHashes[d] # None =>
       /\ lost' = lost => docHashes'[d] # None
       /\ unreported + late + lost' = 0 => docHashes'[d] = docHashes[d]]_vars

(* A restart cannot forget a pledge, whatever it was served
   (apps/api/README.md:117-118). *)
RestartsForgetNothing ==
  [][\A d \in Docs : docHashes[d] # None => docHashes'[d] # None]_vars

(* One person per wallet, kept over restarts (world.go:202-262). *)
TrailInv == TypeOK /\ OneWalletPerPerson /\ AnchoredPassesStay
=============================================================================
