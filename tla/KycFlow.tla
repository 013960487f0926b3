------------------------------- MODULE KycFlow -------------------------------
(***************************************************************************)
(* From a wallet's review to its eligibility on every bond                   *)
(* (apps/api/internal/kyc/flow.go, internal/grant/granter.go, internal/txlock *)
(* and the handlers of internal/server/kyc.go).                              *)
(*                                                                           *)
(* A request is a caller that reads under no lock, so other requests run     *)
(* between its steps.  A grant or a revocation is a background job that      *)
(* walks the bonds and sends one transaction after the other; what it sent   *)
(* is in the operator's queue at the network and may land late, or never.    *)
(* A restart forgets everything this process knew and leaves that queue.     *)
(*                                                                           *)
(* External: Sumsub (applicant, review), the chain (listed, isEligible, the  *)
(* queue of pending transactions, mined in nonce order).                     *)
(***************************************************************************)
EXTENDS Policy, FiniteSets, SequencesExt

CONSTANTS
  Wallets, Bonds,
  Callers,             \* requests in flight at once
  Declarations,        \* the questionnaires wallets submit
  RequireSelfieCheck,  \* REQUIRE_SELFIE_CHECK
  MaxReviews,          \* bound: results Sumsub gives
  MaxFailures,         \* bound: jobs and transactions that fail
  MaxRestarts          \* bound: restarts of the API

VARIABLES
  applicant,    \* Sumsub: wallet -> NoApplicant or [review, answers]
  calls,        \* caller -> NoCall or the request it is serving
  granted,      \* Flow.granted: wallets this process granted
  fresh,        \* wallets whose checkedAt is within RecheckEvery
  jobs,         \* Flow.inflight: wallet -> NoJob or its background job
  selfie,       \* Flow.selfie
  anchored,     \* wallets whose Selfie Check is on the audit topic
  listed,       \* InvoiceMarket.invoiceIds, as bonds
  isEligible,   \* bond -> eligible wallets
  pending,      \* transactions sent and not mined yet, in nonce order
  wasEligible, wasBlocked,  \* history: wallets that once evaluated so
  reviews, failures, restarts  \* counters against the bounds

flowVars == <<granted, fresh, jobs, selfie>>
chainVars == <<listed, isEligible, pending>>
countVars == <<reviews, failures, restarts>>
vars == <<applicant, calls, flowVars, anchored, chainVars, wasEligible, wasBlocked,
          countVars>>

ASSUME KycAssumption ==
  /\ Declarations \subseteq Answers
  /\ RequireSelfieCheck \in BOOLEAN
  /\ {MaxReviews, MaxFailures, MaxRestarts} \subseteq Nat

NoApplicant == [review |-> "none"]
NoCall == [op |-> "none"]
NoJob == [phase |-> "none"]
NoAnswers == [k \in DOMAIN (CHOOSE a \in Answers : TRUE) |-> Blank]

Call ==
  {NoCall}
  \cup [op: {"status"}, wallet: Wallets, selfie: BOOLEAN, decision: Decisions \cup {"unread"}]
  \cup [op: {"create", "write"}, wallet: Wallets, answers: Declarations]

Job == {NoJob} \cup [phase: {"list", "view", "send", "wait", "mined", "lost"},
                     eligible: BOOLEAN, todo: Seq(Bonds)]

Tx == [wallet: Wallets, bond: Bonds, eligible: BOOLEAN, waited: BOOLEAN]

TypeOK ==
  /\ applicant \in [Wallets -> {NoApplicant} \cup [review: Reviews, answers: Answers]]
  /\ calls \in [Callers -> Call]
  /\ granted \subseteq Wallets /\ fresh \subseteq granted
  /\ jobs \in [Wallets -> Job]
  /\ anchored \subseteq selfie /\ selfie \subseteq Wallets
  /\ listed \in Seq(Bonds) /\ IsInjective(listed)
  /\ isEligible \in [Bonds -> SUBSET Wallets]
  /\ pending \in Seq(Tx)

Init ==
  /\ applicant = [w \in Wallets |-> NoApplicant]
  /\ calls = [c \in Callers |-> NoCall]
  /\ granted = {} /\ fresh = {} /\ selfie = {} /\ anchored = {}
  /\ jobs = [w \in Wallets |-> NoJob]
  /\ listed = <<>> /\ pending = <<>>
  /\ isEligible = [b \in Bonds |-> {}]
  /\ wasEligible = {} /\ wasBlocked = {}
  /\ reviews = 0 /\ failures = 0 /\ restarts = 0

-----------------------------------------------------------------------------
Reviewed(w) == applicant[w].review \notin {"none", "open"}
Decision(w) == Evaluate(applicant[w].review, applicant[w].answers)
Qualifies(w) ==
  /\ applicant[w] # NoApplicant
  /\ Decision(w) = "eligible"
  /\ RequireSelfieCheck => w \in selfie
Rejected(w) == applicant[w] # NoApplicant /\ Decision(w) = "blocked"

(* SubmitProfile: reads the applicant and refuses one already reviewed. *)
StartProfile(c, w, a) ==
  /\ calls[c] = NoCall
  /\ ~Reviewed(w)
  /\ calls' = [calls EXCEPT ![c] =
       [op |-> IF applicant[w] = NoApplicant THEN "create" ELSE "write",
        wallet |-> w, answers |-> a]]
  /\ UNCHANGED <<applicant, flowVars, anchored, chainVars, countVars>>

(* SubmitProfile: CreateApplicant fails when a second request got there first. *)
CreateApplicant(c) ==
  LET w == calls[c].wallet
  IN  /\ calls[c].op = "create"
      /\ IF applicant[w] = NoApplicant
           THEN /\ applicant' = [applicant EXCEPT ![w] =
                     [review |-> "open", answers |-> NoAnswers]]
                /\ calls' = [calls EXCEPT ![c].op = "write"]
           ELSE /\ calls' = [calls EXCEPT ![c] = NoCall]
                /\ UNCHANGED applicant
      /\ UNCHANGED <<flowVars, anchored, chainVars, countVars>>

StatusOf(w) ==
  [op |-> "status", wallet |-> w, selfie |-> w \in selfie, decision |-> "unread"]

(* SubmitProfile: SetFixedInfo, SubmitQuestionnaire; kycProfile then asks for
   the status. *)
WriteProfile(c) ==
  LET w == calls[c].wallet
  IN  /\ calls[c].op = "write"
      /\ applicant' = [applicant EXCEPT ![w].answers = calls[c].answers]
      /\ calls' = [calls EXCEPT ![c] = StatusOf(w)]
      /\ UNCHANGED <<flowVars, anchored, chainVars, countVars>>

(* Status, asked by the web app or by Webhook: reads the Selfie Check first. *)
StartStatus(c, w) ==
  /\ calls[c] = NoCall
  /\ calls' = [calls EXCEPT ![c] = StatusOf(w)]
  /\ UNCHANGED <<applicant, flowVars, anchored, chainVars, countVars>>

(* Status: re-reads Sumsub and runs the policy; no applicant, no decision. *)
ReadApplicant(c) ==
  LET w == calls[c].wallet
  IN  /\ calls[c].op = "status" /\ calls[c].decision = "unread"
      /\ calls' = [calls EXCEPT ![c] =
           IF applicant[w] = NoApplicant THEN NoCall ELSE [@ EXCEPT !.decision = Decision(w)]]
      /\ UNCHANGED <<applicant, flowVars, anchored, chainVars, countVars>>

NewJob(eligible) == [phase |-> "list", eligible |-> eligible, todo |-> <<>>]

(* Mutant of EnsureGranted: a wallet granted once is never looked at again. *)
EnsureGrantedOnce(w) ==
  jobs' = IF jobs[w] # NoJob \/ w \in granted
            THEN jobs ELSE [jobs EXCEPT ![w] = NewJob(TRUE)]

(* ensureGranted: starts a job unless one runs or the wallet was just checked. *)
EnsureGranted(w) ==
  jobs' = IF jobs[w] # NoJob \/ (w \in granted /\ w \in fresh)
            THEN jobs ELSE [jobs EXCEPT ![w] = NewJob(TRUE)]

(* ensureRevoked: only for a wallet this process granted. *)
EnsureRevoked(w) ==
  jobs' = IF jobs[w] # NoJob \/ w \notin granted
            THEN jobs ELSE [jobs EXCEPT ![w] = NewJob(FALSE)]

(* Mutant of Decide: an eligible wallet needs no Selfie Check. *)
DecideUnchecked(c) ==
  LET w == calls[c].wallet
  IN  /\ calls[c].op = "status" /\ calls[c].decision # "unread"
      /\ CASE calls[c].decision = "blocked" -> EnsureRevoked(w)
           [] calls[c].decision = "eligible" -> EnsureGranted(w)
           [] OTHER -> UNCHANGED jobs
      /\ calls' = [calls EXCEPT ![c] = NoCall]
      /\ UNCHANGED <<applicant, granted, fresh, selfie, anchored, chainVars, countVars>>

(* Status: acts on the decision it read. *)
Decide(c) ==
  LET w == calls[c].wallet
      selfieMissing == RequireSelfieCheck /\ ~calls[c].selfie
  IN  /\ calls[c].op = "status" /\ calls[c].decision # "unread"
      /\ CASE calls[c].decision = "blocked" -> EnsureRevoked(w)
           [] calls[c].decision = "eligible" /\ ~selfieMissing -> EnsureGranted(w)
           [] OTHER -> UNCHANGED jobs
      /\ calls' = [calls EXCEPT ![c] = NoCall]
      /\ UNCHANGED <<applicant, granted, fresh, selfie, anchored, chainVars, countVars>>

(* SetSelfieCheck, called by worldVerify, which also anchors the pass or fails to. *)
SetSelfieCheck(w, onTopic) ==
  /\ w \notin selfie
  /\ selfie' = selfie \cup {w}
  /\ anchored' = IF onTopic THEN anchored \cup {w} ELSE anchored
  /\ UNCHANGED <<applicant, calls, granted, fresh, jobs, chainVars, countVars>>

(* RecheckEvery has passed since the wallet was last checked. *)
Expire(w) ==
  /\ w \in fresh
  /\ fresh' = fresh \ {w}
  /\ UNCHANGED <<applicant, calls, granted, jobs, selfie, anchored, chainVars, countVars>>

-----------------------------------------------------------------------------
(* A job's next phase; Grant and Revoke run the same loop over the bonds. *)
Phase(w, p) == jobs' = [jobs EXCEPT ![w].phase = p]
HoldsLock(w) == jobs[w].phase \in {"wait", "mined", "lost"}

(* Bonds: enumerates the listed bonds. *)
JobList(w) ==
  /\ jobs[w].phase = "list"
  /\ jobs' = [jobs EXCEPT ![w] = [phase |-> "view", eligible |-> @.eligible, todo |-> listed]]
  /\ UNCHANGED <<applicant, calls, granted, fresh, selfie, anchored, chainVars, countVars>>

(* Mutant of JobView: any bond that has the flag is skipped. *)
JobViewSkipsFlagged(w) ==
  /\ jobs[w].phase = "view" /\ jobs[w].todo # <<>>
  /\ IF w \in isEligible[Head(jobs[w].todo)]
       THEN jobs' = [jobs EXCEPT ![w].todo = Tail(@)]
       ELSE Phase(w, "send")
  /\ UNCHANGED <<applicant, calls, granted, fresh, selfie, anchored, chainVars, countVars>>

(* set: skips a bond already in the target state. *)
JobView(w) ==
  /\ jobs[w].phase = "view" /\ jobs[w].todo # <<>>
  /\ IF (w \in isEligible[Head(jobs[w].todo)]) = jobs[w].eligible
       THEN jobs' = [jobs EXCEPT ![w].todo = Tail(@)]
       ELSE Phase(w, "send")
  /\ UNCHANGED <<applicant, calls, granted, fresh, selfie, anchored, chainVars, countVars>>

(* send: takes the operator's lock, submits and waits for the receipt. *)
JobSend(w) ==
  /\ jobs[w].phase = "send"
  /\ \A v \in Wallets : ~HoldsLock(v)
  /\ Phase(w, "wait")
  /\ pending' = Append(pending, [wallet |-> w, bond |-> Head(jobs[w].todo),
                                 eligible |-> jobs[w].eligible, waited |-> TRUE])
  /\ UNCHANGED <<applicant, calls, granted, fresh, selfie, anchored, listed, isEligible,
                 countVars>>

(* send: the receipt has come. *)
JobSeen(w) ==
  /\ jobs[w].phase = "mined"
  /\ jobs' = [jobs EXCEPT ![w] = [phase |-> "view", eligible |-> @.eligible, todo |-> Tail(@.todo)]]
  /\ UNCHANGED <<applicant, calls, granted, fresh, selfie, anchored, chainVars, countVars>>

Unwaited == [i \in DOMAIN pending |-> [pending[i] EXCEPT !.waited = FALSE]]

(* An RPC call or the wait for a receipt failed: the job ends, what it sent
   stays sent. *)
JobFail(w) ==
  /\ jobs[w] # NoJob
  /\ jobs' = [jobs EXCEPT ![w] = NoJob]
  /\ IF jobs[w].phase = "lost" THEN UNCHANGED failures
       ELSE failures < MaxFailures /\ failures' = failures + 1
  /\ pending' = IF HoldsLock(w) THEN Unwaited ELSE pending
  /\ UNCHANGED <<applicant, calls, granted, fresh, selfie, anchored, listed, isEligible,
                 reviews, restarts>>

(* Every bond is done: the wallet is recorded as granted, or forgotten. *)
JobFinish(w) ==
  /\ jobs[w].phase = "view" /\ jobs[w].todo = <<>>
  /\ jobs' = [jobs EXCEPT ![w] = NoJob]
  /\ granted' = IF jobs[w].eligible THEN granted \cup {w} ELSE granted \ {w}
  /\ fresh' = IF jobs[w].eligible THEN fresh \cup {w} ELSE fresh \ {w}
  /\ UNCHANGED <<applicant, calls, selfie, anchored, chainVars, countVars>>

-----------------------------------------------------------------------------
(* The network serves the operator's transactions in nonce order. *)
Served(p) ==
  /\ pending # <<>>
  /\ pending' = Tail(pending)
  /\ jobs' = [w \in Wallets |->
       IF Head(pending).waited /\ HoldsLock(w) THEN [jobs[w] EXCEPT !.phase = p] ELSE jobs[w]]

MineHead ==
  /\ Served("mined")
  /\ LET tx == Head(pending)
     IN  isEligible' = [isEligible EXCEPT ![tx.bond] =
           IF tx.eligible THEN @ \cup {tx.wallet} ELSE @ \ {tx.wallet}]
  /\ UNCHANGED <<applicant, calls, granted, fresh, selfie, anchored, listed, countVars>>

DropHead ==
  /\ Served("lost")
  /\ failures < MaxFailures /\ failures' = failures + 1
  /\ UNCHANGED <<applicant, calls, granted, fresh, selfie, anchored, listed, isEligible,
                 reviews, restarts>>

ListBond(b) ==
  /\ ~Contains(listed, b)
  /\ listed' = Append(listed, b)
  /\ UNCHANGED <<applicant, calls, flowVars, anchored, isEligible, pending, countVars>>

(* Sumsub gives, or corrects, the result of a review. *)
Review(w, r) ==
  /\ applicant[w] # NoApplicant /\ applicant[w].review # r
  /\ reviews < MaxReviews /\ reviews' = reviews + 1
  /\ applicant' = [applicant EXCEPT ![w].review = r]
  /\ UNCHANGED <<calls, flowVars, anchored, chainVars, failures, restarts>>

(* main: a new process knows the Selfie Checks it replays from the topic. *)
Restart ==
  /\ restarts < MaxRestarts /\ restarts' = restarts + 1
  /\ granted' = {} /\ fresh' = {} /\ selfie' = anchored
  /\ jobs' = [w \in Wallets |-> NoJob]
  /\ calls' = [c \in Callers |-> NoCall]
  /\ pending' = Unwaited
  /\ UNCHANGED <<applicant, anchored, listed, isEligible, reviews, failures>>

CallStep(c) == CreateApplicant(c) \/ WriteProfile(c) \/ ReadApplicant(c) \/ Decide(c)
JobStep(w) == JobList(w) \/ JobView(w) \/ JobSend(w) \/ JobSeen(w) \/ JobFinish(w)

Step ==
  \/ \E c \in Callers, w \in Wallets :
       StartStatus(c, w) \/ \E a \in Declarations : StartProfile(c, w, a)
  \/ \E c \in Callers : CallStep(c)
  \/ \E w \in Wallets :
       \/ JobStep(w) \/ JobFail(w) \/ Expire(w)
       \/ \E onTopic \in BOOLEAN : SetSelfieCheck(w, onTopic)
       \/ \E r \in Reviews \ {"open"} : Review(w, r)
  \/ \E b \in Bonds : ListBond(b)
  \/ MineHead \/ DropHead \/ Restart

Next ==
  /\ Step
  /\ wasEligible' = wasEligible \cup {w \in Wallets : Qualifies(w)'}
  /\ wasBlocked' = wasBlocked \cup {w \in Wallets : Rejected(w)'}

(* Requests and jobs run to their end, the network serves what it was sent,
   time passes, and the web app keeps asking for the status (its status query
   refetches while the wizard or a bond page is open). *)
Fairness ==
  /\ WF_vars(MineHead /\ Next)
  /\ \A c \in Callers : WF_vars(CallStep(c) /\ Next)
  /\ \A w \in Wallets :
       /\ WF_vars(JobStep(w) /\ Next)
       /\ WF_vars(jobs[w].phase = "lost" /\ JobFail(w) /\ Next)
       /\ WF_vars(Expire(w) /\ Next)
       /\ WF_vars((\E c \in Callers : StartStatus(c, w)) /\ Next)

Spec == Init /\ [][Next]_vars
FairSpec == Spec /\ Fairness

-----------------------------------------------------------------------------
Flagged(w) == {b \in Bonds : w \in isEligible[b]}

(* Every eligibility flag and every transaction on its way to set or clear one
   goes back to a moment at which the policy, and the Selfie Check when it is
   required, said so of that wallet, however the reads of the request that
   started the job were interleaved (flow.go:138-173, granter.go:102-124). *)
TxsFollowVerdicts ==
  /\ \A i \in DOMAIN pending :
       pending[i].wallet \in IF pending[i].eligible THEN wasEligible ELSE wasBlocked
  /\ \A w \in Wallets : Flagged(w) # {} => w \in wasEligible

(* Nothing is granted or revoked that no verdict asked for, and a job is marked
   as in flight exactly while it runs (flow.go:138-219). *)
KycInv == TypeOK /\ TxsFollowVerdicts
=============================================================================
