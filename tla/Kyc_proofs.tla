------------------------------ MODULE Kyc_proofs ------------------------------
(***************************************************************************)
(* What the suitability policy promises, for every review and questionnaire, *)
(* and that no wallet gets a flag, or loses one, without a verdict of that    *)
(* policy, for every number of wallets, bonds and requests.                   *)
(***************************************************************************)
EXTENDS KycFlow, TLAPS

Disclosures == {"us_person", "sanctioned", "pep"}

(* Who is eligible: a green review, no required answer missing, a residence that
   is not on the list of sanctioned ones, and of the declarations that go by yes
   or no, the one of ownership read as a yes and the others not.  A complete
   declaration that is read as excluding its holder blocks it whatever else it
   says (policy.go:48-78). *)
OnlyTheseAreEligible ==
  \A r \in Reviews, a \in Answers :
    /\ Evaluate(r, a) = "eligible" <=>
         /\ r = "green" /\ ~Incomplete(a) /\ a.residence # "sanctioned"
         /\ a.beneficial_owner = "yes" /\ \A k \in Disclosures : a[k] # "yes"
    /\ r = "green" /\ ~Incomplete(a) /\ "yes" \in {a.us_person, a.sanctioned}
         => Evaluate(r, a) = "blocked"

(* An answer that cannot be read as a yes counts as a no, and a wallet that gave
   one may be eligible: it is not held, as the comment on the policy has it,
   "anything ambiguous is held, never granted" (policy.go:47, 80-86). *)
UnclearIsNo ==
  \A r \in Reviews, a \in Answers, k \in Disclosures :
    a[k] = "unclear" => Evaluate(r, a) = Evaluate(r, [a EXCEPT ![k] = "no"])

Rank == [blocked |-> 0, held |-> 1, pending |-> 1, eligible |-> 2]

Disclose(a, k) == [a EXCEPT ![k] = "yes"]

(* Owning up to something never helps: replacing a given answer by a less
   favourable one never improves the decision (policy.go:62-76). *)
DisclosureNeverHelps ==
  \A r \in Reviews, a \in Answers, k \in Disclosures :
    a[k] \in {"no", "unclear"} =>
      Rank[Evaluate(r, Disclose(a, k))] <= Rank[Evaluate(r, a)]

(* The policy decides every case one way. *)
LEMMA EvaluateCases ==
  ASSUME NEW r \in Reviews, NEW a \in Answers
  PROVE  /\ r = "final" => Evaluate(r, a) = "blocked"
         /\ r \in {"open", "retry"} => Evaluate(r, a) = "pending"
         /\ r = "green" =>
              /\ Incomplete(a) => Evaluate(r, a) = "held"
              /\ ~Incomplete(a) /\ Excluded(a) => Evaluate(r, a) = "blocked"
              /\ ~Incomplete(a) /\ ~Excluded(a) /\ NeedsReview(a) => Evaluate(r, a) = "held"
              /\ ~Incomplete(a) /\ ~Excluded(a) /\ ~NeedsReview(a) => Evaluate(r, a) = "eligible"
BY DEF Evaluate, Reviews

(* OnlyTheseAreEligible and UnclearIsNo hold of every review and questionnaire. *)
THEOREM PolicyDecides == OnlyTheseAreEligible /\ UnclearIsNo
<1>1. OnlyTheseAreEligible
  <2> SUFFICES ASSUME NEW r \in Reviews, NEW a \in Answers
               PROVE  /\ Evaluate(r, a) = "eligible" <=>
                           /\ r = "green" /\ ~Incomplete(a) /\ a.residence # "sanctioned"
                           /\ a.beneficial_owner = "yes" /\ \A k \in Disclosures : a[k] # "yes"
                      /\ r = "green" /\ ~Incomplete(a) /\ "yes" \in {a.us_person, a.sanctioned}
                           => Evaluate(r, a) = "blocked"
    BY DEF OnlyTheseAreEligible
  <2>1. Evaluate(r, a) = "eligible" <=> r = "green" /\ ~Incomplete(a) /\ ~Excluded(a) /\ ~NeedsReview(a)
    BY EvaluateCases DEF Reviews
  <2>2. ~Excluded(a) /\ ~NeedsReview(a) <=>
          /\ a.residence # "sanctioned" /\ a.beneficial_owner = "yes"
          /\ \A k \in Disclosures : a[k] # "yes"
    BY DEF Excluded, NeedsReview, Disclosures
  <2>3. "yes" \in {a.us_person, a.sanctioned} => Excluded(a)
    BY DEF Excluded
  <2> QED
    BY <2>1, <2>2, <2>3, EvaluateCases
<1>2. UnclearIsNo
  <2> SUFFICES ASSUME NEW r \in Reviews, NEW a \in Answers, NEW k \in Disclosures, a[k] = "unclear"
               PROVE  Evaluate(r, a) = Evaluate(r, [a EXCEPT ![k] = "no"])
    BY DEF UnclearIsNo
  <2> DEFINE d == [a EXCEPT ![k] = "no"]
  <2>1. DOMAIN d = DOMAIN a /\ \A j \in DOMAIN a : d[j] = IF j = k THEN "no" ELSE a[j]
    BY DEF Answers
  <2>2. {"residence", "us_person", "sanctioned", "pep", "beneficial_owner"} \subseteq DOMAIN a
    BY DEF Answers
  <2> HIDE DEF d
  <2>3. Incomplete(d) <=> Incomplete(a)
    BY <2>1 DEF Incomplete, Blank
  <2>4. (Excluded(d) <=> Excluded(a)) /\ (NeedsReview(d) <=> NeedsReview(a))
    BY <2>1, <2>2 DEF Excluded, NeedsReview, Disclosures
  <2>5. Evaluate(r, a) = Evaluate(r, d)
    BY <2>3, <2>4, Zenon DEF Evaluate
  <2> QED
    BY <2>5 DEF d
<1> QED
  BY <1>1, <1>2

(* DisclosureNeverHelps holds of every review and questionnaire. *)
THEOREM PolicyIsMonotone == DisclosureNeverHelps
<1> SUFFICES ASSUME NEW r \in Reviews, NEW a \in Answers, NEW k \in Disclosures,
                    a[k] \in {"no", "unclear"}
             PROVE  Rank[Evaluate(r, Disclose(a, k))] <= Rank[Evaluate(r, a)]
    BY DEF DisclosureNeverHelps
<1> DEFINE d == Disclose(a, k)
<1>1. d \in Answers /\ DOMAIN d = DOMAIN a
    BY DEF Disclose, Answers, Disclosures, YesNo
<1>2. \A j \in DOMAIN a : d[j] = IF j = k THEN "yes" ELSE a[j]
    BY DEF Disclose, Answers, Disclosures
<1>3. Incomplete(d) <=> Incomplete(a)
    BY <1>1, <1>2 DEF Incomplete, Blank
<1>4. Excluded(a) => Excluded(d)
    BY <1>2 DEF Excluded, Answers, Disclosures
<1>5. NeedsReview(a) => NeedsReview(d)
    BY <1>2 DEF NeedsReview, Answers, Disclosures
<1>6. CASE r = "green"
    BY <1>1, <1>3, <1>4, <1>5, <1>6, EvaluateCases DEF Rank
<1>7. CASE r # "green"
    BY <1>1, <1>7, EvaluateCases DEF Rank, Reviews
<1> QED
    BY <1>6, <1>7

-----------------------------------------------------------------------------
(* The verdict a job or a transaction acts on was given. *)
Given(w, eligible) == w \in IF eligible THEN wasEligible ELSE wasBlocked

(* The history has every verdict there is now. *)
VerdictsNoted ==
  \A w \in Wallets : (Qualifies(w) => Given(w, TRUE)) /\ (Rejected(w) => Given(w, FALSE))

(* What a request read still holds of the past, whatever changed since: the Selfie
   Check is not taken back, and the verdict was that of a review which is noted. *)
CallInv(c) ==
  LET call == calls[c]
  IN  /\ call.op = "write" => applicant[call.wallet] # NoApplicant
      /\ call.op = "status" =>
           /\ call.selfie => call.wallet \in selfie
           /\ call.decision = "blocked" => Given(call.wallet, FALSE)
           /\ call.decision = "eligible" /\ (RequireSelfieCheck => call.selfie) =>
                Given(call.wallet, TRUE)

(* A job does what a verdict asked for, and has a bond in hand while it sends. *)
JobInv(w) ==
  jobs[w] # NoJob =>
    /\ Given(w, jobs[w].eligible)
    /\ jobs[w].phase \in {"send", "wait", "mined", "lost"} => jobs[w].todo # <<>>

(* So does what was sent, and what was mined set flags only for a good verdict. *)
SentInv == \A i \in DOMAIN pending : Given(pending[i].wallet, pending[i].eligible)
FlagInv == \A b \in Bonds : isEligible[b] \subseteq wasEligible

Orders ==
  (\A c \in Callers : CallInv(c)) /\ (\A w \in Wallets : JobInv(w)) /\ SentInv /\ FlagInv

IInv == TypeOK /\ VerdictsNoted /\ Orders

(* What a step leaves in place: the history, the Selfie Checks and the applicants. *)
Forward ==
  /\ wasEligible \subseteq wasEligible' /\ wasBlocked \subseteq wasBlocked'
  /\ selfie \subseteq selfie'
  /\ \A w \in Wallets : applicant[w] # NoApplicant => applicant'[w] # NoApplicant

Applicants == {NoApplicant} \cup [review: Reviews, answers: Answers]

-----------------------------------------------------------------------------
LEMMA CallIs ==
  ASSUME TypeOK, NEW c \in Callers
  PROVE  /\ calls[c].op = "status" =>
              /\ calls[c].wallet \in Wallets /\ calls[c].selfie \in BOOLEAN
              /\ calls[c].decision \in Decisions \cup {"unread"}
              /\ calls[c] = [op |-> "status", wallet |-> calls[c].wallet, selfie |-> calls[c].selfie,
                             decision |-> calls[c].decision]
         /\ calls[c].op \in {"create", "write"} =>
              /\ calls[c].wallet \in Wallets /\ calls[c].answers \in Declarations
              /\ calls[c] = [op |-> calls[c].op, wallet |-> calls[c].wallet, answers |-> calls[c].answers]
BY DEF TypeOK, Call, NoCall

LEMMA JobIs ==
  ASSUME TypeOK, NEW w \in Wallets
  PROVE  /\ jobs[w] = NoJob <=> jobs[w].phase = "none"
         /\ jobs[w] # NoJob =>
              /\ jobs[w].phase \in {"list", "view", "send", "wait", "mined", "lost"}
              /\ jobs[w].eligible \in BOOLEAN /\ jobs[w].todo \in Seq(Bonds)
              /\ jobs[w] = [phase |-> jobs[w].phase, eligible |-> jobs[w].eligible, todo |-> jobs[w].todo]
BY DEF TypeOK, Job, NoJob

LEMMA ApplicantIs ==
  ASSUME TypeOK, NEW w \in Wallets
  PROVE  /\ NoApplicant.review = "none" /\ "none" \notin Reviews
         /\ applicant[w] # NoApplicant =>
              /\ applicant[w].review \in Reviews /\ applicant[w].answers \in Answers
              /\ applicant[w] = [review |-> applicant[w].review, answers |-> applicant[w].answers]
BY DEF TypeOK, NoApplicant, Reviews

LEMMA NoAnswersAreAnswers == NoAnswers \in Answers
<1> DEFINE a == [residence |-> Blank, us_person |-> Blank, sanctioned |-> Blank, investor_class |-> Blank,
                 source_of_funds |-> Blank, pep |-> Blank, beneficial_owner |-> Blank]
           F == {"residence", "us_person", "sanctioned", "investor_class", "source_of_funds", "pep",
                 "beneficial_owner"}
<1>1. a \in Answers
  BY DEF Answers, Residences, YesNo, Text
<1>2. (CHOOSE x \in Answers : TRUE) \in Answers
  BY <1>1
<1>3. \A x \in Answers : DOMAIN x = F
  BY DEF Answers
<1>4. NoAnswers = [k \in F |-> Blank]
  BY <1>2, <1>3 DEF NoAnswers
<1>5. [k \in F |-> Blank] = a
  OBVIOUS
<1> QED
  BY <1>1, <1>4, <1>5

LEMMA DecisionIs == \A w \in Wallets : Decision(w) \in Decisions
BY DEF Decision, Evaluate, Decisions

(* The parts of a sequence that grows or shrinks at its ends. *)
LEMMA AppendIs ==
  ASSUME NEW S, NEW s \in Seq(S), NEW e \in S
  PROVE  /\ Append(s, e) \in Seq(S) /\ DOMAIN Append(s, e) = 1 .. Len(s) + 1
         /\ DOMAIN s = 1 .. Len(s) /\ Append(s, e)[Len(s) + 1] = e
         /\ \A i \in 1 .. Len(s) : Append(s, e)[i] = s[i]
OBVIOUS

LEMMA TailIs ==
  ASSUME NEW S, NEW s \in Seq(S), s # <<>>
  PROVE  /\ Tail(s) \in Seq(S) /\ Head(s) \in S /\ 1 \in DOMAIN s /\ s[1] = Head(s)
         /\ \A i \in DOMAIN Tail(s) : i + 1 \in DOMAIN s /\ Tail(s)[i] = s[i + 1]
OBVIOUS

LEMMA UnwaitedIs ==
  ASSUME TypeOK
  PROVE  /\ Unwaited \in Seq(Tx) /\ DOMAIN Unwaited = DOMAIN pending
         /\ \A i \in DOMAIN pending : /\ Unwaited[i].wallet = pending[i].wallet
                                      /\ Unwaited[i].eligible = pending[i].eligible
<1>1. pending \in Seq(Tx) /\ DOMAIN pending = 1 .. Len(pending) /\ Len(pending) \in Nat
  BY DEF TypeOK
<1>2. ASSUME NEW i \in 1 .. Len(pending)
      PROVE  /\ [pending[i] EXCEPT !.waited = FALSE] \in Tx
             /\ [pending[i] EXCEPT !.waited = FALSE].wallet = pending[i].wallet
             /\ [pending[i] EXCEPT !.waited = FALSE].eligible = pending[i].eligible
  <2>1. pending[i] \in Tx
    BY <1>1
  <2> QED
    BY <2>1 DEF Tx
<1>3. Unwaited = [i \in 1 .. Len(pending) |-> [pending[i] EXCEPT !.waited = FALSE]]
  BY <1>1 DEF Unwaited
<1>4. Unwaited \in [1 .. Len(pending) -> Tx]
  BY <1>2, <1>3
<1>5. Unwaited \in Seq(Tx)
  BY <1>1, <1>4
<1>6. ASSUME NEW i \in 1 .. Len(pending)
      PROVE  Unwaited[i].wallet = pending[i].wallet /\ Unwaited[i].eligible = pending[i].eligible
  BY <1>2, <1>3
<1> QED
  BY <1>1, <1>4, <1>5, <1>6

-----------------------------------------------------------------------------
(* What a step does not touch keeps its promise. *)
LEMMA CallKeeps ==
  ASSUME IInv, Forward, NEW c \in Callers, calls'[c] = calls[c]
  PROVE  CallInv(c)'
<1>1. CallInv(c) /\ TypeOK
  BY DEF IInv, Orders
<1>2. CASE calls[c].op = "status"
  BY <1>1, <1>2, CallIs DEF CallInv, Given, Forward
<1>3. CASE calls[c].op # "status"
  BY <1>1, <1>3, CallIs DEF CallInv, Forward
<1> QED
  BY <1>2, <1>3

LEMMA CallDone ==
  ASSUME NEW c \in Callers, calls'[c] = NoCall
  PROVE  CallInv(c)'
BY DEF CallInv, NoCall

LEMMA JobKeeps ==
  ASSUME IInv, Forward, NEW w \in Wallets, jobs'[w] = jobs[w]
  PROVE  JobInv(w)'
<1>1. JobInv(w)
  BY DEF IInv, Orders
<1> QED
  BY <1>1 DEF JobInv, Given, Forward

LEMMA JobDone ==
  ASSUME NEW w \in Wallets, jobs'[w] = NoJob
  PROVE  JobInv(w)'
BY DEF JobInv

LEMMA SentKeeps ==
  ASSUME IInv, Forward, pending' = pending
  PROVE  SentInv'
BY DEF IInv, Orders, SentInv, Given, Forward

LEMMA UnwaitedKeeps ==
  ASSUME IInv, Forward, pending' = Unwaited
  PROVE  SentInv'
BY UnwaitedIs DEF IInv, Orders, SentInv, Given, Forward

LEMMA FlagsKeep ==
  ASSUME IInv, Forward, isEligible' = isEligible
  PROVE  FlagInv'
BY DEF IInv, Orders, FlagInv, Forward

LEMMA CallsTake ==
  ASSUME TypeOK, NEW c \in Callers, NEW call \in Call, calls' = [calls EXCEPT ![c] = call]
  PROVE  /\ calls' \in [Callers -> Call] /\ calls'[c] = call
         /\ \A o \in Callers \ {c} : calls'[o] = calls[o]
BY DEF TypeOK

LEMMA JobsTake ==
  ASSUME TypeOK, NEW w \in Wallets, NEW job \in Job, jobs' = [jobs EXCEPT ![w] = job]
  PROVE  /\ jobs' \in [Wallets -> Job] /\ jobs'[w] = job
         /\ \A v \in Wallets \ {w} : jobs'[v] = jobs[v]
BY DEF TypeOK

LEMMA ApplicantsTake ==
  ASSUME TypeOK, NEW w \in Wallets, NEW r \in Reviews, NEW a \in Answers,
         applicant' = [applicant EXCEPT ![w] = [review |-> r, answers |-> a]]
  PROVE  /\ applicant' \in [Wallets -> Applicants] /\ applicant'[w] # NoApplicant
         /\ \A v \in Wallets : applicant[v] # NoApplicant => applicant'[v] # NoApplicant
<1>1. [review |-> r, answers |-> a].review # NoApplicant.review
  BY DEF NoApplicant, Reviews
<1> QED
  BY <1>1 DEF TypeOK, Applicants

Noted == wasEligible \subseteq wasEligible' /\ wasBlocked \subseteq wasBlocked'

-----------------------------------------------------------------------------
(* The steps of a request. *)
LEMMA StartProfileOrders ==
  ASSUME IInv, Noted, NEW c \in Callers, NEW w \in Wallets, NEW a \in Declarations, StartProfile(c, w, a)
  PROVE  TypeOK' /\ Orders'
<1> DEFINE call == [op |-> IF applicant[w] = NoApplicant THEN "create" ELSE "write",
                    wallet |-> w, answers |-> a]
<1>1. /\ TypeOK /\ calls' = [calls EXCEPT ![c] = call]
      /\ UNCHANGED <<applicant, flowVars, anchored, chainVars, countVars>>
  BY DEF StartProfile, IInv
<1>2. Forward
  BY <1>1 DEF Forward, Noted, flowVars
<1>3. call \in Call /\ call.op # "status" /\ (call.op = "write" => applicant[call.wallet] # NoApplicant)
  <2>1. CASE applicant[w] = NoApplicant
    BY <2>1 DEF Call
  <2>2. CASE applicant[w] # NoApplicant
    BY <2>2 DEF Call
  <2> QED
    BY <2>1, <2>2
<1> HIDE DEF call
<1>4. /\ calls' \in [Callers -> Call] /\ calls'[c] = call
      /\ \A o \in Callers \ {c} : calls'[o] = calls[o]
  BY <1>1, <1>3, CallsTake
<1>5. TypeOK'
  BY <1>1, <1>4 DEF TypeOK, flowVars, chainVars
<1>6. CallInv(c)'
  BY <1>1, <1>3, <1>4 DEF CallInv
<1>7. \A o \in Callers : CallInv(o)'
  BY <1>2, <1>4, <1>6, CallKeeps
<1>8. (\A v \in Wallets : JobInv(v)') /\ SentInv' /\ FlagInv'
  BY <1>1, <1>2, JobKeeps, SentKeeps, FlagsKeep DEF flowVars, chainVars
<1> QED
  BY <1>5, <1>7, <1>8 DEF Orders

LEMMA CreateApplicantOrders ==
  ASSUME IInv, Noted, NEW c \in Callers, CreateApplicant(c)
  PROVE  TypeOK' /\ Orders'
<1> DEFINE w == calls[c].wallet
           call == [op |-> "write", wallet |-> w, answers |-> calls[c].answers]
<1>1. TypeOK /\ calls[c].op = "create" /\ UNCHANGED <<flowVars, anchored, chainVars, countVars>>
  BY DEF CreateApplicant, IInv
<1>2. /\ w \in Wallets /\ calls[c].answers \in Declarations
      /\ calls[c] = [op |-> "create", wallet |-> w, answers |-> calls[c].answers]
  BY <1>1, CallIs
<1>3. call \in Call /\ NoCall \in Call /\ [calls[c] EXCEPT !.op = "write"] = call
  BY <1>2 DEF Call
<1>4. /\ Forward /\ CallInv(c)' /\ applicant' \in [Wallets -> Applicants]
      /\ calls' \in [Callers -> Call] /\ \A o \in Callers \ {c} : calls'[o] = calls[o]
  <2>1. CASE applicant[w] = NoApplicant
    <3>1. /\ applicant' = [applicant EXCEPT ![w] = [review |-> "open", answers |-> NoAnswers]]
          /\ calls' = [calls EXCEPT ![c] = call]
      BY <1>3, <2>1 DEF CreateApplicant
    <3>2. "open" \in Reviews
      BY DEF Reviews
    <3>3. /\ applicant' \in [Wallets -> Applicants] /\ applicant'[w] # NoApplicant
          /\ \A v \in Wallets : applicant[v] # NoApplicant => applicant'[v] # NoApplicant
      BY <1>1, <1>2, <3>1, <3>2, NoAnswersAreAnswers, ApplicantsTake
    <3> HIDE DEF call
    <3>4. /\ calls' \in [Callers -> Call] /\ calls'[c] = call
          /\ \A o \in Callers \ {c} : calls'[o] = calls[o]
      BY <1>1, <1>3, <3>1, CallsTake
    <3>5. CallInv(c)'
      BY <3>3, <3>4 DEF CallInv, call
    <3> QED
      BY <1>1, <3>3, <3>4, <3>5 DEF Forward, Noted, flowVars
  <2>2. CASE applicant[w] # NoApplicant
    <3>1. applicant' = applicant /\ calls' = [calls EXCEPT ![c] = NoCall]
      BY <2>2 DEF CreateApplicant
    <3>2. /\ calls' \in [Callers -> Call] /\ calls'[c] = NoCall
          /\ \A o \in Callers \ {c} : calls'[o] = calls[o]
      BY <1>1, <1>3, <3>1, CallsTake
    <3> QED
      BY <1>1, <3>1, <3>2, CallDone DEF Forward, Noted, flowVars, TypeOK, Applicants
  <2> QED
    BY <2>1, <2>2
<1>5. TypeOK'
  BY <1>1, <1>4 DEF TypeOK, flowVars, chainVars, Applicants
<1>6. \A o \in Callers : CallInv(o)'
  BY <1>4, CallKeeps
<1>7. (\A v \in Wallets : JobInv(v)') /\ SentInv' /\ FlagInv'
  BY <1>1, <1>4, JobKeeps, SentKeeps, FlagsKeep DEF flowVars, chainVars
<1> QED
  BY <1>5, <1>6, <1>7 DEF Orders

(* A status request begins with no verdict and the Selfie Check there is. *)
LEMMA StatusOrders ==
  ASSUME IInv, Noted, NEW c \in Callers, NEW w \in Wallets, calls' = [calls EXCEPT ![c] = StatusOf(w)],
         Forward, applicant' \in [Wallets -> Applicants], UNCHANGED <<flowVars, anchored, chainVars>>
  PROVE  TypeOK' /\ Orders'
<1>1. TypeOK /\ StatusOf(w) \in Call
  BY DEF IInv, StatusOf, Call
<1>2. /\ calls' \in [Callers -> Call] /\ calls'[c] = StatusOf(w)
      /\ \A o \in Callers \ {c} : calls'[o] = calls[o]
  BY <1>1, CallsTake
<1>3. TypeOK'
  BY <1>1, <1>2 DEF TypeOK, flowVars, chainVars, Applicants
<1>4. CallInv(c)'
  BY <1>2 DEF CallInv, StatusOf, flowVars
<1>5. \A o \in Callers : CallInv(o)'
  BY <1>2, <1>4, CallKeeps
<1>6. (\A v \in Wallets : JobInv(v)') /\ SentInv' /\ FlagInv'
  BY JobKeeps, SentKeeps, FlagsKeep DEF flowVars, chainVars
<1> QED
  BY <1>3, <1>5, <1>6 DEF Orders

LEMMA StartStatusOrders ==
  ASSUME IInv, Noted, NEW c \in Callers, NEW w \in Wallets, StartStatus(c, w)
  PROVE  TypeOK' /\ Orders'
<1>1. /\ calls' = [calls EXCEPT ![c] = StatusOf(w)]
      /\ UNCHANGED <<applicant, flowVars, anchored, chainVars>>
  BY DEF StartStatus
<1>2. Forward /\ applicant' \in [Wallets -> Applicants]
  BY <1>1 DEF Forward, Noted, flowVars, IInv, TypeOK, Applicants
<1> QED
  BY <1>1, <1>2, StatusOrders

LEMMA WriteProfileOrders ==
  ASSUME IInv, Noted, NEW c \in Callers, WriteProfile(c)
  PROVE  TypeOK' /\ Orders'
<1> DEFINE w == calls[c].wallet
           a == calls[c].answers
<1>1. /\ TypeOK /\ calls[c].op = "write" /\ UNCHANGED <<flowVars, anchored, chainVars>>
      /\ applicant' = [applicant EXCEPT ![w].answers = a]
      /\ calls' = [calls EXCEPT ![c] = StatusOf(w)]
  BY DEF WriteProfile, IInv
<1>2. w \in Wallets /\ a \in Answers /\ applicant[w] # NoApplicant
  <2>1. w \in Wallets /\ a \in Answers
    BY <1>1, CallIs, KycAssumption
  <2>2. CallInv(c)
    BY DEF IInv, Orders
  <2> QED
    BY <1>1, <2>1, <2>2 DEF CallInv
<1> HIDE DEF w, a
<1>3. /\ applicant[w].review \in Reviews
      /\ applicant[w] = [review |-> applicant[w].review, answers |-> applicant[w].answers]
  BY <1>1, <1>2, ApplicantIs
<1>4. [applicant[w] EXCEPT !.answers = a] = [review |-> applicant[w].review, answers |-> a]
  BY <1>3
<1>5. PICK r \in Reviews : applicant' = [applicant EXCEPT ![w] = [review |-> r, answers |-> a]]
  BY <1>1, <1>3, <1>4
<1>6. /\ applicant' \in [Wallets -> Applicants]
      /\ \A v \in Wallets : applicant[v] # NoApplicant => applicant'[v] # NoApplicant
  BY <1>1, <1>2, <1>5, ApplicantsTake
<1>7. Forward
  BY <1>1, <1>6 DEF Forward, Noted, flowVars
<1> QED
  BY <1>1, <1>2, <1>6, <1>7, StatusOrders

(* The verdict read is noted as long as the Selfie Check read is still there. *)
LEMMA ReadApplicantOrders ==
  ASSUME IInv, Noted, NEW c \in Callers, ReadApplicant(c)
  PROVE  TypeOK' /\ Orders'
<1> DEFINE w == calls[c].wallet
           call == [op |-> "status", wallet |-> w, selfie |-> calls[c].selfie, decision |-> Decision(w)]
<1>1. /\ TypeOK /\ calls[c].op = "status"
      /\ UNCHANGED <<applicant, flowVars, anchored, chainVars, countVars>>
      /\ calls' = [calls EXCEPT ![c] =
           IF applicant[w] = NoApplicant THEN NoCall ELSE [calls[c] EXCEPT !.decision = Decision(w)]]
  BY DEF ReadApplicant, IInv
<1>2. /\ w \in Wallets /\ calls[c].selfie \in BOOLEAN
      /\ calls[c] = [op |-> "status", wallet |-> w, selfie |-> calls[c].selfie, decision |-> calls[c].decision]
  BY <1>1, CallIs
<1>3. call \in Call /\ NoCall \in Call /\ [calls[c] EXCEPT !.decision = Decision(w)] = call
  BY <1>2, DecisionIs DEF Call
<1>4. Forward
  BY <1>1 DEF Forward, Noted, flowVars
<1>5. /\ CallInv(c)' /\ calls' \in [Callers -> Call]
      /\ \A o \in Callers \ {c} : calls'[o] = calls[o]
  <2>1. CASE applicant[w] = NoApplicant
    <3>1. calls' = [calls EXCEPT ![c] = NoCall]
      BY <1>1, <2>1
    <3> QED
      BY <1>1, <1>3, <3>1, CallsTake, CallDone
  <2>2. CASE applicant[w] # NoApplicant
    <3>1. calls' = [calls EXCEPT ![c] = call]
      BY <1>1, <1>3, <2>2
    <3>2. /\ calls[c].selfie => w \in selfie
          /\ call.decision = "blocked" => w \in wasBlocked
          /\ call.decision = "eligible" /\ (RequireSelfieCheck => calls[c].selfie) => w \in wasEligible
      <4>1. calls[c].selfie => w \in selfie
        BY <1>1 DEF IInv, Orders, CallInv
      <4>2. (Qualifies(w) => w \in wasEligible) /\ (Rejected(w) => w \in wasBlocked)
        BY <1>2 DEF IInv, VerdictsNoted, Given
      <4> QED
        BY <2>2, <4>1, <4>2 DEF Qualifies, Rejected
    <3> HIDE DEF call
    <3>3. /\ calls' \in [Callers -> Call] /\ calls'[c] = call
          /\ \A o \in Callers \ {c} : calls'[o] = calls[o]
      BY <1>1, <1>3, <3>1, CallsTake
    <3>4. call.op = "status" /\ call.wallet = w /\ call.selfie = calls[c].selfie
      BY DEF call
    <3>5. CallInv(c)'
      BY <1>4, <3>2, <3>3, <3>4 DEF CallInv, Given, Forward
    <3> QED
      BY <3>3, <3>5
  <2> QED
    BY <2>1, <2>2
<1>6. TypeOK'
  BY <1>1, <1>5 DEF TypeOK, flowVars, chainVars
<1>7. \A o \in Callers : CallInv(o)'
  BY <1>4, <1>5, CallKeeps
<1>8. (\A v \in Wallets : JobInv(v)') /\ SentInv' /\ FlagInv'
  BY <1>1, <1>4, JobKeeps, SentKeeps, FlagsKeep DEF flowVars, chainVars
<1> QED
  BY <1>6, <1>7, <1>8 DEF Orders

(* A job starts on the verdict its request read. *)
LEMMA DecideOrders ==
  ASSUME IInv, Noted, NEW c \in Callers, Decide(c)
  PROVE  TypeOK' /\ Orders'
<1> DEFINE w == calls[c].wallet
<1>1. /\ TypeOK /\ calls[c].op = "status" /\ calls' = [calls EXCEPT ![c] = NoCall]
      /\ UNCHANGED <<applicant, granted, fresh, selfie, anchored, chainVars>>
  BY DEF Decide, IInv
<1>2. w \in Wallets
  BY <1>1, CallIs
<1>3. Forward
  BY <1>1 DEF Forward, Noted
<1>4. \/ jobs' = jobs
      \/ \E e \in BOOLEAN : Given(w, e) /\ jobs' = [jobs EXCEPT ![w] = NewJob(e)]
  <2>1. /\ calls[c].decision = "blocked" => Given(w, FALSE)
        /\ calls[c].decision = "eligible" /\ (RequireSelfieCheck => calls[c].selfie) => Given(w, TRUE)
    BY <1>1 DEF IInv, Orders, CallInv
  <2>2. CASE calls[c].decision = "blocked"
    BY <2>1, <2>2 DEF Decide, EnsureRevoked
  <2>3. CASE calls[c].decision = "eligible" /\ ~(RequireSelfieCheck /\ ~calls[c].selfie)
    BY <2>1, <2>3 DEF Decide, EnsureGranted
  <2>4. CASE calls[c].decision # "blocked"
             /\ ~(calls[c].decision = "eligible" /\ ~(RequireSelfieCheck /\ ~calls[c].selfie))
    BY <2>4 DEF Decide
  <2> QED
    BY <2>2, <2>3, <2>4
<1>5. jobs' \in [Wallets -> Job] /\ \A v \in Wallets : JobInv(v)'
  <2>1. CASE jobs' = jobs
    BY <1>1, <1>3, <2>1, JobKeeps DEF TypeOK
  <2>2. ASSUME NEW e \in BOOLEAN, Given(w, e), jobs' = [jobs EXCEPT ![w] = NewJob(e)]
        PROVE  jobs' \in [Wallets -> Job] /\ \A v \in Wallets : JobInv(v)'
    <3>1. NewJob(e) \in Job /\ NewJob(e).eligible = e /\ NewJob(e).phase = "list"
      BY DEF NewJob, Job
    <3>2. /\ jobs' \in [Wallets -> Job] /\ jobs'[w] = NewJob(e)
          /\ \A v \in Wallets \ {w} : jobs'[v] = jobs[v]
      BY <1>1, <1>2, <2>2, <3>1, JobsTake
    <3>3. ASSUME NEW v \in Wallets, v = w PROVE JobInv(v)'
      BY <1>3, <2>2, <3>1, <3>2, <3>3 DEF JobInv, Given, Forward
    <3> QED
      BY <1>3, <3>2, <3>3, JobKeeps
  <2> QED
    BY <1>4, <2>1, <2>2
<1>6. /\ calls' \in [Callers -> Call] /\ calls'[c] = NoCall
      /\ \A o \in Callers \ {c} : calls'[o] = calls[o]
  BY <1>1, CallsTake DEF Call
<1>7. TypeOK'
  BY <1>1, <1>5, <1>6 DEF TypeOK, chainVars
<1>8. \A o \in Callers : CallInv(o)'
  BY <1>3, <1>6, CallKeeps, CallDone
<1>9. SentInv' /\ FlagInv'
  BY <1>1, <1>3, SentKeeps, FlagsKeep DEF chainVars
<1> QED
  BY <1>5, <1>7, <1>8, <1>9 DEF Orders

-----------------------------------------------------------------------------
(* The steps of a job: it keeps its verdict. *)
Sends == {"send", "wait", "mined", "lost"}

LEMMA JobMoves ==
  ASSUME IInv, Forward, UNCHANGED calls, NEW w \in Wallets, NEW job \in Job,
         jobs' = [jobs EXCEPT ![w] = job],
         job # NoJob => /\ jobs[w] # NoJob /\ job.eligible = jobs[w].eligible
                        /\ job.phase \in Sends => job.todo # <<>>
  PROVE  /\ jobs' \in [Wallets -> Job]
         /\ (\A c \in Callers : CallInv(c)') /\ (\A v \in Wallets : JobInv(v)')
<1>1. /\ jobs' \in [Wallets -> Job] /\ jobs'[w] = job
      /\ \A v \in Wallets \ {w} : jobs'[v] = jobs[v]
  BY JobsTake DEF IInv
<1>2. JobInv(w)
  BY DEF IInv, Orders
<1>3. JobInv(w)'
  BY <1>1, <1>2 DEF JobInv, Given, Forward, Sends
<1> QED
  BY <1>1, <1>3, JobKeeps, CallKeeps

LEMMA JobListOrders ==
  ASSUME IInv, Noted, NEW w \in Wallets, JobList(w)
  PROVE  TypeOK' /\ Orders'
<1> DEFINE job == [phase |-> "view", eligible |-> jobs[w].eligible, todo |-> listed]
<1>1. /\ TypeOK /\ jobs[w].phase = "list"
      /\ jobs' = [jobs EXCEPT ![w] = job]
      /\ UNCHANGED <<applicant, calls, granted, fresh, selfie, anchored, chainVars>>
  BY DEF JobList, IInv
<1>2. jobs[w] # NoJob /\ jobs[w].eligible \in BOOLEAN
  BY <1>1, JobIs
<1>3. job \in Job /\ job.eligible = jobs[w].eligible /\ job.phase \notin Sends
  BY <1>1, <1>2 DEF Job, TypeOK, Sends
<1> HIDE DEF job
<1>4. Forward
  BY <1>1 DEF Forward, Noted
<1>5. /\ jobs' \in [Wallets -> Job]
      /\ (\A c \in Callers : CallInv(c)') /\ (\A v \in Wallets : JobInv(v)')
  BY <1>1, <1>2, <1>3, <1>4, JobMoves
<1>6. TypeOK' /\ SentInv' /\ FlagInv'
  BY <1>1, <1>4, <1>5, SentKeeps, FlagsKeep DEF TypeOK, chainVars
<1> QED
  BY <1>5, <1>6 DEF Orders

LEMMA JobViewOrders ==
  ASSUME IInv, Noted, NEW w \in Wallets, JobView(w)
  PROVE  TypeOK' /\ Orders'
<1>1. /\ TypeOK /\ jobs[w].phase = "view" /\ jobs[w].todo # <<>>
      /\ \/ jobs' = [jobs EXCEPT ![w].todo = Tail(@)]
         \/ jobs' = [jobs EXCEPT ![w].phase = "send"]
      /\ UNCHANGED <<applicant, calls, granted, fresh, selfie, anchored, chainVars>>
  BY DEF JobView, Phase, IInv
<1>2. /\ jobs[w] # NoJob /\ jobs[w].eligible \in BOOLEAN /\ jobs[w].todo \in Seq(Bonds)
      /\ jobs[w] = [phase |-> "view", eligible |-> jobs[w].eligible, todo |-> jobs[w].todo]
  BY <1>1, JobIs
<1>3. Forward
  BY <1>1 DEF Forward, Noted
<1>4. PICK job \in Job :
        /\ jobs' = [jobs EXCEPT ![w] = job] /\ job.eligible = jobs[w].eligible
        /\ job.phase \in Sends => job.todo # <<>>
  <2>1. CASE jobs' = [jobs EXCEPT ![w].todo = Tail(@)]
    <3>1. PICK t \in Seq(Bonds) : t = Tail(jobs[w].todo)
      BY <1>1, <1>2, TailIs
    <3> DEFINE j == [phase |-> "view", eligible |-> jobs[w].eligible, todo |-> t]
    <3>2. [jobs[w] EXCEPT !.todo = t] = j
      BY <1>2
    <3>3. j \in Job /\ j.eligible = jobs[w].eligible /\ j.phase \notin Sends
      BY <1>2 DEF Job, Sends
    <3>4. jobs' = [jobs EXCEPT ![w] = j]
      BY <2>1, <3>1, <3>2
    <3> QED
      BY <3>3, <3>4
  <2>2. CASE jobs' = [jobs EXCEPT ![w].phase = "send"]
    <3> DEFINE j == [phase |-> "send", eligible |-> jobs[w].eligible, todo |-> jobs[w].todo]
    <3>1. [jobs[w] EXCEPT !.phase = "send"] = j
      BY <1>2
    <3>2. j \in Job /\ j.eligible = jobs[w].eligible /\ j.todo # <<>>
      BY <1>1, <1>2 DEF Job
    <3>3. jobs' = [jobs EXCEPT ![w] = j]
      BY <2>2, <3>1
    <3> QED
      BY <3>2, <3>3
  <2> QED
    BY <1>1, <2>1, <2>2
<1>5. /\ jobs' \in [Wallets -> Job]
      /\ (\A c \in Callers : CallInv(c)') /\ (\A v \in Wallets : JobInv(v)')
  BY <1>1, <1>2, <1>3, <1>4, JobMoves
<1>6. TypeOK' /\ SentInv' /\ FlagInv'
  BY <1>1, <1>3, <1>5, SentKeeps, FlagsKeep DEF TypeOK, chainVars
<1> QED
  BY <1>5, <1>6 DEF Orders

LEMMA JobSendOrders ==
  ASSUME IInv, Noted, NEW w \in Wallets, JobSend(w)
  PROVE  TypeOK' /\ Orders'
<1> DEFINE job == [phase |-> "wait", eligible |-> jobs[w].eligible, todo |-> jobs[w].todo]
           tx == [wallet |-> w, bond |-> Head(jobs[w].todo), eligible |-> jobs[w].eligible, waited |-> TRUE]
<1>1. /\ TypeOK /\ jobs[w].phase = "send" /\ jobs' = [jobs EXCEPT ![w].phase = "wait"]
      /\ pending' = Append(pending, tx)
      /\ UNCHANGED <<applicant, calls, granted, fresh, selfie, anchored, listed, isEligible>>
  BY DEF JobSend, Phase, IInv
<1>2. /\ jobs[w] # NoJob /\ jobs[w].eligible \in BOOLEAN /\ jobs[w].todo \in Seq(Bonds)
      /\ jobs[w] = [phase |-> "send", eligible |-> jobs[w].eligible, todo |-> jobs[w].todo]
  BY <1>1, JobIs
<1>3. Forward /\ JobInv(w)
  BY <1>1 DEF Forward, Noted, IInv, Orders
<1>4. jobs[w].todo # <<>> /\ Given(w, jobs[w].eligible)
  BY <1>1, <1>2, <1>3 DEF JobInv
<1>5. tx \in Tx /\ tx.wallet = w /\ tx.eligible = jobs[w].eligible
  <2>1. Head(jobs[w].todo) \in Bonds
    BY <1>2, <1>4, TailIs
  <2> QED
    BY <1>2, <2>1 DEF Tx
<1>6. [jobs[w] EXCEPT !.phase = "wait"] = job
  BY <1>2
<1>7. job \in Job /\ job.eligible = jobs[w].eligible /\ job.todo # <<>> /\ jobs' = [jobs EXCEPT ![w] = job]
  BY <1>1, <1>2, <1>4, <1>6 DEF Job
<1> HIDE DEF job, tx
<1>8. /\ jobs' \in [Wallets -> Job]
      /\ (\A c \in Callers : CallInv(c)') /\ (\A v \in Wallets : JobInv(v)')
  BY <1>1, <1>2, <1>3, <1>7, JobMoves
<1>9. /\ pending' \in Seq(Tx) /\ DOMAIN pending' = 1 .. Len(pending) + 1
      /\ DOMAIN pending = 1 .. Len(pending) /\ pending'[Len(pending) + 1] = tx
      /\ \A i \in 1 .. Len(pending) : pending'[i] = pending[i]
  BY <1>1, <1>5, AppendIs DEF TypeOK
<1>10. \A i \in DOMAIN pending' : i \in DOMAIN pending \/ i = Len(pending) + 1
  <2>1. Len(pending) \in Nat
    BY <1>1 DEF TypeOK
  <2> QED
    BY <1>9, <2>1
<1>11. SentInv'
  BY <1>3, <1>4, <1>5, <1>9, <1>10 DEF SentInv, Given, Forward, IInv, Orders
<1>12. TypeOK' /\ FlagInv'
  BY <1>1, <1>3, <1>8, <1>9, FlagsKeep DEF TypeOK
<1> QED
  BY <1>8, <1>11, <1>12 DEF Orders

LEMMA JobSeenOrders ==
  ASSUME IInv, Noted, NEW w \in Wallets, JobSeen(w)
  PROVE  TypeOK' /\ Orders'
<1> DEFINE job == [phase |-> "view", eligible |-> jobs[w].eligible, todo |-> Tail(jobs[w].todo)]
<1>1. /\ TypeOK /\ jobs[w].phase = "mined"
      /\ jobs' = [jobs EXCEPT ![w] = job]
      /\ UNCHANGED <<applicant, calls, granted, fresh, selfie, anchored, chainVars>>
  BY DEF JobSeen, IInv
<1>2. /\ jobs[w] # NoJob /\ jobs[w].eligible \in BOOLEAN /\ jobs[w].todo \in Seq(Bonds)
      /\ jobs[w] = [phase |-> "mined", eligible |-> jobs[w].eligible, todo |-> jobs[w].todo]
  BY <1>1, JobIs
<1>3. Forward /\ JobInv(w)
  BY <1>1 DEF Forward, Noted, IInv, Orders
<1>4. Tail(jobs[w].todo) \in Seq(Bonds)
  BY <1>1, <1>2, <1>3, TailIs DEF JobInv
<1>5. job \in Job /\ job.eligible = jobs[w].eligible /\ job.phase \notin Sends
  BY <1>2, <1>4 DEF Job, Sends
<1> HIDE DEF job
<1>6. /\ jobs' \in [Wallets -> Job]
      /\ (\A c \in Callers : CallInv(c)') /\ (\A v \in Wallets : JobInv(v)')
  BY <1>1, <1>2, <1>3, <1>5, JobMoves
<1>7. TypeOK' /\ SentInv' /\ FlagInv'
  BY <1>1, <1>3, <1>6, SentKeeps, FlagsKeep DEF TypeOK, chainVars
<1> QED
  BY <1>6, <1>7 DEF Orders

(* What a job sent stays sent when the job ends. *)
LEMMA JobFailOrders ==
  ASSUME IInv, Noted, NEW w \in Wallets, JobFail(w)
  PROVE  TypeOK' /\ Orders'
<1>1. /\ TypeOK /\ jobs' = [jobs EXCEPT ![w] = NoJob] /\ pending' \in {pending, Unwaited}
      /\ UNCHANGED <<applicant, calls, granted, fresh, selfie, anchored, listed, isEligible>>
  BY DEF JobFail, IInv
<1>2. Forward /\ NoJob \in Job
  BY <1>1 DEF Forward, Noted, Job
<1>3. /\ jobs' \in [Wallets -> Job]
      /\ (\A c \in Callers : CallInv(c)') /\ (\A v \in Wallets : JobInv(v)')
  BY <1>1, <1>2, JobMoves
<1>4. pending' \in Seq(Tx) /\ SentInv'
  BY <1>1, <1>2, UnwaitedIs, UnwaitedKeeps, SentKeeps DEF TypeOK
<1>5. TypeOK' /\ FlagInv'
  BY <1>1, <1>2, <1>3, <1>4, FlagsKeep DEF TypeOK
<1> QED
  BY <1>3, <1>4, <1>5 DEF Orders

LEMMA JobFinishOrders ==
  ASSUME IInv, Noted, NEW w \in Wallets, JobFinish(w)
  PROVE  TypeOK' /\ Orders'
<1>1. /\ TypeOK /\ jobs' = [jobs EXCEPT ![w] = NoJob]
      /\ \/ granted' = granted \cup {w} /\ fresh' = fresh \cup {w}
         \/ granted' = granted \ {w} /\ fresh' = fresh \ {w}
      /\ UNCHANGED <<applicant, calls, selfie, anchored, chainVars>>
  BY DEF JobFinish, IInv
<1>2. Forward /\ NoJob \in Job
  BY <1>1 DEF Forward, Noted, Job
<1>3. /\ jobs' \in [Wallets -> Job]
      /\ (\A c \in Callers : CallInv(c)') /\ (\A v \in Wallets : JobInv(v)')
  BY <1>1, <1>2, JobMoves
<1>4. granted' \subseteq Wallets /\ fresh' \subseteq granted'
  BY <1>1 DEF TypeOK
<1>5. TypeOK' /\ SentInv' /\ FlagInv'
  BY <1>1, <1>2, <1>3, <1>4, SentKeeps, FlagsKeep DEF TypeOK, chainVars
<1> QED
  BY <1>3, <1>5 DEF Orders

-----------------------------------------------------------------------------
(* What is served tells the job that waits for it, and leaves its verdict. *)
LEMMA ServedOrders ==
  ASSUME IInv, Forward, UNCHANGED calls, NEW p \in {"mined", "lost"}, Served(p)
  PROVE  /\ jobs' \in [Wallets -> Job] /\ pending' \in Seq(Tx)
         /\ (\A c \in Callers : CallInv(c)') /\ (\A w \in Wallets : JobInv(w)') /\ SentInv'
<1>1. /\ TypeOK /\ pending \in Seq(Tx) /\ pending # <<>> /\ pending' = Tail(pending)
      /\ jobs' = [w \in Wallets |->
           IF Head(pending).waited /\ HoldsLock(w) THEN [jobs[w] EXCEPT !.phase = p] ELSE jobs[w]]
  BY DEF IInv, TypeOK, Served
<1>2. /\ pending' \in Seq(Tx)
      /\ \A i \in DOMAIN pending' : i + 1 \in DOMAIN pending /\ pending'[i] = pending[i + 1]
  BY <1>1, TailIs
<1>3. SentInv'
  BY <1>2 DEF IInv, Orders, SentInv, Given, Forward
<1>4. ASSUME NEW w \in Wallets PROVE jobs'[w] \in Job /\ JobInv(w)'
  <2>1. CASE jobs'[w] = jobs[w]
    BY <1>1, <2>1, JobKeeps DEF TypeOK
  <2>2. CASE HoldsLock(w) /\ jobs'[w] = [jobs[w] EXCEPT !.phase = p]
    <3>1. jobs[w].phase \in Sends /\ jobs[w].phase # "none"
      BY <2>2 DEF HoldsLock, Sends
    <3>2. /\ jobs[w] # NoJob /\ jobs[w].eligible \in BOOLEAN /\ jobs[w].todo \in Seq(Bonds)
          /\ jobs[w] = [phase |-> jobs[w].phase, eligible |-> jobs[w].eligible, todo |-> jobs[w].todo]
      BY <1>1, <3>1, JobIs
    <3>3. jobs'[w] = [phase |-> p, eligible |-> jobs[w].eligible, todo |-> jobs[w].todo]
      BY <2>2, <3>2
    <3>4. jobs[w].todo # <<>> /\ Given(w, jobs[w].eligible)
      BY <3>1, <3>2 DEF IInv, Orders, JobInv, Sends
    <3>5. JobInv(w)'
      BY <3>3, <3>4 DEF JobInv, Given, Forward
    <3>6. jobs'[w] \in Job
      BY <3>2, <3>3 DEF Job
    <3> QED
      BY <3>5, <3>6
  <2> QED
    BY <1>1, <2>1, <2>2
<1>5. jobs' \in [Wallets -> Job]
  BY <1>1, <1>4
<1>6. \A c \in Callers : CallInv(c)'
  BY CallKeeps
<1> QED
  BY <1>2, <1>3, <1>4, <1>5, <1>6

LEMMA MineHeadOrders ==
  ASSUME IInv, Noted, MineHead
  PROVE  TypeOK' /\ Orders'
<1> DEFINE tx == Head(pending)
<1>1. /\ TypeOK /\ Served("mined") /\ pending # <<>>
      /\ isEligible' = [isEligible EXCEPT ![tx.bond] =
           IF tx.eligible THEN isEligible[tx.bond] \cup {tx.wallet} ELSE isEligible[tx.bond] \ {tx.wallet}]
      /\ UNCHANGED <<applicant, calls, granted, fresh, selfie, anchored, listed>>
  BY DEF MineHead, Served, IInv
<1>2. Forward
  BY <1>1 DEF Forward, Noted
<1>3. /\ jobs' \in [Wallets -> Job] /\ pending' \in Seq(Tx)
      /\ (\A c \in Callers : CallInv(c)') /\ (\A w \in Wallets : JobInv(w)') /\ SentInv'
  BY <1>1, <1>2, ServedOrders
<1>4. tx \in Tx /\ 1 \in DOMAIN pending /\ pending[1] = tx
  BY <1>1, TailIs DEF TypeOK
<1>5. tx.wallet \in Wallets /\ tx.bond \in Bonds /\ (tx.eligible => tx.wallet \in wasEligible)
  BY <1>4 DEF Tx, IInv, Orders, SentInv, Given
<1> HIDE DEF tx
<1>6. isEligible' \in [Bonds -> SUBSET Wallets]
  BY <1>1, <1>5 DEF TypeOK
<1>7. \A b \in Bonds : isEligible'[b] \subseteq isEligible[b] \cup (IF tx.eligible THEN {tx.wallet} ELSE {})
  BY <1>1, <1>5 DEF TypeOK
<1>8. FlagInv'
  BY <1>2, <1>5, <1>7 DEF FlagInv, Forward, IInv, Orders
<1>9. TypeOK'
  BY <1>1, <1>3, <1>6 DEF TypeOK
<1> QED
  BY <1>3, <1>8, <1>9 DEF Orders

LEMMA DropHeadOrders ==
  ASSUME IInv, Noted, DropHead
  PROVE  TypeOK' /\ Orders'
<1>1. /\ TypeOK /\ Served("lost")
      /\ UNCHANGED <<applicant, calls, granted, fresh, selfie, anchored, listed, isEligible>>
  BY DEF DropHead, IInv
<1>2. Forward
  BY <1>1 DEF Forward, Noted
<1>3. /\ jobs' \in [Wallets -> Job] /\ pending' \in Seq(Tx)
      /\ (\A c \in Callers : CallInv(c)') /\ (\A w \in Wallets : JobInv(w)') /\ SentInv'
  BY <1>1, <1>2, ServedOrders
<1>4. TypeOK' /\ FlagInv'
  BY <1>1, <1>2, <1>3, FlagsKeep DEF TypeOK
<1> QED
  BY <1>3, <1>4 DEF Orders

(* The steps that are nobody's order. *)
LEMMA OtherOrders ==
  ASSUME IInv, Noted,
         \/ \E w \in Wallets : Expire(w) \/ \E onTopic \in BOOLEAN : SetSelfieCheck(w, onTopic)
         \/ \E b \in Bonds : ListBond(b)
  PROVE  TypeOK' /\ Orders'
<1>1. /\ TypeOK /\ UNCHANGED <<applicant, calls, granted, jobs, isEligible, pending>>
      /\ selfie \subseteq selfie'
  BY DEF Expire, SetSelfieCheck, ListBond, flowVars, chainVars, IInv
<1>2. Forward
  BY <1>1 DEF Forward, Noted
<1>3. Orders'
  BY <1>1, <1>2, CallKeeps, JobKeeps, SentKeeps, FlagsKeep DEF Orders
<1>4. fresh' \subseteq fresh /\ selfie' \subseteq Wallets /\ anchored' \subseteq selfie'
  BY <1>1 DEF Expire, SetSelfieCheck, ListBond, flowVars, TypeOK
<1>5. listed' \in Seq(Bonds) /\ IsInjective(listed')
  <2>1. CASE listed' = listed
    BY <1>1, <2>1 DEF TypeOK
  <2>2. ASSUME NEW b \in Bonds, ListBond(b) PROVE listed' \in Seq(Bonds) /\ IsInjective(listed')
    <3>1. listed \in Seq(Bonds) /\ Len(listed) \in Nat /\ DOMAIN listed = 1 .. Len(listed)
      BY <1>1 DEF TypeOK
    <3>2. listed' = Append(listed, b) /\ \A i \in 1 .. Len(listed) : listed[i] # b
      BY <2>2 DEF ListBond, Contains
    <3>3. /\ listed' \in Seq(Bonds) /\ DOMAIN listed' = 1 .. Len(listed) + 1
          /\ listed'[Len(listed) + 1] = b /\ \A i \in 1 .. Len(listed) : listed'[i] = listed[i]
      BY <3>1, <3>2, AppendIs
    <3>4. \A i, j \in 1 .. Len(listed) : listed[i] = listed[j] => i = j
      BY <1>1, <3>1 DEF TypeOK, IsInjective
    <3>5. \A i \in 1 .. Len(listed) + 1 : i \in 1 .. Len(listed) \/ i = Len(listed) + 1
      BY <3>1
    <3> QED
      BY <3>2, <3>3, <3>4, <3>5 DEF IsInjective
  <2> QED
    BY <2>1, <2>2 DEF Expire, SetSelfieCheck, chainVars
<1>6. TypeOK'
  BY <1>1, <1>4, <1>5 DEF TypeOK
<1> QED
  BY <1>3, <1>6

LEMMA ReviewOrders ==
  ASSUME IInv, Noted, NEW w \in Wallets, NEW r \in Reviews, Review(w, r)
  PROVE  TypeOK' /\ Orders'
<1>1. /\ TypeOK /\ applicant[w] # NoApplicant
      /\ applicant' = [applicant EXCEPT ![w].review = r]
      /\ UNCHANGED <<calls, flowVars, anchored, chainVars>>
  BY DEF Review, IInv
<1>2. /\ applicant[w].answers \in Answers
      /\ applicant[w] = [review |-> applicant[w].review, answers |-> applicant[w].answers]
  BY <1>1, ApplicantIs
<1>3. [applicant[w] EXCEPT !.review = r] = [review |-> r, answers |-> applicant[w].answers]
  <2>1. \A x, a : x = [review |-> x.review, answers |-> a] =>
          [x EXCEPT !.review = r] = [review |-> r, answers |-> a]
    OBVIOUS
  <2> QED
    BY <1>2, <2>1
<1>4. PICK a \in Answers : applicant' = [applicant EXCEPT ![w] = [review |-> r, answers |-> a]]
  <2>1. applicant' = [applicant EXCEPT ![w] = [applicant[w] EXCEPT !.review = r]]
    BY <1>1
  <2> QED
    BY <1>2, <1>3, <2>1
<1>5. /\ applicant' \in [Wallets -> Applicants]
      /\ \A v \in Wallets : applicant[v] # NoApplicant => applicant'[v] # NoApplicant
  <2>1. TypeOK
    BY <1>1
  <2> QED
    BY <1>4, <2>1, ApplicantsTake
<1>6. Forward
  BY <1>1, <1>5 DEF Forward, Noted, flowVars
<1>7. Orders'
  BY <1>1, <1>6, CallKeeps, JobKeeps, SentKeeps, FlagsKeep DEF Orders, flowVars, chainVars
<1>8. TypeOK'
  BY <1>1, <1>5 DEF TypeOK, Applicants, flowVars, chainVars
<1> QED
  BY <1>7, <1>8

(* A new process has nothing in hand; what the last one sent is still there. *)
LEMMA RestartOrders ==
  ASSUME IInv, Noted, Restart
  PROVE  TypeOK' /\ Orders'
<1>1. /\ TypeOK /\ granted' = {} /\ fresh' = {} /\ selfie' = anchored
      /\ jobs' = [w \in Wallets |-> NoJob] /\ calls' = [c \in Callers |-> NoCall] /\ pending' = Unwaited
      /\ UNCHANGED <<applicant, anchored, listed, isEligible>>
  BY DEF Restart, IInv
<1>2. /\ \A c \in Callers : calls'[c] = NoCall
      /\ \A w \in Wallets : jobs'[w] = NoJob
  BY <1>1
<1>3. (\A c \in Callers : CallInv(c)') /\ (\A w \in Wallets : JobInv(w)')
  BY <1>2, CallDone, JobDone
<1>4. SentInv' /\ FlagInv'
  BY <1>1, UnwaitedIs DEF Noted, IInv, Orders, SentInv, FlagInv, Given
<1>5. pending' \in Seq(Tx)
  BY <1>1, UnwaitedIs
<1>6. jobs' \in [Wallets -> Job] /\ calls' \in [Callers -> Call]
  BY <1>1 DEF Job, Call
<1>7. TypeOK'
  BY <1>1, <1>5, <1>6 DEF TypeOK
<1> QED
  BY <1>3, <1>4, <1>7 DEF Orders

-----------------------------------------------------------------------------
LEMMA KycInit == Init => IInv
<1> SUFFICES ASSUME Init PROVE IInv
  OBVIOUS
<1>1. TypeOK
  BY DEF Init, TypeOK, Call, Job, IsInjective
<1>2. VerdictsNoted
  BY DEF Init, VerdictsNoted, Qualifies, Rejected
<1>3. (\A c \in Callers : CallInv(c)) /\ (\A w \in Wallets : JobInv(w))
  BY DEF Init, CallInv, NoCall, JobInv
<1>4. SentInv /\ FlagInv
  BY DEF Init, SentInv, FlagInv
<1> QED
  BY <1>1, <1>2, <1>3, <1>4 DEF IInv, Orders

LEMMA KycStep ==
  ASSUME IInv, [Next]_vars
  PROVE  IInv'
<1>1. CASE UNCHANGED vars
  <2>1. Noted /\ Forward
    BY <1>1 DEF vars, flowVars, Noted, Forward
  <2>2. Orders'
    BY <1>1, <2>1, CallKeeps, JobKeeps, SentKeeps, FlagsKeep DEF Orders, vars, flowVars, chainVars
  <2>3. TypeOK' /\ VerdictsNoted'
    BY <1>1 DEF IInv, TypeOK, VerdictsNoted, Given, Qualifies, Rejected, Decision, vars, flowVars, chainVars
  <2> QED
    BY <2>2, <2>3 DEF IInv
<1>2. CASE Next
  <2>1. /\ Step
        /\ wasEligible' = wasEligible \cup {w \in Wallets : Qualifies(w)'}
        /\ wasBlocked' = wasBlocked \cup {w \in Wallets : Rejected(w)'}
    BY <1>2 DEF Next
  <2>2. Noted
    BY <2>1 DEF Noted
  <2>3. VerdictsNoted'
    BY <2>1 DEF VerdictsNoted, Given
  <2>4. ASSUME NEW c \in Callers, CallStep(c) PROVE TypeOK' /\ Orders'
    BY <2>2, <2>4, CreateApplicantOrders, WriteProfileOrders, ReadApplicantOrders, DecideOrders DEF CallStep
  <2>5. ASSUME NEW w \in Wallets, JobStep(w) \/ JobFail(w) PROVE TypeOK' /\ Orders'
    BY <2>2, <2>5, JobListOrders, JobViewOrders, JobSendOrders, JobSeenOrders, JobFinishOrders, JobFailOrders
    DEF JobStep
  <2>6. TypeOK' /\ Orders'
    BY <2>1, <2>2, <2>4, <2>5, StartProfileOrders, StartStatusOrders, MineHeadOrders, DropHeadOrders,
       OtherOrders, ReviewOrders, RestartOrders
    DEF Step
  <2> QED
    BY <2>3, <2>6 DEF IInv
<1> QED
  BY <1>1, <1>2

LEMMA KycPromises == IInv => KycInv
BY DEF IInv, Orders, SentInv, FlagInv, Given, KycInv, TxsFollowVerdicts, Flagged

(* Every flag on chain, and every transaction on its way to set or clear one,
   goes back to a moment at which the policy, and the Selfie Check when it is
   required, said so of that wallet (flow.go:138-173, granter.go:102-124). *)
THEOREM FlagsFollowVerdicts == Spec => []KycInv
<1>1. Spec => []IInv
  BY KycInit, KycStep, PTL DEF Spec
<1> QED
  BY <1>1, KycPromises, PTL
=============================================================================
