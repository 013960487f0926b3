-------------------------------- MODULE Policy --------------------------------
(***************************************************************************)
(* The suitability policy (apps/api/internal/kyc/policy.go): a pure function *)
(* from a review and the questionnaire's answers to a decision.  An answer   *)
(* is reduced to what the policy can tell apart.                             *)
(***************************************************************************)
EXTENDS Integers, Sequences

Blank == "blank"

(* Review.Answer with Review.RejectType: nothing, GREEN, RED, RED and FINAL. *)
Reviews == {"open", "green", "retry", "final"}

\* isTrue: "true", "yes" and "1" are yes; whatever else is given is not.
YesNo == {Blank, "yes", "no", "unclear"}
Text == {Blank, "given"}
Residences == {Blank, "ok", "sanctioned"}

(* The required answers; all others are ignored. *)
Answers ==
  [residence: Residences, us_person: YesNo, sanctioned: YesNo,
   investor_class: Text, source_of_funds: Text, pep: YesNo, beneficial_owner: YesNo]

Decisions == {"blocked", "held", "pending", "eligible"}

(* Some required answer is missing. *)
Incomplete(a) == \E k \in DOMAIN a : a[k] = Blank

(* What no review makes good. *)
Excluded(a) ==
  \/ a.us_person = "yes"
  \/ a.sanctioned = "yes"
  \/ a.residence = "sanctioned"

(* What compliance has to look at first. *)
NeedsReview(a) == a.pep = "yes" \/ a.beneficial_owner # "yes"

(* Evaluate: the first test that applies decides. *)
Evaluate(r, a) ==
  IF r = "final" THEN "blocked"
  ELSE IF r # "green" THEN "pending"
  ELSE IF Incomplete(a) THEN "held"
  ELSE IF Excluded(a) THEN "blocked"
  ELSE IF NeedsReview(a) THEN "held"
  ELSE "eligible"
=============================================================================
