---------------------------- MODULE Questionnaire ----------------------------
(***************************************************************************)
(* The declarations form of the web app (apps/web/src/lib/kyc.ts): what a    *)
(* select can be left at or set to, and the check before it is sent, against *)
(* the policy that reads the answers.  A country is "ok": the list offers no *)
(* sanctioned one.                                                          *)
(***************************************************************************)
EXTENDS Policy

yesNo == {Blank, "true", "false"}

(* The form's values: one per question, and the text next to "other". *)
Filled ==
  [residence: {Blank, "ok"}, us_person: yesNo, sanctioned: yesNo,
   investor_class: Text, experience: Text,
   source_of_funds: {Blank, "salary", "other"}, source_other: Text,
   pep: yesNo, beneficial_owner: yesNo]

questionnaire == DOMAIN (CHOOSE f \in Filled : TRUE) \ {"source_other"}

(* Mutant of missingAnswers: the question about public office is optional. *)
missingAnswersButPep(f) ==
  {q \in questionnaire \ {"pep"} : f[q] = Blank}
  \cup {q \in {"source_other"} : f.source_of_funds = "other" /\ f[q] = Blank}

(* missingAnswers *)
missingAnswers(f) ==
  {q \in questionnaire : f[q] = Blank}
  \cup {q \in {"source_other"} : f.source_of_funds = "other" /\ f[q] = Blank}

(* isTrue, on the two values the form sends. *)
Heard(v) == CASE v = Blank -> Blank [] v = "true" -> "yes" [] v = "false" -> "no"

(* The answers as the policy reads them. *)
AnswersOf(f) ==
  [residence |-> f.residence, us_person |-> Heard(f.us_person),
   sanctioned |-> Heard(f.sanctioned), investor_class |-> f.investor_class,
   source_of_funds |-> IF f.source_of_funds = Blank THEN Blank ELSE "given",
   pep |-> Heard(f.pep), beneficial_owner |-> Heard(f.beneficial_owner)]

(* What the form lets through is decided on its content: a reviewed wallet is
   never held because an answer is missing or spelt in a way the policy does not
   know, and whoever declares nothing against it is eligible
   (kyc.ts:156-216, policy.go:47-86). *)
FormsAreDecided ==
  \A f \in Filled : missingAnswers(f) = {} =>
    LET a == AnswersOf(f)
    IN  /\ a \in Answers /\ ~Incomplete(a)
        /\ Evaluate("green", a) =
             IF "true" \in {f.us_person, f.sanctioned} THEN "blocked"
             ELSE IF f.pep = "true" \/ f.beneficial_owner = "false" THEN "held"
             ELSE "eligible"
=============================================================================
