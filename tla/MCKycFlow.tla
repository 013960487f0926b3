----------------------------- MODULE MCKycFlow -----------------------------
(***************************************************************************)
(* KycFlow with questionnaires that qualify and that are held, and its       *)
(* properties.                                                              *)
(***************************************************************************)
EXTENDS KycFlow

Clean == [residence |-> "ok", us_person |-> "no", sanctioned |-> "no",
          investor_class |-> "given", source_of_funds |-> "given",
          pep |-> "no", beneficial_owner |-> "yes"]
CleanOnly == {Clean}
CleanAndPep == {Clean, [Clean EXCEPT !.pep = "yes"]}

(* A wallet that stays eligible ends up with the flag on every listed bond,
   the bonds listed after its grant included, whatever failed or restarted on
   the way (flow.go:175-219; apps/api/README.md: "retries on the next status
   read if a transaction failed"). *)
EligibleGetsGranted ==
  \A w \in Wallets :
    <>[]Qualifies(w) => <>[](Range(listed) \subseteq Flagged(w))

(* A wallet the process granted and that stays blocked is not left in the
   granted map: the revocation that failed is tried again (flow.go:221-246). *)
RevocationIsRetried ==
  \A w \in Wallets :
    w \in granted /\ Rejected(w) ~> w \notin granted \/ ~Rejected(w)

(* As long as nothing fails or restarts, a wallet that stays blocked loses the
   flag on every bond, in whatever order its reviews, status reads, running jobs
   and new listings come (flow.go:159-161, flow.go:221-246, granter.go:102-124). *)
BlockedGetsRevoked ==
  [](failures + restarts = 0) =>
    \A w \in Wallets : <>[]Rejected(w) => <>[](Flagged(w) = {})

(* "a granted wallet that later evaluates to blocked is revoked on-chain in the
   background" (apps/api/README.md:218-219). *)
GrantedGetsRevoked ==
  \A w \in Wallets : <>(w \in granted) /\ <>[]Rejected(w) => <>[](Flagged(w) = {})

(* A block reaches the chain: what failed is tried again, and without failures
   every flag goes (flow.go:221-246). *)
RevocationsComeThrough == RevocationIsRetried /\ BlockedGetsRevoked
=============================================================================
