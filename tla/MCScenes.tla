------------------------------ MODULE MCScenes ------------------------------
(***************************************************************************)
(* One bond in two scenes, played in one run.  "trading": two asks by two   *)
(* makers.  "rotation": two settlement contracts while the owner moves      *)
(* their roles.  What a scene leaves out does not move in it.               *)
(***************************************************************************)
EXTENDS MCSowee

CONSTANTS s1, s2

VARIABLE scene

Cast == [trading |-> {iss, ann, bob}, rotation |-> {iss, ann}]
Horizon == [trading |-> 1, rotation |-> 2]

OnStage ==
  /\ now' <= Horizon[scene]
  /\ \A a \in Accounts \ Cast[scene], i \in Invoices :
       usdc'[a] = usdc[a] /\ balanceOf'[i][a] = 0 /\ a \notin isEligible'[i] \cup isFrozen'[i]
  /\ scene = "trading" =>
       /\ UNCHANGED <<settlement, repayments>>
       /\ \A i \in invoiceIds : UNCHANGED <<issuerRole[i], complianceRole[i]>>
  /\ scene = "rotation" => UNCHANGED <<asks, feeBps, treasury>>

ScenesSpec ==
  /\ Init /\ scene \in DOMAIN Cast
  /\ [][Next /\ OnStage /\ UNCHANGED scene]_<<vars, scene>>
=============================================================================
