-------------------------------- MODULE Sowee --------------------------------
(***************************************************************************)
(* The on-chain protocol: bonds, oracle, market and settlement composed,    *)
(* with the properties that make them correct together.                     *)
(***************************************************************************)
EXTENDS MaturitySettlement

vars == <<chainVars, settlementVars>>

Init == MarketInit /\ SettlementInit

Next ==
  \/ MarketNext /\ UNCHANGED settlementVars
  \/ SettlementNext

Spec == Init /\ [][Next]_vars

-----------------------------------------------------------------------------
(* Every variable has its type. *)
TypeOK == MarketTypeOK /\ SettlementTypeOK

(* The units of a bond are exactly the units its holders have, and never
   more than the invoice's face value, through mints, fills, transfers and
   the burns of every settlement contract (BondToken.sol:65-83). *)
UnitsWithinFace ==
  \A i \in Invoices :
    /\ totalSupply[i] = Total(balanceOf[i])
    /\ i \in invoiceIds => totalSupply[i] <= listings[i].faceValue
    /\ i \notin invoiceIds => totalSupply[i] = 0

(* A quote opens at most one listing: every listing used up a nonce of its
   own (DiscountOracle.sol:10-11), whatever the order of signer and consumer
   rotations and however many quotes carry the same nonce. *)
OneListingPerNonce == Cardinality(invoiceIds) = Cardinality(nonceUsed)

(* What a settlement contract still owes for an invoice. *)
Pot(s, i) == repayments[s][i].amount - paidOut[s][i]

(* A settlement contract holds one pot of USDC for all invoices: it is
   exactly the sum of what it still owes for each, so no invoice is paid
   from another's repayment (MaturitySettlement.sol:60-120). *)
PotsAreSeparate ==
  \A s \in Settlements :
    /\ \A i \in Invoices : paidOut[s][i] <= repayments[s][i].amount
    /\ usdc[s] = Total([i \in Invoices |-> Pot(s, i)])

(* While a bond is unsettled its repayment is the sum of the deposits still
   held for its payers, so every one of them can be taken back
   (MaturitySettlement.sol:66-67, 103-105). *)
DepositsAddUp ==
  \A s \in Settlements, i \in Invoices :
    ~repayments[s][i].settled =>
      /\ repayments[s][i].amount = Total(deposits[s][i])
      /\ paidOut[s][i] = 0

(* After settlement the pot covers every outstanding unit at the settled
   rate amount / supplySnapshot: claims can be paid in any order, and none
   of them depends on who came first (MaturitySettlement.sol:110-120). *)
ClaimsCovered ==
  \A s \in Settlements, i \in Invoices :
    repayments[s][i].settled =>
      repayments[s][i].amount * totalSupply[i]
        <= Pot(s, i) * repayments[s][i].supplySnapshot

(* Settled only after maturity, on units that existed: the snapshot never
   is zero and outstanding units never exceed it again. *)
SnapshotBoundsSupply ==
  \A s \in Settlements, i \in Invoices :
    repayments[s][i].settled =>
      /\ i \in invoiceIds
      /\ Matured(i)
      /\ repayments[s][i].supplySnapshot # 0
      /\ totalSupply[i] <= repayments[s][i].supplySnapshot

(* Units leave a frozen account by no path and reach an ineligible one by
   none: primary purchase, fill, transfer or claim (BondToken.sol:77-83). *)
ComplianceHolds ==
  [][\A i \in Invoices, a \in Accounts :
       /\ a \in isFrozen[i] => balanceOf'[i][a] >= balanceOf[i][a]
       /\ a \notin isEligible[i] => balanceOf'[i][a] <= balanceOf[i][a]]_vars

(* A settled rate is final: whatever others claim, repay or rotate, what a
   holder can claim for the units it keeps stays the same
   (MaturitySettlement.sol:70-73, 88). *)
SettledRateIsFinal ==
  [][\A s \in Settlements, i \in Invoices :
       repayments[s][i].settled =>
         /\ repayments'[s][i] = repayments[s][i]
         /\ totalSupply'[i] <= totalSupply[i]]_vars

(* A sale that takes units from an account took them under an ask of that
   account for that bond: the ask shrinks by as much, and the maker gets at
   least its price for them, after fees and rounding. *)
SoldUnderAsk(i, maker, sold) ==
  \E id \in AskIds :
    /\ asks[id].open /\ asks[id].maker = maker /\ asks[id].invoiceId = i
    /\ IF asks'[id].open THEN asks'[id].units + sold = asks[id].units
                         ELSE sold = asks[id].units
    /\ sold * asks[id].priceBps <= (usdc'[maker] - usdc[maker]) * Bps

(* An ask made before the step and still open is the same ask with at most as
   many units: it never grows, changes hands or comes back. *)
AsksOnlyShrink ==
  \A id \in AskIds :
    id < nextAskId /\ asks'[id].open =>
      /\ asks[id].open
      /\ asks'[id] = [asks[id] EXCEPT !.units = asks'[id].units]
      /\ asks'[id].units <= asks[id].units

(* A sale, a step that moves USDC and leaves the supplies alone, sells under
   asks. *)
SalesUnderAsks ==
  usdc' # usdc /\ totalSupply' = totalSupply =>
    \A i \in Invoices, a \in Accounts :
      balanceOf'[i][a] < balanceOf[i][a] =>
        SoldUnderAsk(i, a, balanceOf[i][a] - balanceOf'[i][a])

(* Asks are honoured and never overrun, whichever fills, cancels and transfers
   interleave (InvoiceMarket.sol:198-236). *)
AsksHonoured == [][AsksOnlyShrink /\ SalesUnderAsks]_vars

(* Matured money has a way out: past the grace period a repayment of an
   unsettled bond can be settled by anyone or withdrawn by a payer. *)
MoneyHasAWayOut ==
  \A s \in Settlements, i \in invoiceIds :
    (/\ PastGrace(i)
     /\ ~repayments[s][i].settled
     /\ repayments[s][i].amount # 0) =>
      \/ \A a \in Accounts : CanSettle(a, s, i)
      \/ \E a \in Accounts : CanWithdraw(a, s, i)
                             /\ deposits[s][i][a] <= usdc[s]

-----------------------------------------------------------------------------
(* The pool of settlement contract s for invoice i. *)
Pool(s, i) == INSTANCE ClaimPool WITH
  pot <- Pot(s, i),
  units <- totalSupply[i],
  rate <- IF repayments[s][i].settled
            THEN <<repayments[s][i].amount, repayments[s][i].supplySnapshot>>
            ELSE <<>>

(* Each settlement contract keeps the promise of ClaimPool for each bond,
   through deposits, withdrawals, settlement, claims in any order, market
   trades and claims made at another settlement contract. *)
RefinesClaimPool ==
  /\ \A s \in Settlements, i \in Invoices : Pool(s, i)!PoolInit
  /\ [][\A s \in Settlements, i \in Invoices :
          [Pool(s, i)!PoolNext]_(Pool(s, i)!poolVars)]_vars

-----------------------------------------------------------------------------
(* Fairness: time passes, a holder whose bond can be settled settles it (the
   function is open to everyone), and a holder who can claim does.  Issuers
   and owners promise nothing. *)
Fairness ==
  /\ WF_vars(Tick /\ UNCHANGED <<tokenVars, marketVars, oracleVars, usdc, settlementVars>>)
  /\ \A s \in Settlements, i \in Invoices :
       /\ WF_vars(\E a \in Accounts : balanceOf[i][a] # 0 /\ a # listings[i].issuer
                                       /\ Settle(a, s, i))
       /\ \A a \in Accounts : WF_vars(Claim(a, s, i))

FairSpec == Spec /\ Fairness

(* Once something was repaid, every holder gets out of its units without any
   help from the issuer or the owner, unless it is frozen or the settlement
   contract lost its role (MaturitySettlement.sol:70-73, 110-120). *)
RepaidHoldersGetOut ==
  \A s \in Settlements, i \in Invoices, a \in Accounts :
    repayments[s][i].amount # 0 /\ balanceOf[i][a] # 0
      ~> balanceOf[i][a] = 0 \/ a \in isFrozen[i] \/ s \notin issuerRole[i]
=============================================================================
