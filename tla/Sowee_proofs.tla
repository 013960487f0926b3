---------------------------- MODULE Sowee_proofs ----------------------------
(***************************************************************************)
(* Proofs about the on-chain protocol, for every set of accounts, invoices  *)
(* and settlement contracts and every amount.                               *)
(***************************************************************************)
EXTENDS Sowee, Totals_proofs

(* The facts about one bond that its type rests on: a burn can only be
   subtracted from the supply because the supply is the sum of balances. *)
SupplyIsSum == \A i \in Invoices : totalSupply[i] = Total(balanceOf[i])

(* _update keeps a bond's supply equal to the sum of its balances
   (BondToken.sol:79-83): on a mint, a burn, a transfer and a transfer to
   oneself. *)
LEMMA UpdateKeepsSupply ==
  ASSUME TokenTypeOK, SupplyIsSum,
         NEW i \in Invoices,
         NEW from \in Accounts \cup {Zero}, NEW to \in Accounts \cup {Zero},
         NEW v \in Nat,
         from # Zero \/ to # Zero,
         Update(i, from, to, v)
  PROVE  /\ TokenTypeOK'
         /\ SupplyIsSum'
         /\ \A j \in Invoices \ {i} : totalSupply'[j] = totalSupply[j]
         /\ from = Zero => totalSupply'[i] = totalSupply[i] + v
         /\ to = Zero => totalSupply'[i] = totalSupply[i] - v
         /\ from # Zero /\ to # Zero => totalSupply'[i] = totalSupply[i]
<1> DEFINE b == balanceOf[i]
           c == balanceOf'[i]
<1>1. /\ b \in [Accounts -> Nat]
      /\ IsFiniteSet(Accounts)
      /\ Zero \notin Accounts
      /\ totalSupply[i] = Total(b)
  BY TokenAssumption DEF TokenTypeOK, SupplyIsSum
<1>2. /\ c = [a \in Accounts |-> b[a] - (IF a = from THEN v ELSE 0)
                                      + (IF a = to THEN v ELSE 0)]
      /\ \A j \in Invoices \ {i} : balanceOf'[j] = balanceOf[j]
      /\ from # Zero => v <= b[from]
  BY DEF Update, TokenTypeOK
<1>3. c \in [Accounts -> Nat]
  BY <1>1, <1>2
<1>4. /\ totalSupply' = [totalSupply EXCEPT ![i] =
           totalSupply[i] + (IF from = Zero THEN v ELSE 0)
                          - (IF to = Zero THEN v ELSE 0)]
      /\ balanceOf' = [balanceOf EXCEPT ![i] = c]
      /\ UNCHANGED <<isEligible, isFrozen, complianceRole, issuerRole>>
  BY <1>2 DEF Update, TokenTypeOK
<1>5. totalSupply'[i] = totalSupply[i] + (IF from = Zero THEN v ELSE 0)
                                       - (IF to = Zero THEN v ELSE 0)
  BY <1>4 DEF TokenTypeOK
<1>6. \A j \in Invoices \ {i} : totalSupply'[j] = totalSupply[j]
  BY <1>4 DEF TokenTypeOK
<1>7. Total(b) \in Nat /\ Total(c) \in Nat
  BY <1>1, <1>3, TotalType
<1>8. totalSupply'[i] = Total(c)
  <2>1. CASE from = Zero
    <3>1. to \in Accounts /\ c[to] = b[to] + v /\ b[to] \in Nat
      BY <1>1, <1>2, <2>1
    <3>2. \A a \in Accounts \ {to} : c[a] = b[a]
      BY <1>1, <1>2, <2>1
    <3>3. Total(c) = Total(b) - b[to] + c[to]
      BY <1>1, <1>3, <3>1, <3>2, TotalChange
    <3> QED
      BY <1>1, <1>5, <1>7, <2>1, <3>1, <3>3
  <2>2. CASE to = Zero
    <3>1. /\ from \in Accounts /\ c[from] = b[from] - v
          /\ b[from] \in Nat /\ c[from] \in Nat
      BY <1>1, <1>2, <1>3, <2>2
    <3>2. \A a \in Accounts \ {from} : c[a] = b[a]
      BY <1>1, <1>2, <2>2
    <3>3. Total(c) = Total(b) - b[from] + c[from]
      BY <1>1, <1>3, <3>1, <3>2, TotalChange
    <3> QED
      BY <1>1, <1>5, <1>7, <2>2, <3>1, <3>3
  <2>3. CASE from # Zero /\ to # Zero /\ from = to
    <3>1. c = b
      BY <1>1, <1>2, <2>3
    <3> QED
      BY <1>1, <1>5, <1>7, <2>3, <3>1
  <2>4. CASE from # Zero /\ to # Zero /\ from # to
    <3>1. /\ from \in Accounts /\ to \in Accounts
          /\ c[from] = b[from] - v /\ c[to] = b[to] + v
          /\ \A a \in Accounts \ {from, to} : c[a] = b[a]
      BY <1>1, <1>2, <2>4
    <3>2. Total(c) = Total(b)
      BY <1>1, <1>3, <2>4, <3>1, TotalMove
    <3> QED
      BY <1>1, <1>5, <1>7, <2>4, <3>2
  <2> QED
    BY <2>1, <2>2, <2>3, <2>4
<1>9. SupplyIsSum'
  BY <1>2, <1>6, <1>8 DEF SupplyIsSum
<1>10. TokenTypeOK'
  BY <1>3, <1>4, <1>5, <1>7, <1>8 DEF TokenTypeOK
<1> QED
  BY <1>1, <1>5, <1>6, <1>9, <1>10, <1>7

(* A purchase moves USDC between accounts only: balances stay natural numbers
   and no settlement contract's balance changes (InvoiceMarket.sol:16,
   187-189, 228-230, 265-270). *)
LEMMA PayWithFeeEffect ==
  ASSUME MarketTypeOK,
         NEW payer \in Accounts, NEW seller \in Accounts, NEW cost \in Nat,
         PayWithFee(payer, seller, cost)
  PROVE  /\ usdc' \in [Accounts \cup Settlements -> Nat]
         /\ \A s \in Settlements : usdc'[s] = usdc[s]
<1> DEFINE P == Accounts \cup Settlements
           fee == FeeOn(payer, cost)
           paid == IF fee = 0 THEN usdc ELSE Pay(usdc, payer, treasury, fee)
<1>1. /\ usdc \in [P -> Nat]
      /\ Accounts \cap Settlements = {}
      /\ Zero \notin P
      /\ treasury \in Accounts \cup {Zero}
  BY TokenAssumption, MarketAssumption DEF MarketTypeOK, Settlements
<1>2. fee \in Nat
  BY MarketAssumption, CeilBounds DEF FeeOn, MarketTypeOK
<1>3. /\ fee # 0 => CanPay(usdc, payer, treasury, fee)
      /\ CanPay(paid, payer, seller, cost)
      /\ usdc' = Pay(paid, payer, seller, cost)
  BY DEF PayWithFee
<1> HIDE DEF fee
<1>4. paid \in [P -> Nat] /\ \A s \in Settlements : paid[s] = usdc[s]
  <2>1. CASE fee = 0
    BY <1>1, <2>1
  <2>2. CASE fee # 0
    <3>1. treasury \in Accounts /\ payer # treasury /\ fee <= usdc[payer]
      BY <1>1, <1>3, <2>2 DEF CanPay
    <3> QED
      BY <1>1, <1>2, <2>2, <3>1 DEF Pay
  <2> QED
    BY <2>1, <2>2
<1>5. payer # seller /\ cost <= paid[payer]
  BY <1>3 DEF CanPay
<1> HIDE DEF paid
<1> QED
  BY <1>1, <1>3, <1>4, <1>5 DEF Pay

-----------------------------------------------------------------------------
(* The inductive invariant behind type correctness.  Types alone are not
   inductive: a burn lowers the supply and a withdrawal the repayment, and
   both stay natural numbers only because they are sums of what is burned or
   withdrawn from. *)
Core == TypeOK /\ UnitsWithinFace /\ DepositsAddUp

LEMMA InitCore == Init => Core
<1> SUFFICES ASSUME Init PROVE Core
  OBVIOUS
<1> USE TokenAssumption, MarketAssumption
<1>1. TokenTypeOK
  BY DEF Init, MarketInit, TokenInit, TokenTypeOK
<1>2. usdc \in [Accounts \cup Settlements -> Nat]
  BY DEF Init, MarketInit
<1>3. MarketTypeOK
  BY <1>1, <1>2 DEF Init, MarketInit, MarketTypeOK
<1>4. SettlementTypeOK
  BY DEF Init, SettlementInit, SettlementTypeOK, Repayment
<1>5. UnitsWithinFace
  <2> SUFFICES ASSUME NEW i \in Invoices
               PROVE  /\ totalSupply[i] = 0
                      /\ Total(balanceOf[i]) = 0
                      /\ i \notin invoiceIds
    BY DEF UnitsWithinFace
  <2>1. Total(balanceOf[i]) = 0
    BY TotalZero DEF Init, MarketInit, TokenInit
  <2>2. totalSupply[i] = 0 /\ i \notin invoiceIds
    BY DEF Init, MarketInit, TokenInit, invoiceIds, NotListed
  <2> QED
    BY <2>1, <2>2
<1>6. DepositsAddUp
  <2> SUFFICES ASSUME NEW s \in Settlements, NEW i \in Invoices
               PROVE  /\ repayments[s][i].amount = Total(deposits[s][i])
                      /\ paidOut[s][i] = 0
    BY DEF DepositsAddUp
  <2>1. Total(deposits[s][i]) = 0
    BY TotalZero DEF Init, SettlementInit
  <2> QED
    BY <2>1 DEF Init, SettlementInit
<1> QED
  BY <1>3, <1>4, <1>5, <1>6 DEF Core, TypeOK

(* What the steps that touch neither units nor listings leave in place. *)
LEMMA UnitsUnchanged ==
  ASSUME UnitsWithinFace, UNCHANGED <<totalSupply, balanceOf, listings>>
  PROVE  UnitsWithinFace'
BY DEF UnitsWithinFace, invoiceIds

LEMMA DepositsUnchanged ==
  ASSUME DepositsAddUp, UNCHANGED settlementVars
  PROVE  DepositsAddUp'
BY DEF DepositsAddUp, settlementVars

(* What is known of a listed invoice; its rate stays below BPS because the
   oracle caps it, so the price of a unit never underflows. *)
LEMMA ListingFacts ==
  ASSUME MarketTypeOK, NEW i \in invoiceIds
  PROVE  /\ listings[i] \in Listing
         /\ listings[i].issuer \in Accounts
         /\ listings[i].faceValue \in Nat
         /\ listings[i].maturity \in Nat
         /\ Bps - listings[i].discountRateBps \in Nat
<1>1. listings[i] \in Listing
  BY DEF invoiceIds, MarketTypeOK, NotListed
<1>2. listings[i].discountRateBps \in 0 .. MaxRateBps
  BY <1>1 DEF Listing
<1>3. Bps - listings[i].discountRateBps \in Nat
  BY <1>2, MarketAssumption
<1> QED
  BY <1>1, <1>3 DEF Listing

(* The owner's functions (InvoiceMarket.sol:107-139, DiscountOracle.sol:52-60). *)
LEMMA OwnerCore ==
  ASSUME Core, OwnerNext, UNCHANGED settlementVars
  PROVE  Core'
<1> USE TokenAssumption, MarketAssumption
<1>1. /\ MarketTypeOK /\ TokenTypeOK /\ SettlementTypeOK
      /\ UnitsWithinFace /\ DepositsAddUp
  BY DEF Core, TypeOK, MarketTypeOK
<1>2. /\ UNCHANGED <<totalSupply, balanceOf, isEligible, isFrozen, listings>>
      /\ UNCHANGED <<asks, nextAskId, now, usdc, nonceUsed>>
      /\ issuerRole' \in [Invoices -> SUBSET Minters]
      /\ complianceRole' \in [Invoices -> SUBSET Operators]
      /\ signer' \in Signers /\ consumer' \in Consumers \cup {Zero}
      /\ feeBps' \in Nat /\ treasury' \in Accounts \cup {Zero}
      /\ settlement' \in Settlements \cup {Zero}
      /\ complianceOperator' \in Operators
  <2> USE DEF MarketTypeOK, TokenTypeOK, marketVars, tokenVars, oracleVars
  <2>1. CASE \E fee \in Fees, to \in Treasuries \cup {Zero} : SetFee(fee, to)
    BY <1>1, <2>1 DEF SetFee
  <2>2. CASE \E o \in Operators : SetComplianceOperator(o)
    BY <1>1, <2>2 DEF SetComplianceOperator
  <2>3. CASE \E s \in Settlements \cup {Zero} : SetSettlement(s)
    BY <1>1, <2>3 DEF SetSettlement, Settlements
  <2>4. CASE \E i \in Invoices, a \in RoleTargets : GrantBondRole(i, a)
    <3>1. PICK i \in Invoices, a \in RoleTargets : GrantBondRole(i, a)
      BY <2>4
    <3>2. /\ UNCHANGED <<totalSupply, balanceOf, isEligible, isFrozen>>
          /\ UNCHANGED <<marketVars, oracleVars, now, usdc>>
      BY <3>1 DEF GrantBondRole
    <3>3. /\ issuerRole' \in [Invoices -> SUBSET Minters]
          /\ complianceRole' \in [Invoices -> SUBSET Operators]
      <4>1. /\ issuerRole \in [Invoices -> SUBSET Minters]
            /\ complianceRole \in [Invoices -> SUBSET Operators]
        BY <1>1
      <4> QED
        BY <3>1, <4>1 DEF GrantBondRole
    <3> QED
      BY <1>1, <3>2, <3>3
  <2>5. CASE \E i \in Invoices, a \in RoleTargets : RevokeBondRole(i, a)
    <3>1. PICK i \in Invoices, a \in RoleTargets : RevokeBondRole(i, a)
      BY <2>5
    <3>2. /\ UNCHANGED <<totalSupply, balanceOf, isEligible, isFrozen>>
          /\ UNCHANGED <<marketVars, oracleVars, now, usdc>>
      BY <3>1 DEF RevokeBondRole
    <3>3. /\ issuerRole' \in [Invoices -> SUBSET Minters]
          /\ complianceRole' \in [Invoices -> SUBSET Operators]
      <4>1. /\ issuerRole \in [Invoices -> SUBSET Minters]
            /\ complianceRole \in [Invoices -> SUBSET Operators]
        BY <1>1
      <4> QED
        BY <3>1, <4>1 DEF RevokeBondRole
    <3> QED
      BY <1>1, <3>2, <3>3
  <2>6. CASE \E s \in Signers : SetSigner(s)
               /\ UNCHANGED <<tokenVars, marketVars, now, usdc>>
    BY <1>1, <2>6 DEF SetSigner
  <2>7. CASE \E c \in Consumers : SetConsumer(c)
               /\ UNCHANGED <<tokenVars, marketVars, now, usdc>>
    BY <1>1, <2>7 DEF SetConsumer
  <2> QED
    BY <2>1, <2>2, <2>3, <2>4, <2>5, <2>6, <2>7 DEF OwnerNext
<1>3. TokenTypeOK'
  BY <1>1, <1>2 DEF TokenTypeOK
<1>4. MarketTypeOK'
  BY <1>1, <1>2, <1>3 DEF MarketTypeOK
<1>5. SettlementTypeOK'
  BY <1>1 DEF SettlementTypeOK, settlementVars
<1> QED
  BY <1>1, <1>2, <1>4, <1>5, UnitsUnchanged, DepositsUnchanged DEF Core, TypeOK

(* listInvoice (InvoiceMarket.sol:146-179). *)
LEMMA ListInvoiceCore ==
  ASSUME Core, NEW a \in Accounts, NEW q \in Quotes, ListInvoice(a, q),
         UNCHANGED settlementVars
  PROVE  Core'
<1> USE TokenAssumption, MarketAssumption
<1>1. /\ MarketTypeOK /\ TokenTypeOK /\ SettlementTypeOK
      /\ UnitsWithinFace /\ DepositsAddUp
  BY DEF Core, TypeOK, MarketTypeOK
<1>2. /\ q.invoiceId \in Invoices /\ q.faceValue \in Nat /\ q.maturity \in Nat
      /\ q.discountRateBps \in Nat /\ q.nonce \in Nonces
  BY DEF Quote, Nonces
<1> DEFINE i == q.invoiceId
           l == [listed |-> TRUE, issuer |-> a, faceValue |-> q.faceValue,
                 discountRateBps |-> q.discountRateBps, maturity |-> q.maturity]
<1>3. /\ listings' = [listings EXCEPT ![i] = l]
      /\ UNCHANGED <<totalSupply, balanceOf, isEligible, isFrozen>>
      /\ UNCHANGED <<asks, nextAskId, feeBps, treasury, settlement,
                     complianceOperator, now, usdc, signer, consumer>>
      /\ i \notin invoiceIds
      /\ nonceUsed' = nonceUsed \cup {q.nonce}
  BY DEF ListInvoice, Deploy, Consume
<1>4. l \in Listing
  <2>1. q.discountRateBps <= MaxRateBps
    BY DEF ListInvoice, Consume, Verify
  <2> QED
    BY <1>2, <2>1 DEF Listing
<1>5. listings' \in [Invoices -> Listing \cup {NotListed}]
  BY <1>1, <1>2, <1>3, <1>4 DEF MarketTypeOK
<1>6. TokenTypeOK'
  <2>1. FirstMinters \in SUBSET Minters
    BY <1>1, MarketAssumption DEF FirstMinters, MarketTypeOK, Settlements
  <2> QED
    BY <1>1, <1>2, <1>3, <2>1 DEF ListInvoice, Deploy, TokenTypeOK, MarketTypeOK
<1>7. MarketTypeOK'
  BY <1>1, <1>2, <1>3, <1>5, <1>6 DEF MarketTypeOK
<1>8. UnitsWithinFace'
  <2>1. \A j \in Invoices : /\ totalSupply'[j] = Total(balanceOf'[j])
                             /\ j # i => listings'[j] = listings[j]
    BY <1>1, <1>2, <1>3 DEF UnitsWithinFace, MarketTypeOK
  <2>2. listings'[i] = l /\ totalSupply'[i] = 0
    BY <1>1, <1>2, <1>3 DEF UnitsWithinFace, MarketTypeOK
  <2> QED
    BY <1>1, <1>2, <1>3, <2>1, <2>2 DEF UnitsWithinFace, invoiceIds
<1>9. SettlementTypeOK'
  BY <1>1 DEF SettlementTypeOK, settlementVars
<1> QED
  BY <1>1, <1>7, <1>8, <1>9, DepositsUnchanged DEF Core, TypeOK

(* buyPrimary (InvoiceMarket.sol:182-193). *)
LEMMA BuyPrimaryCore ==
  ASSUME Core, NEW a \in Accounts, NEW i \in Invoices, NEW units \in Amounts,
         BuyPrimary(a, i, units), UNCHANGED settlementVars
  PROVE  Core'
<1> USE TokenAssumption, MarketAssumption
<1>1. /\ MarketTypeOK /\ TokenTypeOK /\ SettlementTypeOK
      /\ UnitsWithinFace /\ DepositsAddUp /\ SupplyIsSum
  BY DEF Core, TypeOK, MarketTypeOK, UnitsWithinFace, SupplyIsSum
<1>2. listings[i] \in Listing /\ i \in invoiceIds
  BY <1>1 DEF BuyPrimary, invoiceIds, MarketTypeOK, NotListed
<1>3. /\ Update(i, Zero, a, units)
      /\ units <= listings[i].faceValue - totalSupply[i]
      /\ UNCHANGED <<marketVars, oracleVars, now>>
  BY DEF BuyPrimary, Mint
<1>4. /\ TokenTypeOK' /\ SupplyIsSum'
      /\ totalSupply'[i] = totalSupply[i] + units
      /\ \A j \in Invoices \ {i} : totalSupply'[j] = totalSupply[j]
  BY <1>1, <1>3, UpdateKeepsSupply
<1>5. usdc' \in [Accounts \cup Settlements -> Nat]
  <2>1. Bps - listings[i].discountRateBps \in Nat /\ listings[i].issuer \in Accounts
    BY <1>1, <1>2, ListingFacts
  <2>2. Cost(units, Bps - listings[i].discountRateBps) \in Nat
    BY <1>2, <2>1, CeilBounds DEF Cost
  <2> QED
    BY <1>1, <2>1, <2>2, PayWithFeeEffect DEF BuyPrimary
<1>6. MarketTypeOK'
  BY <1>1, <1>3, <1>4, <1>5 DEF MarketTypeOK, marketVars, oracleVars
<1>7. UnitsWithinFace'
  <2>1. listings' = listings
    BY <1>3 DEF marketVars
  <2>2. totalSupply[i] \in Nat /\ listings[i].faceValue \in Nat
    BY <1>1, <1>2 DEF TokenTypeOK, Listing
  <2>3. totalSupply'[i] <= listings[i].faceValue
    BY <1>3, <1>4, <2>2
  <2> QED
    BY <1>1, <1>2, <1>4, <2>1, <2>3 DEF UnitsWithinFace, SupplyIsSum, invoiceIds
<1>8. SettlementTypeOK'
  BY <1>1 DEF SettlementTypeOK, settlementVars
<1> QED
  BY <1>1, <1>6, <1>7, <1>8, DepositsUnchanged DEF Core, TypeOK

(* makeAsk and cancelAsk (InvoiceMarket.sol:198-219). *)
LEMMA AskBookCore ==
  ASSUME Core, NEW a \in Accounts,
         \/ \E i \in Invoices, units \in Amounts, p \in Prices : MakeAsk(a, i, units, p)
         \/ \E id \in AskIds : CancelAsk(a, id),
         UNCHANGED settlementVars
  PROVE  Core'
<1> USE TokenAssumption, MarketAssumption
<1>1. /\ MarketTypeOK /\ TokenTypeOK /\ SettlementTypeOK
      /\ UnitsWithinFace /\ DepositsAddUp
  BY DEF Core, TypeOK, MarketTypeOK
<1>2. /\ asks' \in [AskIds -> Ask \cup {NoAsk}]
      /\ nextAskId' \in 1 .. MaxAsks + 1
      /\ UNCHANGED <<listings, feeBps, treasury, settlement, complianceOperator>>
      /\ UNCHANGED <<tokenVars, oracleVars, now, usdc>>
  <2>1. ASSUME NEW i \in Invoices, NEW units \in Amounts, NEW p \in Prices,
               MakeAsk(a, i, units, p)
        PROVE  <1>2
    <3> DEFINE ask == [open |-> TRUE, invoiceId |-> i, maker |-> a, units |-> units,
                       priceBps |-> p]
    <3>1. ask \in Ask
      BY <2>1 DEF Ask, MakeAsk
    <3>2. asks' = [asks EXCEPT ![nextAskId] = ask]
      BY <2>1 DEF MakeAsk
    <3>3. asks' \in [AskIds -> Ask \cup {NoAsk}]
      BY <1>1, <3>1, <3>2 DEF MarketTypeOK
    <3>4. nextAskId' \in 1 .. MaxAsks + 1
      BY <1>1, <2>1 DEF MakeAsk, MarketTypeOK
    <3> QED
      BY <2>1, <3>3, <3>4 DEF MakeAsk
  <2>2. ASSUME NEW id \in AskIds, CancelAsk(a, id)
        PROVE  <1>2
    BY <1>1, <2>2 DEF CancelAsk, MarketTypeOK
  <2> QED
    BY <2>1, <2>2
<1>3. TokenTypeOK'
  BY <1>1, <1>2 DEF TokenTypeOK, tokenVars
<1>4. MarketTypeOK'
  BY <1>1, <1>2, <1>3 DEF MarketTypeOK, oracleVars
<1>5. SettlementTypeOK'
  BY <1>1 DEF SettlementTypeOK, settlementVars
<1>6. UNCHANGED <<totalSupply, balanceOf, listings>>
  BY <1>2 DEF tokenVars
<1> QED
  BY <1>1, <1>4, <1>5, <1>6, UnitsUnchanged, DepositsUnchanged DEF Core, TypeOK

(* fillAsk (InvoiceMarket.sol:222-236). *)
LEMMA FillAskCore ==
  ASSUME Core, NEW a \in Accounts, NEW id \in AskIds, NEW units \in Amounts,
         FillAsk(a, id, units), UNCHANGED settlementVars
  PROVE  Core'
<1> USE TokenAssumption, MarketAssumption
<1>1. /\ MarketTypeOK /\ TokenTypeOK /\ SettlementTypeOK
      /\ UnitsWithinFace /\ DepositsAddUp /\ SupplyIsSum
  BY DEF Core, TypeOK, MarketTypeOK, UnitsWithinFace, SupplyIsSum
<1> DEFINE i == asks[id].invoiceId
           m == asks[id].maker
<1>2. asks[id] \in Ask
  BY <1>1 DEF FillAsk, MarketTypeOK, NoAsk
<1>3. /\ i \in Invoices /\ m \in Accounts
      /\ asks[id].units \in Nat \ {0} /\ asks[id].priceBps \in Nat \ {0}
  BY <1>2 DEF Ask
<1>4. /\ Update(i, m, a, units)
      /\ asks' = [asks EXCEPT ![id] = Filled(asks[id], units)]
      /\ UNCHANGED <<listings, nextAskId, feeBps, treasury, settlement,
                     complianceOperator, signer, consumer, nonceUsed, now>>
  BY DEF FillAsk, Transfer, oracleVars
<1>5. /\ TokenTypeOK' /\ SupplyIsSum'
      /\ totalSupply'[i] = totalSupply[i]
      /\ \A j \in Invoices \ {i} : totalSupply'[j] = totalSupply[j]
  BY <1>1, <1>3, <1>4, UpdateKeepsSupply
<1>6. usdc' \in [Accounts \cup Settlements -> Nat]
  <2>1. Cost(units, asks[id].priceBps) \in Nat
    BY <1>3, CeilBounds DEF Cost
  <2> QED
    BY <1>1, <1>3, <2>1, PayWithFeeEffect DEF FillAsk
<1>7. asks' \in [AskIds -> Ask \cup {NoAsk}]
  <2>1. Filled(asks[id], units) \in Ask \cup {NoAsk}
    <3>1. CASE units = asks[id].units
      BY <3>1 DEF Filled
    <3>2. CASE units # asks[id].units
      <4>1. asks[id].units - units \in Nat \ {0}
        BY <1>3, <3>2 DEF FillAsk
      <4> QED
        BY <1>2, <3>2, <4>1 DEF Filled, Ask
    <3> QED
      BY <3>1, <3>2
  <2> QED
    BY <1>1, <1>4, <2>1 DEF MarketTypeOK
<1>8. MarketTypeOK'
  BY <1>1, <1>4, <1>5, <1>6, <1>7 DEF MarketTypeOK
<1>9. UnitsWithinFace'
  BY <1>1, <1>3, <1>4, <1>5 DEF UnitsWithinFace, SupplyIsSum, invoiceIds
<1>10. SettlementTypeOK'
  BY <1>1 DEF SettlementTypeOK, settlementVars
<1> QED
  BY <1>1, <1>8, <1>9, <1>10, DepositsUnchanged DEF Core, TypeOK

(* Transfers and compliance decisions on a bond (BondToken.sol:53-83). *)
LEMMA TokenCore ==
  ASSUME Core, TokenNext, UNCHANGED <<marketVars, oracleVars, now, usdc, settlementVars>>
  PROVE  Core'
<1> USE TokenAssumption, MarketAssumption
<1>1. /\ MarketTypeOK /\ TokenTypeOK /\ SettlementTypeOK
      /\ UnitsWithinFace /\ DepositsAddUp /\ SupplyIsSum
  BY DEF Core, TypeOK, MarketTypeOK, UnitsWithinFace, SupplyIsSum
<1>2. /\ TokenTypeOK' /\ SupplyIsSum'
      /\ \A j \in Invoices : totalSupply'[j] = totalSupply[j]
  <2>1. ASSUME NEW i \in Invoices, NEW from \in Accounts, NEW to \in Accounts,
               NEW units \in Amounts, Transfer(i, from, to, units)
        PROVE  <1>2
    BY <1>1, <2>1, UpdateKeepsSupply DEF Transfer
  <2>2. ASSUME NEW i \in Invoices, NEW o \in Operators, NEW a \in Screened,
               NEW b \in BOOLEAN, SetEligible(i, o, a, b)
        PROVE  <1>2
    BY <1>1, <2>2 DEF SetEligible, TokenTypeOK, SupplyIsSum
  <2>3. ASSUME NEW i \in Invoices, NEW o \in Operators, NEW a \in Screened,
               NEW b \in BOOLEAN, SetFrozen(i, o, a, b)
        PROVE  <1>2
    BY <1>1, <2>3 DEF SetFrozen, TokenTypeOK, SupplyIsSum
  <2> QED
    BY <2>1, <2>2, <2>3 DEF TokenNext
<1>3. MarketTypeOK'
  BY <1>1, <1>2 DEF MarketTypeOK, marketVars, oracleVars
<1>4. UnitsWithinFace'
  BY <1>1, <1>2 DEF UnitsWithinFace, SupplyIsSum, invoiceIds, marketVars
<1>5. SettlementTypeOK'
  BY <1>1 DEF SettlementTypeOK, settlementVars
<1> QED
  BY <1>1, <1>3, <1>4, <1>5, DepositsUnchanged DEF Core, TypeOK

-----------------------------------------------------------------------------
(* registerRepayment (MaturitySettlement.sol:60-69). *)
LEMMA RegisterCore ==
  ASSUME Core, NEW a \in Accounts, NEW s \in Settlements, NEW i \in Invoices,
         NEW amount \in Amounts, RegisterRepayment(a, s, i, amount)
  PROVE  Core'
<1> USE TokenAssumption, MarketAssumption
<1> DEFINE r == Adjusted(repayments[s][i], amount)
<1>1. /\ MarketTypeOK /\ TokenTypeOK /\ SettlementTypeOK
      /\ UnitsWithinFace /\ DepositsAddUp
  BY DEF Core, TypeOK, MarketTypeOK
<1>2. /\ UNCHANGED <<tokenVars, oracleVars, marketVars, now, paidOut>>
      /\ a # s /\ amount <= usdc[a]
      /\ usdc' = [usdc EXCEPT ![a] = @ - amount, ![s] = @ + amount]
      /\ repayments' = [repayments EXCEPT ![s][i] = r]
      /\ deposits' = [deposits EXCEPT ![s][i][a] = @ + amount]
      /\ amount \in Nat
  BY DEF RegisterRepayment, CanPay, Pay
<1>3. usdc' \in [Accounts \cup Settlements -> Nat]
  BY <1>1, <1>2 DEF MarketTypeOK
<1>4. TokenTypeOK'
  BY <1>1, <1>2 DEF TokenTypeOK, tokenVars
<1>5. MarketTypeOK'
  BY <1>1, <1>2, <1>3, <1>4 DEF MarketTypeOK, marketVars, oracleVars
<1>6. /\ repayments' \in [Settlements -> [Invoices -> Repayment]]
      /\ deposits' \in [Settlements -> [Invoices -> [Accounts -> Nat]]]
      /\ r \in Repayment
  <2>1. repayments[s][i] \in Repayment
    BY <1>1 DEF SettlementTypeOK
  <2>2. r \in Repayment
    BY <1>2, <2>1 DEF Repayment, Adjusted
  <2> HIDE DEF r
  <2> QED
    BY <1>1, <1>2, <2>2 DEF SettlementTypeOK
<1>7. SettlementTypeOK'
  BY <1>1, <1>2, <1>6 DEF SettlementTypeOK
<1>8. UnitsWithinFace'
  BY <1>1, <1>2, UnitsUnchanged DEF tokenVars, marketVars
<1>9. DepositsAddUp'
  <2> SUFFICES ASSUME NEW t \in Settlements, NEW j \in Invoices,
                      ~repayments'[t][j].settled
               PROVE  /\ repayments'[t][j].amount = Total(deposits'[t][j])
                      /\ paidOut'[t][j] = 0
    BY DEF DepositsAddUp
  <2>1. CASE t = s /\ j = i
    <3>1. /\ repayments'[t][j].amount = repayments[t][j].amount + amount
          /\ repayments'[t][j].settled = repayments[t][j].settled
      <4>1. repayments'[t][j] = r /\ repayments[t][j] \in Repayment
        BY <1>1, <1>2, <2>1 DEF SettlementTypeOK
      <4> QED
        BY <2>1, <4>1 DEF Repayment, Adjusted
    <3>2. /\ deposits[t][j] \in [Accounts -> Nat]
          /\ deposits'[t][j] \in [Accounts -> Nat]
          /\ deposits'[t][j][a] = deposits[t][j][a] + amount
          /\ \A b \in Accounts \ {a} : deposits'[t][j][b] = deposits[t][j][b]
      BY <1>1, <1>2, <1>6, <2>1 DEF SettlementTypeOK
    <3>3. Total(deposits'[t][j])
            = Total(deposits[t][j]) - deposits[t][j][a] + deposits'[t][j][a]
      BY <3>2, TotalChange
    <3>4. Total(deposits[t][j]) \in Nat /\ deposits[t][j][a] \in Nat
      BY <3>2, TotalType
    <3>5. repayments[t][j].amount = Total(deposits[t][j]) /\ paidOut[t][j] = 0
      BY <1>1, <3>1 DEF DepositsAddUp
    <3> QED
      BY <1>2, <3>1, <3>2, <3>3, <3>4, <3>5
  <2>2. CASE ~(t = s /\ j = i)
    <3>1. repayments'[t][j] = repayments[t][j] /\ deposits'[t][j] = deposits[t][j]
      BY <1>1, <1>2, <2>2 DEF SettlementTypeOK
    <3> QED
      BY <1>1, <1>2, <3>1 DEF DepositsAddUp
  <2> QED
    BY <2>1, <2>2
<1> QED
  BY <1>5, <1>7, <1>8, <1>9 DEF Core, TypeOK

(* settle (MaturitySettlement.sol:74-91). *)
LEMMA SettleCore ==
  ASSUME Core, NEW a \in Accounts, NEW s \in Settlements, NEW i \in Invoices,
         Settle(a, s, i)
  PROVE  Core'
<1> DEFINE r == Snapshotted(repayments[s][i], totalSupply[i])
<1>1. /\ MarketTypeOK /\ TokenTypeOK /\ SettlementTypeOK
      /\ UnitsWithinFace /\ DepositsAddUp
  BY DEF Core, TypeOK, MarketTypeOK
<1>2. /\ UNCHANGED <<tokenVars, oracleVars, marketVars, now, usdc, deposits, paidOut>>
      /\ repayments' = [repayments EXCEPT ![s][i] = r]
  BY DEF Settle
<1>3. TokenTypeOK' /\ MarketTypeOK'
  BY <1>1, <1>2 DEF TokenTypeOK, MarketTypeOK, tokenVars, marketVars, oracleVars
<1>4. r \in Repayment /\ r.settled = TRUE
  BY <1>1 DEF TokenTypeOK, SettlementTypeOK, Repayment, Snapshotted
<1> HIDE DEF r
<1>5. SettlementTypeOK'
  BY <1>1, <1>2, <1>4 DEF SettlementTypeOK
<1>6. UnitsWithinFace'
  BY <1>1, <1>2, UnitsUnchanged DEF tokenVars, marketVars
<1>7. \A t \in Settlements, j \in Invoices :
        ~repayments'[t][j].settled => repayments'[t][j] = repayments[t][j]
  BY <1>1, <1>2, <1>4 DEF SettlementTypeOK
<1>8. DepositsAddUp'
  <2> SUFFICES ASSUME NEW t \in Settlements, NEW j \in Invoices,
                      ~repayments'[t][j].settled
               PROVE  /\ repayments'[t][j].amount = Total(deposits'[t][j])
                      /\ paidOut'[t][j] = 0
    BY DEF DepositsAddUp
  <2> QED
    BY <1>1, <1>2, <1>7 DEF DepositsAddUp
<1> QED
  BY <1>3, <1>5, <1>6, <1>8 DEF Core, TypeOK

(* withdrawRepayment (MaturitySettlement.sol:95-107): the deposit it takes out
   is part of the repayment, so the subtraction cannot underflow. *)
LEMMA WithdrawCore ==
  ASSUME Core, NEW a \in Accounts, NEW s \in Settlements, NEW i \in Invoices,
         WithdrawRepayment(a, s, i)
  PROVE  Core'
<1> USE TokenAssumption, MarketAssumption
<1> DEFINE d == deposits[s][i][a]
           r == Adjusted(repayments[s][i], -d)
<1>1. /\ MarketTypeOK /\ TokenTypeOK /\ SettlementTypeOK
      /\ UnitsWithinFace /\ DepositsAddUp
  BY DEF Core, TypeOK, MarketTypeOK
<1>2. /\ UNCHANGED <<tokenVars, oracleVars, marketVars, now, paidOut>>
      /\ s # a /\ d <= usdc[s]
      /\ ~repayments[s][i].settled
      /\ usdc' = [usdc EXCEPT ![s] = @ - d, ![a] = @ + d]
      /\ repayments' = [repayments EXCEPT ![s][i] = r]
      /\ deposits' = [deposits EXCEPT ![s][i][a] = 0]
  BY DEF WithdrawRepayment, CanWithdraw, CanPay, Pay
<1>3. /\ deposits[s][i] \in [Accounts -> Nat] /\ d \in Nat
      /\ repayments[s][i] \in Repayment
  BY <1>1 DEF SettlementTypeOK
<1>4. /\ repayments[s][i].amount = Total(deposits[s][i])
      /\ d <= Total(deposits[s][i])
      /\ Total(deposits[s][i]) \in Nat
  BY <1>1, <1>2, <1>3, TotalBoundsEach, TotalType DEF DepositsAddUp
<1>5. repayments[s][i].amount - d \in Nat
  BY <1>3, <1>4
<1>6. usdc' \in [Accounts \cup Settlements -> Nat]
  BY <1>1, <1>2, <1>3 DEF MarketTypeOK
<1>7. TokenTypeOK'
  BY <1>1, <1>2 DEF TokenTypeOK, tokenVars
<1>8. MarketTypeOK'
  BY <1>1, <1>2, <1>6, <1>7 DEF MarketTypeOK, marketVars, oracleVars
<1>9. /\ repayments' \in [Settlements -> [Invoices -> Repayment]]
      /\ deposits' \in [Settlements -> [Invoices -> [Accounts -> Nat]]]
  <2>1. r \in Repayment
    BY <1>3, <1>5 DEF Repayment, Adjusted
  <2> HIDE DEF r
  <2> QED
    BY <1>1, <1>2, <2>1 DEF SettlementTypeOK
<1>10. SettlementTypeOK'
  BY <1>1, <1>2, <1>9 DEF SettlementTypeOK
<1>11. UnitsWithinFace'
  BY <1>1, <1>2, UnitsUnchanged DEF tokenVars, marketVars
<1>12. DepositsAddUp'
  <2> SUFFICES ASSUME NEW t \in Settlements, NEW j \in Invoices,
                      ~repayments'[t][j].settled
               PROVE  /\ repayments'[t][j].amount = Total(deposits'[t][j])
                      /\ paidOut'[t][j] = 0
    BY DEF DepositsAddUp
  <2>1. CASE t = s /\ j = i
    <3>1. /\ repayments'[t][j].amount = repayments[t][j].amount - d
          /\ paidOut[t][j] = 0
      <4>1. repayments'[t][j] = r
        BY <1>1, <1>2, <2>1 DEF SettlementTypeOK
      <4> QED
        BY <1>1, <1>2, <1>3, <2>1, <4>1 DEF DepositsAddUp, Repayment, Adjusted
    <3>2. /\ deposits'[t][j] \in [Accounts -> Nat]
          /\ deposits'[t][j][a] = 0
          /\ \A b \in Accounts \ {a} : deposits'[t][j][b] = deposits[t][j][b]
      BY <1>1, <1>2, <1>9, <2>1 DEF SettlementTypeOK
    <3>3. Total(deposits'[t][j]) = Total(deposits[t][j]) - d + deposits'[t][j][a]
      BY <1>3, <2>1, <3>2, TotalChange
    <3> QED
      BY <1>2, <1>3, <1>4, <2>1, <3>1, <3>2, <3>3
  <2>2. CASE ~(t = s /\ j = i)
    <3>1. repayments'[t][j] = repayments[t][j] /\ deposits'[t][j] = deposits[t][j]
      BY <1>1, <1>2, <2>2 DEF SettlementTypeOK
    <3> QED
      BY <1>1, <1>2, <3>1 DEF DepositsAddUp
  <2> QED
    BY <2>1, <2>2
<1> QED
  BY <1>8, <1>10, <1>11, <1>12 DEF Core, TypeOK

(* claim (MaturitySettlement.sol:110-120): a settled bond has a snapshot to
   divide by. *)
LEMMA ClaimCore ==
  ASSUME Core, SnapshotBoundsSupply,
         NEW a \in Accounts, NEW s \in Settlements, NEW i \in Invoices,
         Claim(a, s, i)
  PROVE  /\ Core'
         /\ Share(s, i, balanceOf[i][a]) \in Nat
         /\ totalSupply'[i] = totalSupply[i] - balanceOf[i][a]
         /\ \A j \in Invoices \ {i} : totalSupply'[j] = totalSupply[j]
<1> USE TokenAssumption, MarketAssumption
<1> DEFINE u == balanceOf[i][a]
           pay == Share(s, i, u)
<1>1. /\ MarketTypeOK /\ TokenTypeOK /\ SettlementTypeOK
      /\ UnitsWithinFace /\ DepositsAddUp /\ SupplyIsSum
  BY DEF Core, TypeOK, MarketTypeOK, UnitsWithinFace, SupplyIsSum
<1>2. /\ UNCHANGED <<oracleVars, marketVars, now, repayments, deposits>>
      /\ repayments[s][i].settled
      /\ Update(i, a, Zero, u)
      /\ s # a /\ pay <= usdc[s]
      /\ usdc' = [usdc EXCEPT ![s] = @ - pay, ![a] = @ + pay]
      /\ paidOut' = [paidOut EXCEPT ![s][i] = @ + pay]
  BY DEF Claim, Burn, CanPay, Pay
<1>3. u \in Nat /\ pay \in Nat
  <2>1. u \in Nat
    BY <1>1 DEF TokenTypeOK
  <2>2. repayments[s][i] \in Repayment
    BY <1>1 DEF SettlementTypeOK
  <2>3. /\ repayments[s][i].amount \in Nat
        /\ repayments[s][i].supplySnapshot \in Nat \ {0}
    BY <1>2, <2>2 DEF SnapshotBoundsSupply, Repayment
  <2> QED
    BY <2>1, <2>3, FloorBounds DEF Share
<1> HIDE DEF pay
<1>4. /\ TokenTypeOK' /\ SupplyIsSum'
      /\ totalSupply'[i] = totalSupply[i] - u
      /\ \A j \in Invoices \ {i} : totalSupply'[j] = totalSupply[j]
  BY <1>1, <1>2, <1>3, UpdateKeepsSupply
<1>5. usdc' \in [Accounts \cup Settlements -> Nat]
  BY <1>1, <1>2, <1>3 DEF MarketTypeOK
<1>6. MarketTypeOK'
  BY <1>1, <1>2, <1>4, <1>5 DEF MarketTypeOK, marketVars, oracleVars
<1>7. SettlementTypeOK'
  BY <1>1, <1>2, <1>3 DEF SettlementTypeOK
<1>8. UnitsWithinFace'
  <2> SUFFICES ASSUME NEW j \in Invoices
               PROVE  /\ j \in invoiceIds => totalSupply'[j] <= listings[j].faceValue
                      /\ j \notin invoiceIds => totalSupply'[j] = 0
    BY <1>2, <1>4 DEF UnitsWithinFace, SupplyIsSum, invoiceIds, marketVars
  <2>1. CASE j # i
    BY <1>1, <1>4, <2>1 DEF UnitsWithinFace
  <2>2. CASE j = i
    <3>1. i \in invoiceIds
      BY DEF Claim
    <3>2. /\ totalSupply[i] \in Nat /\ totalSupply'[i] \in Nat
          /\ listings[i].faceValue \in Nat /\ totalSupply[i] <= listings[i].faceValue
      BY <1>1, <1>4, <3>1, ListingFacts DEF TokenTypeOK, UnitsWithinFace
    <3> QED
      BY <1>3, <1>4, <2>2, <3>1, <3>2
  <2> QED
    BY <2>1, <2>2
<1>9. DepositsAddUp'
  <2> SUFFICES ASSUME NEW t \in Settlements, NEW j \in Invoices,
                      ~repayments[t][j].settled
               PROVE  /\ repayments[t][j].amount = Total(deposits[t][j])
                      /\ paidOut'[t][j] = 0
    BY <1>2 DEF DepositsAddUp
  <2>1. paidOut'[t][j] = paidOut[t][j]
    BY <1>1, <1>2 DEF SettlementTypeOK
  <2> QED
    BY <1>1, <2>1 DEF DepositsAddUp
<1> QED
  BY <1>3, <1>4, <1>6, <1>7, <1>8, <1>9 DEF Core, TypeOK, pay

(* The clock moves on. *)
LEMMA TickCore ==
  ASSUME Core, Tick,
         UNCHANGED <<tokenVars, marketVars, oracleVars, usdc, settlementVars>>
  PROVE  Core'
<1>1. /\ MarketTypeOK /\ TokenTypeOK /\ SettlementTypeOK
      /\ UnitsWithinFace /\ DepositsAddUp
  BY DEF Core, TypeOK, MarketTypeOK
<1>2. TokenTypeOK' /\ SettlementTypeOK'
  BY <1>1 DEF TokenTypeOK, SettlementTypeOK, tokenVars, settlementVars
<1>3. MarketTypeOK'
  BY <1>1, <1>2 DEF MarketTypeOK, Tick, marketVars, oracleVars
<1>4. UNCHANGED <<totalSupply, balanceOf, listings>>
  BY DEF tokenVars, marketVars
<1> QED
  BY <1>1, <1>2, <1>3, <1>4, UnitsUnchanged, DepositsUnchanged DEF Core, TypeOK

LEMMA StutterCore ==
  ASSUME Core, UNCHANGED vars
  PROVE  Core'
<1>1. /\ MarketTypeOK /\ TokenTypeOK /\ SettlementTypeOK
      /\ UnitsWithinFace /\ DepositsAddUp
  BY DEF Core, TypeOK, MarketTypeOK
<1>2. UNCHANGED <<tokenVars, marketVars, oracleVars, now, usdc, settlementVars>>
  BY DEF vars, chainVars
<1>3. TokenTypeOK' /\ SettlementTypeOK'
  BY <1>1, <1>2 DEF TokenTypeOK, SettlementTypeOK, tokenVars, settlementVars
<1>4. MarketTypeOK'
  BY <1>1, <1>2, <1>3 DEF MarketTypeOK, marketVars, oracleVars
<1>5. UNCHANGED <<totalSupply, balanceOf, listings>>
  BY <1>2 DEF tokenVars, marketVars
<1> QED
  BY <1>1, <1>2, <1>3, <1>4, <1>5, UnitsUnchanged, DepositsUnchanged DEF Core, TypeOK

(* Every step keeps the types and the sums they rest on. *)
LEMMA NextCore ==
  ASSUME Core, SnapshotBoundsSupply, [Next]_vars
  PROVE  Core'
<1>1. CASE MarketNext /\ UNCHANGED settlementVars
  <2>1. CASE OwnerNext
    BY <1>1, <2>1, OwnerCore
  <2>2. CASE TraderNext
    <3>1. PICK a \in Accounts :
            \/ \E q \in Quotes : ListInvoice(a, q)
            \/ \E i \in Invoices, units \in Amounts : BuyPrimary(a, i, units)
            \/ \E i \in Invoices, units \in Amounts, p \in Prices : MakeAsk(a, i, units, p)
            \/ \E id \in AskIds : CancelAsk(a, id)
            \/ \E id \in AskIds, units \in Amounts : FillAsk(a, id, units)
      BY <2>2 DEF TraderNext
    <3> QED
      BY <1>1, <3>1, ListInvoiceCore, BuyPrimaryCore, AskBookCore, FillAskCore
  <2>3. CASE TokenNext /\ UNCHANGED <<marketVars, oracleVars, now, usdc>>
    BY <1>1, <2>3, TokenCore
  <2>4. CASE Tick /\ UNCHANGED <<tokenVars, marketVars, oracleVars, usdc>>
    BY <1>1, <2>4, TickCore
  <2> QED
    BY <1>1, <2>1, <2>2, <2>3, <2>4 DEF MarketNext
<1>2. CASE SettlementNext
  BY <1>2, RegisterCore, SettleCore, WithdrawCore, ClaimCore DEF SettlementNext
<1>3. CASE UNCHANGED vars
  BY <1>3, StutterCore
<1> QED
  BY <1>1, <1>2, <1>3 DEF Next

-----------------------------------------------------------------------------
(* What every step leaves behind: listings are permanent, the clock does not
   go back, and the supply of a matured bond never grows, because only the
   market mints and it stops at maturity (InvoiceMarket.sol:185). *)
Ageing ==
  \A i \in invoiceIds :
    /\ listings'[i] = listings[i]
    /\ now <= now'
    /\ Matured(i) => totalSupply'[i] <= totalSupply[i]

LEMMA StepAgeing ==
  ASSUME Core, SnapshotBoundsSupply, [Next]_vars
  PROVE  Ageing
<1>1. /\ MarketTypeOK /\ TokenTypeOK /\ SupplyIsSum /\ now \in Nat
      /\ \A i \in Invoices : totalSupply[i] \in Nat
  BY DEF Core, TypeOK, MarketTypeOK, TokenTypeOK, UnitsWithinFace, SupplyIsSum
<1>2. ASSUME UNCHANGED <<totalSupply, listings>>, now <= now' PROVE Ageing
  BY <1>1, <1>2 DEF Ageing, invoiceIds
<1>3. CASE MarketNext /\ UNCHANGED settlementVars
  <2>1. CASE OwnerNext
    <3>1. UNCHANGED <<totalSupply, listings, now>>
      BY <2>1 DEF OwnerNext, SetFee, SetComplianceOperator, SetSettlement,
         GrantBondRole, RevokeBondRole, tokenVars, marketVars
    <3> QED
      BY <1>1, <1>2, <3>1
  <2>2. ASSUME NEW a \in Accounts, NEW q \in Quotes, ListInvoice(a, q)
        PROVE  Ageing
    <3>1. /\ UNCHANGED <<totalSupply, now>>
          /\ q.invoiceId \notin invoiceIds
          /\ \E l : listings' = [listings EXCEPT ![q.invoiceId] = l]
      BY <2>2 DEF ListInvoice, Deploy
    <3>2. \A i \in invoiceIds : listings'[i] = listings[i]
      BY <1>1, <3>1 DEF MarketTypeOK, invoiceIds
    <3> QED
      BY <1>1, <3>1, <3>2 DEF Ageing, invoiceIds
  <2>3. ASSUME NEW a \in Accounts, NEW i \in Invoices, NEW units \in Amounts,
               BuyPrimary(a, i, units)
        PROVE  Ageing
    <3>1. /\ Update(i, Zero, a, units) /\ i \in invoiceIds
          /\ now < listings[i].maturity
          /\ UNCHANGED <<marketVars, now>>
          /\ units \in Nat
      BY <2>3, TokenAssumption DEF BuyPrimary, Mint
    <3>2. \A j \in Invoices \ {i} : totalSupply'[j] = totalSupply[j]
      BY <1>1, <3>1 DEF Update, TokenTypeOK
    <3>3. ~Matured(i)
      BY <1>1, <3>1, ListingFacts DEF Matured
    <3> QED
      BY <1>1, <3>1, <3>2, <3>3 DEF Ageing, invoiceIds, marketVars
  <2>4. ASSUME NEW a \in Accounts,
               \/ \E i \in Invoices, units \in Amounts, p \in Prices :
                    MakeAsk(a, i, units, p)
               \/ \E id \in AskIds : CancelAsk(a, id)
        PROVE  Ageing
    BY <1>1, <1>2, <2>4 DEF MakeAsk, CancelAsk, tokenVars
  <2>5. ASSUME NEW a \in Accounts, NEW id \in AskIds, NEW units \in Amounts,
               FillAsk(a, id, units)
        PROVE  Ageing
    <3> DEFINE i == asks[id].invoiceId
               m == asks[id].maker
    <3>1. /\ Update(i, m, a, units)
          /\ UNCHANGED <<listings, now>>
          /\ units \in Nat
      BY <2>5, TokenAssumption DEF FillAsk, Transfer
    <3>2. asks[id] \in Ask
      BY <1>1, <2>5 DEF FillAsk, MarketTypeOK, NoAsk
    <3>3. i \in Invoices /\ m \in Accounts
      BY <3>2 DEF Ask
    <3>4. \A j \in Invoices : totalSupply'[j] = totalSupply[j]
      BY <1>1, <3>1, <3>3, TokenAssumption, UpdateKeepsSupply
    <3> QED
      BY <1>1, <3>1, <3>4 DEF Ageing, invoiceIds
  <2>6. CASE TokenNext /\ UNCHANGED <<marketVars, oracleVars, now, usdc>>
    <3>1. \A j \in Invoices : totalSupply'[j] = totalSupply[j]
      <4>1. ASSUME NEW i \in Invoices, NEW from \in Accounts, NEW to \in Accounts,
                   NEW units \in Amounts, Transfer(i, from, to, units)
            PROVE  <3>1
        BY <1>1, <4>1, UpdateKeepsSupply, TokenAssumption DEF Transfer
      <4> QED
        BY <2>6, <4>1 DEF TokenNext, SetEligible, SetFrozen
    <3> QED
      BY <1>1, <2>6, <3>1 DEF Ageing, invoiceIds, marketVars
  <2>7. CASE Tick /\ UNCHANGED <<tokenVars, marketVars, oracleVars, usdc>>
    BY <1>1, <1>2, <2>7 DEF Tick, tokenVars, marketVars
  <2> QED
    BY <1>3, <2>1, <2>2, <2>3, <2>4, <2>5, <2>6, <2>7 DEF MarketNext, TraderNext
<1>4. CASE SettlementNext
  <2>1. ASSUME NEW a \in Accounts, NEW s \in Settlements, NEW i \in Invoices,
               Claim(a, s, i)
        PROVE  Ageing
    <3>1. /\ totalSupply'[i] = totalSupply[i] - balanceOf[i][a]
          /\ \A j \in Invoices \ {i} : totalSupply'[j] = totalSupply[j]
          /\ balanceOf[i][a] \in Nat
      BY <1>1, <2>1, ClaimCore DEF TokenTypeOK
    <3>2. UNCHANGED <<listings, now>>
      BY <2>1 DEF Claim, marketVars
    <3> QED
      BY <1>1, <3>1, <3>2 DEF Ageing, invoiceIds
  <2>2. ASSUME NEW a \in Accounts, NEW s \in Settlements, NEW i \in Invoices,
               \/ \E amount \in Amounts : RegisterRepayment(a, s, i, amount)
               \/ Settle(a, s, i)
               \/ WithdrawRepayment(a, s, i)
        PROVE  Ageing
    BY <1>1, <1>2, <2>2 DEF RegisterRepayment, Settle, WithdrawRepayment,
       tokenVars, marketVars
  <2> QED
    BY <1>4, <2>1, <2>2 DEF SettlementNext
<1>5. CASE UNCHANGED vars
  BY <1>1, <1>2, <1>5 DEF vars, chainVars, tokenVars, marketVars
<1> QED
  BY <1>3, <1>4, <1>5 DEF Next

(* Nobody changes a repayment once it is settled; only settle settles one, on
   the supply it finds. *)
RepaymentStep ==
  \A s \in Settlements, i \in Invoices :
    \/ repayments'[s][i] = repayments[s][i]
    \/ ~repayments[s][i].settled /\ ~repayments'[s][i].settled
    \/ /\ ~repayments[s][i].settled
       /\ \E a \in Accounts : CanSettle(a, s, i)
       /\ totalSupply' = totalSupply
       /\ repayments'[s][i] = Snapshotted(repayments[s][i], totalSupply[i])

LEMMA StepRepayment ==
  ASSUME Core, [Next]_vars
  PROVE  RepaymentStep
<1>1. SettlementTypeOK
  BY DEF Core, TypeOK
<1>2. ASSUME UNCHANGED repayments PROVE RepaymentStep
  BY <1>2 DEF RepaymentStep
<1>3. ASSUME NEW a \in Accounts, NEW s \in Settlements, NEW i \in Invoices,
             NEW amount \in Int, ~repayments[s][i].settled,
             repayments' = [repayments EXCEPT ![s][i] = Adjusted(@, amount)]
      PROVE  RepaymentStep
  <2>1. repayments'[s][i].settled = repayments[s][i].settled
    <3>1. repayments'[s][i] = Adjusted(repayments[s][i], amount)
      BY <1>1, <1>3 DEF SettlementTypeOK
    <3>2. repayments[s][i] \in Repayment
      BY <1>1 DEF SettlementTypeOK
    <3> QED
      BY <3>1, <3>2 DEF Adjusted, Repayment
  <2>2. \A t \in Settlements, j \in Invoices :
          ~(t = s /\ j = i) => repayments'[t][j] = repayments[t][j]
    BY <1>1, <1>3 DEF SettlementTypeOK
  <2> QED
    BY <1>3, <2>1, <2>2 DEF RepaymentStep
<1>4. ASSUME NEW a \in Accounts, NEW s \in Settlements, NEW i \in Invoices,
             Settle(a, s, i)
      PROVE  RepaymentStep
  <2>1. /\ CanSettle(a, s, i) /\ ~repayments[s][i].settled
        /\ totalSupply' = totalSupply
        /\ repayments' = [repayments EXCEPT ![s][i] = Snapshotted(@, totalSupply[i])]
    BY <1>4 DEF Settle, CanSettle, tokenVars
  <2>2. /\ repayments'[s][i] = Snapshotted(repayments[s][i], totalSupply[i])
        /\ \A t \in Settlements, j \in Invoices :
             ~(t = s /\ j = i) => repayments'[t][j] = repayments[t][j]
    BY <1>1, <2>1 DEF SettlementTypeOK
  <2> QED
    BY <2>1, <2>2 DEF RepaymentStep
<1>5. CASE SettlementNext
  <2>1. PICK a \in Accounts, s \in Settlements, i \in Invoices :
          \/ \E amount \in Amounts : RegisterRepayment(a, s, i, amount)
          \/ Settle(a, s, i)
          \/ WithdrawRepayment(a, s, i)
          \/ Claim(a, s, i)
    BY <1>5 DEF SettlementNext
  <2>2. ASSUME NEW amount \in Amounts, RegisterRepayment(a, s, i, amount)
        PROVE  RepaymentStep
    <3>1. /\ amount \in Int
          /\ ~repayments[s][i].settled
          /\ repayments' = [repayments EXCEPT ![s][i] = Adjusted(@, amount)]
      BY <2>2, TokenAssumption DEF RegisterRepayment
    <3> QED
      BY <1>3, <3>1
  <2>3. CASE WithdrawRepayment(a, s, i)
    <3> DEFINE d == -deposits[s][i][a]
    <3>1. deposits[s][i][a] \in Nat
      BY <1>1 DEF SettlementTypeOK
    <3>2. d \in Int
      BY <3>1
    <3>3. /\ ~repayments[s][i].settled
          /\ repayments' = [repayments EXCEPT ![s][i] = Adjusted(@, d)]
      BY <2>3 DEF WithdrawRepayment, CanWithdraw
    <3> HIDE DEF d
    <3> QED
      BY <1>3, <3>2, <3>3
  <2>4. CASE Claim(a, s, i)
    BY <1>2, <2>4 DEF Claim
  <2> QED
    BY <1>4, <2>1, <2>2, <2>3, <2>4
<1>6. CASE (MarketNext /\ UNCHANGED settlementVars) \/ UNCHANGED vars
  BY <1>2, <1>6 DEF vars, settlementVars
<1> QED
  BY <1>5, <1>6 DEF Next

(* A snapshot once taken keeps bounding the units outstanding. *)
LEMMA NextSnapshot ==
  ASSUME Core, Core', SnapshotBoundsSupply, [Next]_vars
  PROVE  SnapshotBoundsSupply'
<1>1. Ageing /\ RepaymentStep
  BY StepAgeing, StepRepayment
<1>2. /\ MarketTypeOK /\ now \in Nat /\ now' \in Nat
      /\ \A i \in Invoices : totalSupply[i] \in Nat /\ totalSupply'[i] \in Nat
      /\ \A s \in Settlements, i \in Invoices : repayments[s][i] \in Repayment
  BY DEF Core, TypeOK, MarketTypeOK, TokenTypeOK, SettlementTypeOK
<1> SUFFICES ASSUME NEW s \in Settlements, NEW i \in Invoices,
                    repayments'[s][i].settled
             PROVE  /\ i \in invoiceIds'
                    /\ Matured(i)'
                    /\ repayments'[s][i].supplySnapshot # 0
                    /\ totalSupply'[i] <= repayments'[s][i].supplySnapshot
  BY DEF SnapshotBoundsSupply
<1>3. ASSUME i \in invoiceIds, Matured(i)
      PROVE  i \in invoiceIds' /\ Matured(i)' /\ totalSupply'[i] <= totalSupply[i]
  <2>1. listings'[i] = listings[i] /\ now <= now' /\ totalSupply'[i] <= totalSupply[i]
    BY <1>1, <1>3 DEF Ageing
  <2>2. listings[i].maturity \in Nat
    BY <1>2, <1>3, ListingFacts
  <2> QED
    BY <1>2, <1>3, <2>1, <2>2 DEF Matured, invoiceIds
<1>4. CASE repayments'[s][i] = repayments[s][i]
  <2>1. /\ i \in invoiceIds /\ Matured(i)
        /\ repayments[s][i].supplySnapshot # 0
        /\ totalSupply[i] <= repayments[s][i].supplySnapshot
    BY <1>4 DEF SnapshotBoundsSupply
  <2>2. repayments[s][i].supplySnapshot \in Nat
    BY <1>2 DEF Repayment
  <2> QED
    BY <1>2, <1>3, <1>4, <2>1, <2>2
<1>5. CASE repayments'[s][i] # repayments[s][i]
  <2>0. \/ ~repayments[s][i].settled /\ ~repayments'[s][i].settled
        \/ /\ \E a \in Accounts : CanSettle(a, s, i)
           /\ totalSupply' = totalSupply
           /\ repayments'[s][i] = Snapshotted(repayments[s][i], totalSupply[i])
    BY <1>1, <1>5 DEF RepaymentStep
  <2>1. /\ \E a \in Accounts : CanSettle(a, s, i)
        /\ totalSupply' = totalSupply
        /\ repayments'[s][i].supplySnapshot = totalSupply[i]
    BY <2>0 DEF Snapshotted
  <2>2. i \in invoiceIds /\ Matured(i) /\ totalSupply[i] # 0
    BY <2>1 DEF CanSettle
  <2> QED
    BY <1>2, <1>3, <2>1, <2>2
<1> QED
  BY <1>4, <1>5

-----------------------------------------------------------------------------
(* The inductive invariant of the protocol. *)
IInv == Core /\ SnapshotBoundsSupply

(* It holds in every state the contracts reach, for every set of accounts. *)
THEOREM Invariance == Spec => []IInv
<1>1. Init => IInv
  BY InitCore DEF IInv, Init, SettlementInit, SnapshotBoundsSupply
<1>2. IInv /\ [Next]_vars => IInv'
  BY NextCore, NextSnapshot DEF IInv
<1> QED
  BY <1>1, <1>2, PTL DEF Spec

(* Every variable keeps its type, for every instance. *)
THEOREM TypeCorrect == Spec => []TypeOK
<1>1. IInv => TypeOK
  BY DEF IInv, Core
<1> QED
  BY <1>1, Invariance, PTL

(* A bond's supply is the sum of its balances and within its face value. *)
THEOREM SupplyWithinFace == Spec => []UnitsWithinFace
<1>1. IInv => UnitsWithinFace
  BY DEF IInv, Core
<1> QED
  BY <1>1, Invariance, PTL

(* An unsettled repayment is the sum of the deposits behind it. *)
THEOREM RepaymentIsDeposits == Spec => []DepositsAddUp
<1>1. IInv => DepositsAddUp
  BY DEF IInv, Core
<1> QED
  BY <1>1, Invariance, PTL

(* Settlement happens after maturity and its snapshot bounds the supply. *)
THEOREM SnapshotSafe == Spec => []SnapshotBoundsSupply
<1>1. IInv => SnapshotBoundsSupply
  BY DEF IInv
<1> QED
  BY <1>1, Invariance, PTL

(* A settled repayment is final and a settled bond's supply never grows. *)
THEOREM SettledRateFinal == Spec => SettledRateIsFinal
<1> DEFINE Final ==
      \A s \in Settlements, i \in Invoices :
        repayments[s][i].settled =>
          /\ repayments'[s][i] = repayments[s][i]
          /\ totalSupply'[i] <= totalSupply[i]
<1>1. IInv /\ [Next]_vars => Final
  <2> SUFFICES ASSUME IInv, [Next]_vars, NEW s \in Settlements, NEW i \in Invoices,
                      repayments[s][i].settled
               PROVE  /\ repayments'[s][i] = repayments[s][i]
                      /\ totalSupply'[i] <= totalSupply[i]
    OBVIOUS
  <2>1. Ageing /\ RepaymentStep
    BY StepAgeing, StepRepayment DEF IInv
  <2>2. i \in invoiceIds /\ Matured(i)
    BY DEF IInv, SnapshotBoundsSupply
  <2> QED
    BY <2>1, <2>2 DEF Ageing, RepaymentStep
<1>2. IInv /\ [Next]_vars => [Final]_vars
  BY <1>1
<1> QED
  BY <1>2, Invariance, PTL DEF Spec, SettledRateIsFinal

-----------------------------------------------------------------------------
(* Money leaves a settled pot by claims only: every other step leaves the
   payouts alone (MaturitySettlement.sol:119). *)
LEMMA PaidByClaim ==
  ASSUME [Next]_vars
  PROVE  \/ UNCHANGED paidOut
         \/ \E a \in Accounts, s \in Settlements, i \in Invoices : Claim(a, s, i)
<1>1. CASE SettlementNext
  <2>1. PICK a \in Accounts, s \in Settlements, i \in Invoices :
          \/ \E amount \in Amounts : RegisterRepayment(a, s, i, amount)
          \/ Settle(a, s, i)
          \/ WithdrawRepayment(a, s, i)
          \/ Claim(a, s, i)
    BY <1>1 DEF SettlementNext
  <2> QED
    BY <2>1 DEF RegisterRepayment, Settle, WithdrawRepayment
<1>2. CASE (MarketNext /\ UNCHANGED settlementVars) \/ UNCHANGED vars
  BY <1>2 DEF vars, settlementVars
<1> QED
  BY <1>1, <1>2 DEF Next

(* A pot that covers its units is not overdrawn. *)
LEMMA CoveredPot ==
  ASSUME Core, SnapshotBoundsSupply, ClaimsCovered,
         NEW s \in Settlements, NEW i \in Invoices, repayments[s][i].settled
  PROVE  /\ repayments[s][i].amount \in Nat
         /\ repayments[s][i].supplySnapshot \in Nat \ {0}
         /\ Pot(s, i) \in Nat
         /\ repayments[s][i].amount * totalSupply[i]
              <= Pot(s, i) * repayments[s][i].supplySnapshot
<1> DEFINE m == repayments[s][i].amount
           n == repayments[s][i].supplySnapshot
           p == paidOut[s][i]
           u == totalSupply[i]
<1>1. m \in Nat /\ n \in Nat /\ p \in Nat /\ u \in Nat
  <2>1. repayments[s][i] \in Repayment /\ p \in Nat
    BY DEF Core, TypeOK, SettlementTypeOK
  <2>2. u \in Nat
    BY DEF Core, TypeOK, MarketTypeOK, TokenTypeOK
  <2> QED
    BY <2>1, <2>2 DEF Repayment
<1>2. n # 0 /\ m * u <= (m - p) * n
  BY DEF SnapshotBoundsSupply, ClaimsCovered, Pot
<1>3. Pot(s, i) = m - p
  BY DEF Pot
<1> HIDE DEF m, n, p, u
<1>4. 0 <= m * u
  BY <1>1
<1>5. 0 <= (m - p) * n
  BY <1>1, <1>2, <1>4
<1>6. m - p \in Nat
  BY <1>1, <1>2, <1>5
<1> QED
  BY <1>1, <1>2, <1>3, <1>6 DEF m, n, p, u

(* Fewer units outstanding need no bigger pot. *)
LEMMA FewerUnitsCovered ==
  ASSUME NEW m \in Nat, NEW u \in Nat, NEW v \in Nat, NEW c \in Int,
         v <= u, m * u <= c
  PROVE  m * v <= c
<1>1. m * v <= m * u
  OBVIOUS
<1>2. m * v \in Int /\ m * u \in Int
  OBVIOUS
<1> QED
  BY <1>1, <1>2

(* A claim takes its share, rounded down, out of its own pot: what is left
   covers the units left, and another settlement contract that claims on the
   same bond only lowers the units this one owes (MaturitySettlement.sol:
   110-120). *)
LEMMA ClaimCovered ==
  ASSUME Core, SnapshotBoundsSupply, ClaimsCovered,
         NEW a \in Accounts, NEW s \in Settlements, NEW i \in Invoices,
         Claim(a, s, i)
  PROVE  /\ ClaimsCovered'
         /\ Share(s, i, balanceOf[i][a]) <= Pot(s, i)
<1> DEFINE pay == Share(s, i, balanceOf[i][a])
<1>1. /\ SettlementTypeOK
      /\ \A j \in Invoices : totalSupply[j] \in Nat
      /\ balanceOf[i][a] \in Nat
  BY DEF Core, TypeOK, MarketTypeOK, TokenTypeOK
<1>2. /\ UNCHANGED repayments
      /\ repayments[s][i].settled
      /\ paidOut' = [paidOut EXCEPT ![s][i] = @ + pay]
  BY DEF Claim
<1>3. /\ pay \in Nat
      /\ totalSupply'[i] = totalSupply[i] - balanceOf[i][a]
      /\ \A j \in Invoices \ {i} : totalSupply'[j] = totalSupply[j]
      /\ \A j \in Invoices : totalSupply'[j] \in Nat
  <2>1. Core'
    BY ClaimCore
  <2>2. \A j \in Invoices : totalSupply'[j] \in Nat
    BY <2>1 DEF Core, TypeOK, MarketTypeOK, TokenTypeOK
  <2> QED
    BY <2>2, ClaimCore
<1>4. pay = MulDivFloor(repayments[s][i].amount, balanceOf[i][a],
                        repayments[s][i].supplySnapshot)
  BY DEF Share
<1> SUFFICES ASSUME NEW t \in Settlements, NEW j \in Invoices,
                    repayments[t][j].settled
             PROVE  /\ repayments[t][j].amount * totalSupply'[j]
                         <= Pot(t, j)' * repayments[t][j].supplySnapshot
                    /\ t = s /\ j = i => pay <= Pot(t, j)
  BY <1>2 DEF ClaimsCovered
<1> HIDE DEF pay
<1>5. /\ repayments[t][j].amount \in Nat
      /\ repayments[t][j].supplySnapshot \in Nat \ {0}
      /\ Pot(t, j) \in Nat
      /\ repayments[t][j].amount * totalSupply[j]
           <= Pot(t, j) * repayments[t][j].supplySnapshot
  BY CoveredPot
<1>6. totalSupply'[j] <= totalSupply[j]
  BY <1>1, <1>3
<1>7. CASE t = s /\ j = i
  <2>1. Pot(t, j)' = Pot(t, j) - pay
    <3>1. paidOut'[s][i] = paidOut[s][i] + pay
      BY <1>1, <1>2 DEF SettlementTypeOK
    <3>2. paidOut[s][i] \in Nat
      BY <1>1 DEF SettlementTypeOK
    <3> QED
      BY <1>2, <1>3, <1>5, <1>7, <3>1, <3>2 DEF Pot
  <2>2. pay = MulDivFloor(repayments[t][j].amount,
                          totalSupply[j] - totalSupply'[j],
                          repayments[t][j].supplySnapshot)
    <3>1. totalSupply[j] - totalSupply'[j] = balanceOf[i][a]
      BY <1>1, <1>3, <1>7
    <3> QED
      BY <1>4, <1>7, <3>1
  <2>3. /\ repayments[t][j].amount * totalSupply'[j]
             <= (Pot(t, j) - pay) * repayments[t][j].supplySnapshot
        /\ Pot(t, j) - pay \in Nat
    <3>1. totalSupply[j] \in Nat /\ totalSupply'[j] \in Nat
      BY <1>1, <1>3
    <3> QED
      BY <1>5, <1>6, <2>2, <3>1, RedeemKeepsCover
  <2> QED
    BY <1>3, <1>5, <2>1, <2>3
<1>8. CASE ~(t = s /\ j = i)
  <2>1. Pot(t, j)' = Pot(t, j)
    BY <1>1, <1>2, <1>8 DEF Pot, SettlementTypeOK
  <2>2. Pot(t, j) * repayments[t][j].supplySnapshot \in Int
    BY <1>5
  <2>3. repayments[t][j].amount * totalSupply'[j]
          <= Pot(t, j) * repayments[t][j].supplySnapshot
    BY <1>1, <1>3, <1>5, <1>6, <2>2, FewerUnitsCovered
  <2> QED
    BY <1>8, <2>1, <2>3
<1> QED
  BY <1>7, <1>8

(* No step leaves a settled pot short. *)
LEMMA NextCovered ==
  ASSUME Core, Core', SnapshotBoundsSupply, ClaimsCovered, [Next]_vars
  PROVE  ClaimsCovered'
<1>1. ASSUME UNCHANGED paidOut PROVE ClaimsCovered'
  <2>1. Ageing /\ RepaymentStep
    BY StepAgeing, StepRepayment
  <2>2. /\ SettlementTypeOK /\ DepositsAddUp
        /\ \A i \in Invoices : totalSupply[i] \in Nat /\ totalSupply'[i] \in Nat
    BY DEF Core, TypeOK, MarketTypeOK, TokenTypeOK
  <2> SUFFICES ASSUME NEW s \in Settlements, NEW i \in Invoices,
                      repayments'[s][i].settled
               PROVE  repayments'[s][i].amount * totalSupply'[i]
                        <= Pot(s, i)' * repayments'[s][i].supplySnapshot
    BY DEF ClaimsCovered
  <2>3. CASE repayments'[s][i] = repayments[s][i]
    <3>1. /\ repayments[s][i].amount \in Nat
          /\ repayments[s][i].supplySnapshot \in Nat \ {0}
          /\ Pot(s, i) \in Nat
          /\ repayments[s][i].amount * totalSupply[i]
               <= Pot(s, i) * repayments[s][i].supplySnapshot
      BY <2>3, CoveredPot
    <3>2. totalSupply'[i] <= totalSupply[i]
      BY <2>1, <2>3 DEF SnapshotBoundsSupply, Ageing
    <3>3. Pot(s, i)' = Pot(s, i)
      BY <1>1, <2>3 DEF Pot
    <3>4. Pot(s, i) * repayments[s][i].supplySnapshot \in Int
      BY <3>1
    <3> QED
      BY <2>2, <2>3, <3>1, <3>2, <3>3, <3>4, FewerUnitsCovered
  <2>4. CASE repayments'[s][i] # repayments[s][i]
    <3>1. /\ ~repayments[s][i].settled
          /\ totalSupply' = totalSupply
          /\ repayments'[s][i] = Snapshotted(repayments[s][i], totalSupply[i])
      BY <2>1, <2>4 DEF RepaymentStep
    <3>2. /\ repayments'[s][i].amount = repayments[s][i].amount
          /\ repayments'[s][i].supplySnapshot = totalSupply[i]
      BY <3>1 DEF Snapshotted
    <3>3. paidOut'[s][i] = 0
      BY <1>1, <2>2, <3>1 DEF DepositsAddUp
    <3>4. repayments[s][i].amount \in Nat
      BY <2>2 DEF SettlementTypeOK, Repayment
    <3>5. Pot(s, i)' = repayments[s][i].amount
      BY <3>2, <3>3, <3>4 DEF Pot
    <3> QED
      BY <2>2, <3>1, <3>2, <3>4, <3>5
  <2> QED
    BY <2>3, <2>4
<1> QED
  BY <1>1, PaidByClaim, ClaimCovered

(* Claims can be paid in any order: the pot covers every unit outstanding. *)
THEOREM AllClaimsCovered == Spec => []ClaimsCovered
<1>1. Init => ClaimsCovered
  BY DEF Init, SettlementInit, ClaimsCovered
<1>2. IInv /\ IInv' /\ ClaimsCovered /\ [Next]_vars => ClaimsCovered'
  BY NextCovered DEF IInv
<1> QED
  BY <1>1, <1>2, Invariance, PTL DEF Spec

-----------------------------------------------------------------------------
(* Listings and used nonces change together and only in listInvoice, by one
   each (InvoiceMarket.sol:146-179, DiscountOracle.sol:63-68). *)
ListingStep ==
  \/ invoiceIds' = invoiceIds /\ nonceUsed' = nonceUsed
  \/ \E i \in Invoices \ invoiceIds, n \in Nonces \ nonceUsed :
       invoiceIds' = invoiceIds \cup {i} /\ nonceUsed' = nonceUsed \cup {n}

LEMMA StepListing ==
  ASSUME Core, [Next]_vars
  PROVE  ListingStep
<1>1. ASSUME UNCHANGED <<listings, nonceUsed>> PROVE ListingStep
  BY <1>1 DEF ListingStep, invoiceIds
<1>2. ASSUME NEW a \in Accounts, NEW q \in Quotes, ListInvoice(a, q)
      PROVE  ListingStep
  <2> DEFINE i == q.invoiceId
             l == [listed |-> TRUE, issuer |-> a, faceValue |-> q.faceValue,
                   discountRateBps |-> q.discountRateBps, maturity |-> q.maturity]
  <2>1. i \in Invoices /\ q.nonce \in Nonces
    BY MarketAssumption DEF Quote, Nonces
  <2>2. /\ i \notin invoiceIds
        /\ listings' = [listings EXCEPT ![i] = l]
        /\ q.nonce \notin nonceUsed
        /\ nonceUsed' = nonceUsed \cup {q.nonce}
    BY <1>2 DEF ListInvoice, Consume, Verify
  <2>3. listings \in [Invoices -> Listing \cup {NotListed}]
    BY DEF Core, TypeOK, MarketTypeOK
  <2>4. invoiceIds' = invoiceIds \cup {i}
    BY <2>1, <2>2, <2>3 DEF invoiceIds
  <2> QED
    BY <2>1, <2>2, <2>4 DEF ListingStep
<1>3. CASE MarketNext /\ UNCHANGED settlementVars
  <2>1. CASE OwnerNext
    BY <1>1, <2>1 DEF OwnerNext, SetFee, SetComplianceOperator, SetSettlement,
       GrantBondRole, RevokeBondRole, SetSigner, SetConsumer, marketVars, oracleVars
  <2>2. CASE TraderNext
    BY <1>1, <1>2, <2>2 DEF TraderNext, BuyPrimary, MakeAsk, CancelAsk, FillAsk,
       marketVars, oracleVars
  <2>3. CASE \/ TokenNext /\ UNCHANGED <<marketVars, oracleVars, now, usdc>>
             \/ Tick /\ UNCHANGED <<tokenVars, marketVars, oracleVars, usdc>>
    BY <1>1, <2>3 DEF marketVars, oracleVars
  <2> QED
    BY <1>3, <2>1, <2>2, <2>3 DEF MarketNext
<1>4. CASE SettlementNext
  BY <1>1, <1>4 DEF SettlementNext, RegisterRepayment, Settle, WithdrawRepayment,
     Claim, marketVars, oracleVars
<1>5. CASE UNCHANGED vars
  BY <1>1, <1>5 DEF vars, chainVars, marketVars, oracleVars
<1> QED
  BY <1>3, <1>4, <1>5 DEF Next

(* The count of listings needs both sets finite. *)
ListingInv == IsFiniteSet(nonceUsed) /\ OneListingPerNonce

(* A quote opens at most one listing, for every set of quotes: each new nonce is
   one more. *)
THEOREM OneListingEach == Spec => []OneListingPerNonce
<1>1. Init => ListingInv
  <2> SUFFICES ASSUME Init PROVE ListingInv
    OBVIOUS
  <2>1. nonceUsed = {} /\ invoiceIds = {}
    BY DEF Init, MarketInit, invoiceIds, NotListed
  <2> QED
    BY <2>1, FS_EmptySet DEF ListingInv, OneListingPerNonce
<1>2. IInv /\ ListingInv /\ [Next]_vars => ListingInv'
  <2> SUFFICES ASSUME IInv, ListingInv, [Next]_vars PROVE ListingInv'
    OBVIOUS
  <2>1. ListingStep
    BY StepListing DEF IInv
  <2>2. IsFiniteSet(invoiceIds)
    <3>1. invoiceIds \subseteq Invoices
      BY DEF invoiceIds
    <3> QED
      BY <3>1, TokenAssumption, FS_Subset
  <2>3. CASE invoiceIds' = invoiceIds /\ nonceUsed' = nonceUsed
    BY <2>3 DEF ListingInv, OneListingPerNonce
  <2>4. ASSUME NEW i \in Invoices \ invoiceIds, NEW n \in Nonces \ nonceUsed,
               invoiceIds' = invoiceIds \cup {i}, nonceUsed' = nonceUsed \cup {n}
        PROVE  ListingInv'
    <3>1. /\ Cardinality(invoiceIds') = Cardinality(invoiceIds) + 1
          /\ IsFiniteSet(nonceUsed')
          /\ Cardinality(nonceUsed') = Cardinality(nonceUsed) + 1
      BY <2>2, <2>4, FS_AddElement DEF ListingInv
    <3> QED
      BY <3>1 DEF ListingInv, OneListingPerNonce
  <2> QED
    BY <2>1, <2>3, <2>4 DEF ListingStep
<1> QED
  BY <1>1, <1>2, Invariance, PTL DEF Spec, ListingInv

-----------------------------------------------------------------------------
(* When one pot and its contract's USDC move by the same amount and nothing
   else of the settlement contracts does, the pots stay separate. *)
LEMMA OnePotMoves ==
  ASSUME Core, Core', PotsAreSeparate,
         NEW s \in Settlements, NEW i \in Invoices, NEW d \in Int,
         Pot(s, i)' = Pot(s, i) + d, 0 <= Pot(s, i) + d,
         usdc'[s] = usdc[s] + d,
         \A t \in Settlements \ {s} : usdc'[t] = usdc[t],
         \A t \in Settlements, j \in Invoices :
           ~(t = s /\ j = i) => Pot(t, j)' = Pot(t, j)
  PROVE  PotsAreSeparate'
<1> DEFINE f == [t \in Settlements |-> [j \in Invoices |-> Pot(t, j)]]
           g == [t \in Settlements |-> [j \in Invoices |-> Pot(t, j)']]
<1>1. \A t \in Settlements, j \in Invoices :
        /\ paidOut[t][j] \in Nat /\ paidOut'[t][j] \in Nat
        /\ repayments[t][j].amount \in Nat /\ repayments'[t][j].amount \in Nat
  BY DEF Core, TypeOK, SettlementTypeOK, Repayment
<1>2. \A t \in Settlements, j \in Invoices : Pot(t, j) \in Nat /\ Pot(t, j)' \in Nat
  <2> TAKE t \in Settlements, j \in Invoices
  <2>1. Pot(t, j) \in Nat
    <3>1. paidOut[t][j] <= repayments[t][j].amount
      BY DEF PotsAreSeparate
    <3>2. paidOut[t][j] \in Nat /\ repayments[t][j].amount \in Nat
      BY <1>1
    <3> QED
      BY <3>1, <3>2 DEF Pot
  <2>2. CASE t = s /\ j = i
    <3>1. Pot(t, j)' = Pot(s, i) + d
      BY <2>2
    <3> QED
      BY <2>1, <2>2, <3>1
  <2>3. CASE ~(t = s /\ j = i)
    <3>1. Pot(t, j)' = Pot(t, j)
      BY <2>3
    <3> QED
      BY <2>1, <3>1
  <2> QED
    BY <2>2, <2>3
<1>3. \A t \in Settlements : f[t] \in [Invoices -> Nat] /\ g[t] \in [Invoices -> Nat]
  BY <1>2
<1>4. \A t \in Settlements : usdc[t] = Total(f[t])
  BY DEF PotsAreSeparate
<1>5. \A t \in Settlements : usdc'[t] = Total(g[t])
  <2> TAKE t \in Settlements
  <2>1. CASE t # s
    <3>1. f[t] = g[t]
      BY <2>1
    <3> QED
      BY <1>4, <2>1, <3>1
  <2>2. CASE t = s
    <3>1. \A j \in Invoices \ {i} : g[t][j] = f[t][j]
      BY <2>2
    <3>2. Total(g[t]) = Total(f[t]) - f[t][i] + g[t][i]
      BY <1>3, <3>1, TokenAssumption, TotalChange
    <3>3. Total(f[t]) \in Nat
      BY <1>3, TokenAssumption, TotalType
    <3>4. f[t][i] \in Nat /\ g[t][i] = f[t][i] + d
      BY <1>2, <2>2
    <3>5. usdc'[t] = Total(f[t]) + d
      BY <1>4, <2>2
    <3> HIDE DEF f, g
    <3> QED
      BY <3>2, <3>3, <3>4, <3>5
  <2> QED
    BY <2>1, <2>2
<1>6. \A t \in Settlements, j \in Invoices :
        paidOut'[t][j] <= repayments'[t][j].amount
  BY <1>1, <1>2 DEF Pot
<1> QED
  BY <1>5, <1>6 DEF PotsAreSeparate, Pot

(* Steps that move no settlement money. *)
LEMMA NoPotMoves ==
  ASSUME PotsAreSeparate,
         UNCHANGED paidOut,
         \A s \in Settlements : usdc'[s] = usdc[s],
         \A s \in Settlements, i \in Invoices :
           repayments'[s][i].amount = repayments[s][i].amount
  PROVE  PotsAreSeparate'
<1>1. \A s \in Settlements, i \in Invoices : Pot(s, i)' = Pot(s, i)
  BY DEF Pot
<1>2. \A s \in Settlements :
        [i \in Invoices |-> Pot(s, i)]' = [i \in Invoices |-> Pot(s, i)]
  BY <1>1
<1> QED
  BY <1>2 DEF PotsAreSeparate

(* The market and the owner never touch a settlement contract's USDC. *)
LEMMA MarketKeepsSettlementUsdc ==
  ASSUME Core, MarketNext
  PROVE  \A s \in Settlements : usdc'[s] = usdc[s]
<1>1. MarketTypeOK
  BY DEF Core, TypeOK
<1>2. CASE OwnerNext
  BY <1>2 DEF OwnerNext, SetFee, SetComplianceOperator, SetSettlement,
     GrantBondRole, RevokeBondRole
<1>3. ASSUME NEW a \in Accounts, NEW i \in Invoices, NEW units \in Amounts,
             BuyPrimary(a, i, units)
      PROVE  \A s \in Settlements : usdc'[s] = usdc[s]
  <2> DEFINE c == Cost(units, Bps - listings[i].discountRateBps)
  <2>1. i \in invoiceIds /\ PayWithFee(a, listings[i].issuer, c) /\ units \in Nat
    BY <1>3, TokenAssumption DEF BuyPrimary
  <2>2. listings[i].issuer \in Accounts /\ c \in Nat
    BY <1>1, <2>1, ListingFacts, CeilBounds, MarketAssumption DEF Cost
  <2> HIDE DEF c
  <2> QED
    BY <1>1, <2>1, <2>2, PayWithFeeEffect
<1>4. ASSUME NEW a \in Accounts, NEW id \in AskIds, NEW units \in Amounts,
             FillAsk(a, id, units)
      PROVE  \A s \in Settlements : usdc'[s] = usdc[s]
  <2> DEFINE c == Cost(units, asks[id].priceBps)
  <2>1. PayWithFee(a, asks[id].maker, c) /\ units \in Nat
    BY <1>4, TokenAssumption DEF FillAsk
  <2>2. asks[id] \in Ask
    BY <1>1, <1>4 DEF FillAsk, MarketTypeOK, NoAsk
  <2>3. asks[id].maker \in Accounts /\ asks[id].priceBps \in Nat
    BY <2>2 DEF Ask
  <2>4. c \in Nat
    BY <2>1, <2>3, CeilBounds, MarketAssumption DEF Cost
  <2> HIDE DEF c
  <2> QED
    BY <1>1, <2>1, <2>3, <2>4, PayWithFeeEffect
<1>5. CASE TraderNext
  BY <1>3, <1>4, <1>5 DEF TraderNext, ListInvoice, MakeAsk, CancelAsk
<1> QED
  BY <1>2, <1>5 DEF MarketNext

(* No step pays one invoice from another's repayment. *)
LEMMA NextPots ==
  ASSUME Core, Core', SnapshotBoundsSupply, ClaimsCovered, PotsAreSeparate,
         [Next]_vars
  PROVE  PotsAreSeparate'
<1>1. /\ SettlementTypeOK /\ DepositsAddUp
      /\ usdc \in [Accounts \cup Settlements -> Nat]
      /\ Accounts \cap Settlements = {}
  BY MarketAssumption DEF Core, TypeOK, MarketTypeOK, Settlements
<1>2. \A s \in Settlements, i \in Invoices :
        /\ repayments[s][i] \in Repayment /\ repayments[s][i].amount \in Nat
        /\ paidOut[s][i] \in Nat /\ Pot(s, i) \in Nat
        /\ repayments[s][i].amount = Pot(s, i) + paidOut[s][i]
  <2> TAKE s \in Settlements, i \in Invoices
  <2>1. repayments[s][i] \in Repayment /\ paidOut[s][i] \in Nat
    BY <1>1 DEF SettlementTypeOK
  <2>2. repayments[s][i].amount \in Nat
    BY <2>1 DEF Repayment
  <2>3. paidOut[s][i] <= repayments[s][i].amount
    BY DEF PotsAreSeparate
  <2> QED
    BY <2>1, <2>2, <2>3 DEF Pot
<1>3. ASSUME NEW a \in Accounts, NEW s \in Settlements, NEW i \in Invoices,
             NEW amount \in Amounts, RegisterRepayment(a, s, i, amount)
      PROVE  PotsAreSeparate'
  <2>1. /\ amount \in Nat
        /\ usdc' = [usdc EXCEPT ![a] = @ - amount, ![s] = @ + amount]
        /\ repayments' = [repayments EXCEPT ![s][i] = Adjusted(@, amount)]
        /\ UNCHANGED paidOut
    BY <1>3, TokenAssumption DEF RegisterRepayment, Pay
  <2>2. /\ usdc'[s] = usdc[s] + amount
        /\ \A t \in Settlements \ {s} : usdc'[t] = usdc[t]
    BY <1>1, <2>1
  <2>3. repayments'[s][i] = Adjusted(repayments[s][i], amount)
    BY <1>1, <2>1 DEF SettlementTypeOK
  <2>4. repayments'[s][i].amount = repayments[s][i].amount + amount
    BY <1>2, <2>3 DEF Adjusted, Repayment
  <2>5. \A t \in Settlements, j \in Invoices :
          ~(t = s /\ j = i) => repayments'[t][j] = repayments[t][j]
    BY <1>1, <2>1 DEF SettlementTypeOK
  <2>6. Pot(s, i)' = Pot(s, i) + amount
    BY <1>2, <2>1, <2>4 DEF Pot
  <2>7. \A t \in Settlements, j \in Invoices :
          ~(t = s /\ j = i) => Pot(t, j)' = Pot(t, j)
    BY <2>1, <2>5 DEF Pot
  <2>8. 0 <= Pot(s, i) + amount
    BY <1>2, <2>1
  <2>9. amount \in Int
    BY <2>1
  <2> QED
    BY <2>2, <2>6, <2>7, <2>8, <2>9, OnePotMoves
<1>4. ASSUME NEW a \in Accounts, NEW s \in Settlements, NEW i \in Invoices,
             WithdrawRepayment(a, s, i)
      PROVE  PotsAreSeparate'
  <2> DEFINE m == deposits[s][i][a]
             d == -m
  <2>1. /\ usdc' = [usdc EXCEPT ![s] = @ - m, ![a] = @ + m]
        /\ repayments' = [repayments EXCEPT ![s][i] = Adjusted(@, d)]
        /\ UNCHANGED paidOut
        /\ ~repayments[s][i].settled
    BY <1>4 DEF WithdrawRepayment, CanWithdraw, Pay
  <2>2. m \in Nat
    BY <1>1 DEF SettlementTypeOK
  <2>3. m <= repayments[s][i].amount
    <3>1. deposits[s][i] \in [Accounts -> Nat]
      BY <1>1 DEF SettlementTypeOK
    <3>2. m <= Total(deposits[s][i])
      BY <3>1, TokenAssumption, TotalBoundsEach
    <3> QED
      BY <1>1, <2>1, <3>2 DEF DepositsAddUp
  <2>4. paidOut[s][i] = 0
    BY <1>1, <2>1 DEF DepositsAddUp
  <2> HIDE DEF m
  <2>5. /\ usdc'[s] = usdc[s] + d
        /\ \A t \in Settlements \ {s} : usdc'[t] = usdc[t]
    BY <1>1, <2>1, <2>2
  <2>6. repayments'[s][i] = Adjusted(repayments[s][i], d)
    BY <1>1, <2>1 DEF SettlementTypeOK
  <2>7. repayments'[s][i].amount = repayments[s][i].amount + d
    BY <1>2, <2>6 DEF Adjusted, Repayment
  <2>8. \A t \in Settlements, j \in Invoices :
          ~(t = s /\ j = i) => repayments'[t][j] = repayments[t][j]
    BY <1>1, <2>1 DEF SettlementTypeOK
  <2>9. Pot(s, i)' = Pot(s, i) + d /\ 0 <= Pot(s, i) + d
    BY <1>2, <2>1, <2>2, <2>3, <2>4, <2>7 DEF Pot
  <2>10. \A t \in Settlements, j \in Invoices :
           ~(t = s /\ j = i) => Pot(t, j)' = Pot(t, j)
    BY <2>1, <2>8 DEF Pot
  <2>11. d \in Int
    BY <2>2
  <2> HIDE DEF d
  <2> QED
    BY <2>5, <2>9, <2>10, <2>11, OnePotMoves
<1>5. ASSUME NEW a \in Accounts, NEW s \in Settlements, NEW i \in Invoices,
             Claim(a, s, i)
      PROVE  PotsAreSeparate'
  <2> DEFINE m == Share(s, i, balanceOf[i][a])
             d == -m
  <2>1. /\ usdc' = [usdc EXCEPT ![s] = @ - m, ![a] = @ + m]
        /\ UNCHANGED repayments
        /\ paidOut' = [paidOut EXCEPT ![s][i] = @ + m]
    BY <1>5 DEF Claim, Pay
  <2>2. m \in Nat /\ m <= Pot(s, i)
    BY <1>5, ClaimCore, ClaimCovered
  <2> HIDE DEF m
  <2>3. /\ usdc'[s] = usdc[s] + d
        /\ \A t \in Settlements \ {s} : usdc'[t] = usdc[t]
    BY <1>1, <2>1, <2>2
  <2>4. paidOut'[s][i] = paidOut[s][i] + m
    BY <1>1, <2>1 DEF SettlementTypeOK
  <2>5. \A t \in Settlements, j \in Invoices :
          ~(t = s /\ j = i) => paidOut'[t][j] = paidOut[t][j]
    BY <1>1, <2>1 DEF SettlementTypeOK
  <2>6. Pot(s, i)' = Pot(s, i) + d /\ 0 <= Pot(s, i) + d
    BY <1>2, <2>1, <2>2, <2>4 DEF Pot
  <2>7. \A t \in Settlements, j \in Invoices :
          ~(t = s /\ j = i) => Pot(t, j)' = Pot(t, j)
    BY <2>1, <2>5 DEF Pot
  <2>8. d \in Int
    BY <2>2
  <2> HIDE DEF d
  <2> QED
    BY <2>3, <2>6, <2>7, <2>8, OnePotMoves
<1>6. ASSUME NEW a \in Accounts, NEW s \in Settlements, NEW i \in Invoices,
             Settle(a, s, i)
      PROVE  PotsAreSeparate'
  <2>1. /\ repayments' = [repayments EXCEPT ![s][i] = Snapshotted(@, totalSupply[i])]
        /\ UNCHANGED <<usdc, paidOut>>
    BY <1>6 DEF Settle
  <2>2. \A t \in Settlements, j \in Invoices :
          repayments'[t][j].amount = repayments[t][j].amount
    BY <1>1, <2>1 DEF SettlementTypeOK, Snapshotted
  <2> QED
    BY <2>1, <2>2, NoPotMoves
<1>7. CASE MarketNext /\ UNCHANGED settlementVars
  BY <1>7, MarketKeepsSettlementUsdc, NoPotMoves DEF settlementVars
<1>8. CASE UNCHANGED vars
  BY <1>8, NoPotMoves DEF vars, chainVars, settlementVars
<1> QED
  BY <1>3, <1>4, <1>5, <1>6, <1>7, <1>8 DEF Next, SettlementNext

(* A settlement contract's USDC is the sum of its pots, whatever the number of
   invoices that share it. *)
THEOREM PotsStaySeparate == Spec => []PotsAreSeparate
<1>1. Init => PotsAreSeparate
  <2> SUFFICES ASSUME Init, NEW s \in Settlements
               PROVE  /\ \A i \in Invoices : paidOut[s][i] <= repayments[s][i].amount
                      /\ usdc[s] = Total([i \in Invoices |-> Pot(s, i)])
    BY DEF PotsAreSeparate
  <2>1. \A i \in Invoices : paidOut[s][i] = 0 /\ repayments[s][i].amount = 0
    BY DEF Init, SettlementInit
  <2>2. \A i \in Invoices : Pot(s, i) = 0
    BY <2>1 DEF Pot
  <2>3. Total([i \in Invoices |-> Pot(s, i)]) = 0
    BY <2>2, TotalZero
  <2>4. usdc[s] = 0
    BY MarketAssumption DEF Init, MarketInit, Settlements
  <2> QED
    BY <2>1, <2>3, <2>4
<1>2. /\ IInv /\ IInv' /\ ClaimsCovered /\ PotsAreSeparate /\ [Next]_vars
      => PotsAreSeparate'
  BY NextPots DEF IInv
<1> QED
  BY <1>1, <1>2, AllClaimsCovered, Invariance, PTL DEF Spec

-----------------------------------------------------------------------------
(* Deposits that add up to something are somebody's, and the settlement
   contract has the USDC to give them back: withdrawRepayment or settle is
   open past the grace period (MaturitySettlement.sol:70-107). *)
THEOREM MoneyAlwaysHasAWayOut == Spec => []MoneyHasAWayOut
<1>1. IInv /\ PotsAreSeparate => MoneyHasAWayOut
  <2> SUFFICES ASSUME IInv, PotsAreSeparate,
                      NEW s \in Settlements, NEW i \in invoiceIds,
                      PastGrace(i), ~repayments[s][i].settled,
                      repayments[s][i].amount # 0
               PROVE  \/ \A a \in Accounts : CanSettle(a, s, i)
                      \/ \E a \in Accounts : CanWithdraw(a, s, i)
                                             /\ deposits[s][i][a] <= usdc[s]
    BY DEF MoneyHasAWayOut
  <2>1. MarketTypeOK /\ SettlementTypeOK /\ DepositsAddUp /\ i \in Invoices
    BY DEF IInv, Core, TypeOK, invoiceIds
  <2>2. Matured(i)
    <3>1. listings[i].maturity \in Nat /\ now \in Nat
      BY <2>1, ListingFacts DEF MarketTypeOK
    <3> QED
      BY <3>1, SettlementAssumption DEF PastGrace, Matured
  <2>3. CASE totalSupply[i] # 0
    BY <2>2, <2>3 DEF CanSettle
  <2>4. CASE totalSupply[i] = 0
    <3>1. /\ deposits[s][i] \in [Accounts -> Nat]
          /\ repayments[s][i].amount = Total(deposits[s][i])
          /\ paidOut[s][i] = 0
      BY <2>1 DEF SettlementTypeOK, DepositsAddUp
    <3>2. PICK a \in Accounts : deposits[s][i][a] # 0
      BY <3>1, TotalZero
    <3>3. CanWithdraw(a, s, i)
      BY <2>2, <2>4, <3>2 DEF CanWithdraw
    <3>4. deposits[s][i][a] <= Pot(s, i)
      <4>1. deposits[s][i][a] <= repayments[s][i].amount
        BY <3>1, TokenAssumption, TotalBoundsEach
      <4>2. repayments[s][i].amount \in Nat
        BY <3>1, TokenAssumption, TotalType
      <4> QED
        BY <3>1, <4>1, <4>2 DEF Pot
    <3>5. Pot(s, i) <= usdc[s]
      <4> DEFINE f == [j \in Invoices |-> Pot(s, j)]
      <4>1. f \in [Invoices -> Nat]
        <5>1. ASSUME NEW j \in Invoices PROVE Pot(s, j) \in Nat
          <6>1. repayments[s][j] \in Repayment /\ paidOut[s][j] \in Nat
            BY <2>1 DEF SettlementTypeOK
          <6>2. repayments[s][j].amount \in Nat
            BY <6>1 DEF Repayment
          <6>3. paidOut[s][j] <= repayments[s][j].amount
            BY DEF PotsAreSeparate
          <6> QED
            BY <6>1, <6>2, <6>3 DEF Pot
        <5> QED
          BY <5>1
      <4>2. f[i] <= Total(f)
        BY <2>1, <4>1, TokenAssumption, TotalBoundsEach
      <4>3. usdc[s] = Total(f)
        BY DEF PotsAreSeparate
      <4> QED
        BY <2>1, <4>2, <4>3
    <3>6. /\ deposits[s][i][a] \in Nat /\ Pot(s, i) \in Int /\ usdc[s] \in Nat
      <4>1. repayments[s][i].amount \in Nat
        BY <3>1, TokenAssumption, TotalType
      <4> QED
        BY <2>1, <3>1, <4>1 DEF Pot, MarketTypeOK
    <3>7. deposits[s][i][a] <= usdc[s]
      BY <3>4, <3>5, <3>6
    <3> QED
      BY <3>3, <3>7
  <2> QED
    BY <2>3, <2>4
<1> QED
  BY <1>1, Invariance, PotsStaySeparate, PTL

-----------------------------------------------------------------------------
(* What compliance forbids a step to do. *)
Complies ==
  \A i \in Invoices, a \in Accounts :
    /\ a \in isFrozen[i] => balanceOf'[i][a] >= balanceOf[i][a]
    /\ a \notin isEligible[i] => balanceOf'[i][a] <= balanceOf[i][a]

(* _update is the only writer of balances and it checks both ends
   (BondToken.sol:77-83). *)
LEMMA UpdateComplies ==
  ASSUME TokenTypeOK, NEW i \in Invoices,
         NEW from \in Accounts \cup {Zero}, NEW to \in Accounts \cup {Zero},
         NEW v \in Nat, Update(i, from, to, v)
  PROVE  Complies
<1> SUFFICES ASSUME NEW j \in Invoices, NEW a \in Accounts
             PROVE  /\ a \in isFrozen[j] => balanceOf'[j][a] >= balanceOf[j][a]
                    /\ a \notin isEligible[j] => balanceOf'[j][a] <= balanceOf[j][a]
  BY DEF Complies
<1>1. balanceOf[j][a] \in Nat /\ Zero \notin Accounts
  BY TokenAssumption DEF TokenTypeOK
<1>2. CASE j # i
  <2>1. balanceOf'[j] = balanceOf[j]
    BY <1>2 DEF Update, TokenTypeOK
  <2> QED
    BY <1>1, <2>1
<1>3. CASE j = i
  <2>1. /\ balanceOf'[i][a] = balanceOf[i][a] - (IF a = from THEN v ELSE 0)
                                              + (IF a = to THEN v ELSE 0)
        /\ from # Zero => from \notin isFrozen[i]
        /\ to # Zero => to \in isEligible[i]
    BY DEF Update, TokenTypeOK
  <2>2. a = from => a \notin isFrozen[i]
    BY <1>1, <2>1
  <2>3. a = to => a \in isEligible[i]
    BY <1>1, <2>1
  <2> QED
    BY <1>1, <1>3, <2>1, <2>2, <2>3
<1> QED
  BY <1>2, <1>3

LEMMA NextComplies ==
  ASSUME Core, [Next]_vars
  PROVE  Complies
<1>1. MarketTypeOK /\ TokenTypeOK
  BY DEF Core, TypeOK, MarketTypeOK
<1>2. ASSUME UNCHANGED balanceOf PROVE Complies
  <2>1. \A i \in Invoices, a \in Accounts : balanceOf[i][a] \in Nat
    BY <1>1 DEF TokenTypeOK
  <2> QED
    BY <1>2, <2>1 DEF Complies
<1>3. CASE OwnerNext
  BY <1>2, <1>3 DEF OwnerNext, SetFee, SetComplianceOperator, SetSettlement,
     GrantBondRole, RevokeBondRole, tokenVars
<1>4. CASE TraderNext
  <2>1. ASSUME NEW a \in Accounts, NEW i \in Invoices, NEW units \in Amounts,
               BuyPrimary(a, i, units)
        PROVE  Complies
    BY <1>1, <2>1, UpdateComplies, TokenAssumption DEF BuyPrimary, Mint
  <2>2. ASSUME NEW a \in Accounts, NEW id \in AskIds, NEW units \in Amounts,
               FillAsk(a, id, units)
        PROVE  Complies
    <3>1. asks[id] \in Ask
      BY <1>1, <2>2 DEF FillAsk, MarketTypeOK, NoAsk
    <3>2. asks[id].invoiceId \in Invoices /\ asks[id].maker \in Accounts
      BY <3>1 DEF Ask
    <3> QED
      BY <1>1, <2>2, <3>2, UpdateComplies, TokenAssumption DEF FillAsk, Transfer
  <2> QED
    BY <1>2, <1>4, <2>1, <2>2 DEF TraderNext, ListInvoice, Deploy, MakeAsk,
       CancelAsk, tokenVars
<1>5. CASE TokenNext
  <2>1. ASSUME NEW i \in Invoices, NEW from \in Accounts, NEW to \in Accounts,
               NEW units \in Amounts, Transfer(i, from, to, units)
        PROVE  Complies
    BY <1>1, <2>1, UpdateComplies, TokenAssumption DEF Transfer
  <2> QED
    BY <1>2, <1>5, <2>1 DEF TokenNext, SetEligible, SetFrozen
<1>6. CASE SettlementNext
  <2>1. ASSUME NEW a \in Accounts, NEW s \in Settlements, NEW i \in Invoices,
               Claim(a, s, i)
        PROVE  Complies
    <3>1. balanceOf[i][a] \in Nat
      BY <1>1 DEF TokenTypeOK
    <3> QED
      BY <1>1, <2>1, <3>1, UpdateComplies DEF Claim, Burn
  <2> QED
    BY <1>2, <1>6, <2>1 DEF SettlementNext, RegisterRepayment, Settle,
       WithdrawRepayment, tokenVars
<1>7. CASE Tick /\ UNCHANGED <<tokenVars, marketVars, oracleVars, usdc>>
  BY <1>2, <1>7 DEF tokenVars
<1>8. CASE UNCHANGED vars
  BY <1>2, <1>8 DEF vars, chainVars, tokenVars
<1> QED
  BY <1>3, <1>4, <1>5, <1>6, <1>7, <1>8 DEF Next, MarketNext

(* Units leave a frozen account by no path and reach an ineligible one by
   none, whichever contract moves them. *)
THEOREM ComplianceAlways == Spec => ComplianceHolds
<1>1. IInv /\ [Next]_vars => [Complies]_vars
  BY NextComplies DEF IInv
<1> QED
  BY <1>1, Invariance, PTL DEF Spec, ComplianceHolds, Complies

-----------------------------------------------------------------------------
LEMMA AskKept ==
  ASSUME Core, NEW id \in AskIds, asks'[id] = asks[id], asks[id].open
  PROVE  /\ asks'[id] = [asks[id] EXCEPT !.units = asks'[id].units]
         /\ asks'[id].units <= asks[id].units
<1>1. asks[id] \in Ask
  BY DEF Core, TypeOK, MarketTypeOK, NoAsk
<1>2. asks[id].units \in Nat /\ asks[id] = [asks[id] EXCEPT !.units = asks[id].units]
  BY <1>1 DEF Ask
<1> QED
  BY <1>2

(* What a fill pays the maker: the cost, and the fee too when the maker is the
   treasury. *)
LEMMA SellerIsPaid ==
  ASSUME MarketTypeOK,
         NEW payer \in Accounts, NEW seller \in Accounts, NEW cost \in Nat,
         PayWithFee(payer, seller, cost)
  PROVE  payer # seller /\ cost <= usdc'[seller] - usdc[seller]
<1> DEFINE P == Accounts \cup Settlements
           fee == FeeOn(payer, cost)
           paid == IF fee = 0 THEN usdc ELSE Pay(usdc, payer, treasury, fee)
<1>1. /\ usdc \in [P -> Nat]
      /\ Zero \notin P
      /\ treasury \in Accounts \cup {Zero}
  BY TokenAssumption, MarketAssumption DEF MarketTypeOK, Settlements
<1>2. fee \in Nat
  BY MarketAssumption, CeilBounds DEF FeeOn, MarketTypeOK
<1>3. /\ fee # 0 => CanPay(usdc, payer, treasury, fee)
      /\ CanPay(paid, payer, seller, cost)
      /\ usdc' = Pay(paid, payer, seller, cost)
  BY DEF PayWithFee
<1> HIDE DEF fee
<1>4. payer # seller
  BY <1>3 DEF CanPay
<1>5. paid \in [P -> Nat] /\ usdc[seller] <= paid[seller]
  <2>1. CASE fee = 0
    BY <1>1, <2>1
  <2>2. CASE fee # 0
    <3>1. treasury \in Accounts /\ payer # treasury /\ fee <= usdc[payer]
      BY <1>1, <1>3, <2>2 DEF CanPay
    <3> QED
      BY <1>1, <1>2, <1>4, <2>2, <3>1 DEF Pay
  <2> QED
    BY <2>1, <2>2
<1> HIDE DEF paid
<1>6. usdc'[seller] = paid[seller] + cost
  BY <1>3, <1>4, <1>5 DEF Pay
<1>7. usdc[seller] \in Nat /\ paid[seller] \in Nat
  BY <1>1, <1>5
<1> QED
  BY <1>4, <1>5, <1>6, <1>7

(* fillAsk (InvoiceMarket.sol:220-236). *)
LEMMA FillHonours ==
  ASSUME Core, NEW t \in Accounts, NEW id \in AskIds, NEW units \in Amounts,
         FillAsk(t, id, units)
  PROVE  AsksOnlyShrink /\ SalesUnderAsks
<1> DEFINE i == asks[id].invoiceId
           m == asks[id].maker
           price == asks[id].priceBps
           cost == Cost(units, price)
<1>1. /\ MarketTypeOK /\ TokenTypeOK
      /\ asks \in [AskIds -> Ask \cup {NoAsk}]
  BY DEF Core, TypeOK, MarketTypeOK
<1>2. /\ asks[id].open /\ units \in Nat /\ units # 0 /\ units <= asks[id].units
      /\ PayWithFee(t, m, cost)
      /\ Update(i, m, t, units)
      /\ asks' = [asks EXCEPT ![id] = Filled(asks[id], units)]
  BY TokenAssumption DEF FillAsk, Transfer
<1>3. /\ asks[id] \in Ask /\ i \in Invoices /\ m \in Accounts
      /\ price \in Nat /\ asks[id].units \in Nat
  <2>1. asks[id] \in Ask
    BY <1>1, <1>2 DEF NoAsk
  <2> QED
    BY <2>1 DEF Ask
<1>4. asks'[id] = Filled(asks[id], units)
  BY <1>1, <1>2
<1>5. /\ units = asks[id].units => ~asks'[id].open
      /\ units # asks[id].units =>
           /\ asks'[id].open
           /\ asks'[id].units = asks[id].units - units
           /\ asks'[id] = [asks[id] EXCEPT !.units = asks[id].units - units]
  <2>1. CASE units = asks[id].units
    BY <1>4, <2>1 DEF Filled, NoAsk
  <2>2. CASE units # asks[id].units
    <3>1. asks'[id] = [asks[id] EXCEPT !.units = asks[id].units - units]
      BY <1>4, <2>2 DEF Filled
    <3>2. asks'[id].open = asks[id].open /\ asks'[id].units = asks[id].units - units
      BY <1>3, <3>1 DEF Ask
    <3> QED
      BY <1>2, <2>2, <3>1, <3>2
  <2> QED
    BY <2>1, <2>2
<1>6. AsksOnlyShrink
  <2> SUFFICES ASSUME NEW k \in AskIds, asks'[k].open
               PROVE  /\ asks[k].open
                      /\ asks'[k] = [asks[k] EXCEPT !.units = asks'[k].units]
                      /\ asks'[k].units <= asks[k].units
    BY DEF AsksOnlyShrink
  <2>1. CASE k = id
    BY <1>2, <1>3, <1>5, <2>1
  <2>2. CASE k # id
    <3>1. asks'[k] = asks[k]
      BY <1>1, <1>2, <2>2
    <3> QED
      BY <3>1, AskKept
  <2> QED
    BY <2>1, <2>2
<1>7. SalesUnderAsks
  <2> SUFFICES ASSUME NEW j \in Invoices, NEW a \in Accounts,
                      balanceOf'[j][a] < balanceOf[j][a]
               PROVE  SoldUnderAsk(j, a, balanceOf[j][a] - balanceOf'[j][a])
    BY DEF SalesUnderAsks
  <2>1. cost \in Nat /\ units * price <= cost * Bps
    BY <1>2, <1>3, MarketAssumption, CeilBounds DEF Cost
  <2> HIDE DEF cost
  <2>2. t # m /\ cost <= usdc'[m] - usdc[m]
    BY <1>1, <1>2, <1>3, <2>1, SellerIsPaid
  <2>3. balanceOf[j][a] \in Nat /\ Zero \notin Accounts
    BY <1>1, TokenAssumption DEF TokenTypeOK
  <2>4. j = i
    <3>1. j # i => balanceOf'[j] = balanceOf[j]
      BY <1>1, <1>2 DEF Update, TokenTypeOK
    <3> QED
      BY <2>3, <3>1
  <2>5. balanceOf'[i][a] = balanceOf[i][a] - (IF a = m THEN units ELSE 0)
                                           + (IF a = t THEN units ELSE 0)
    BY <1>1, <1>2, <1>3 DEF Update, TokenTypeOK
  <2>6. a = m
    BY <1>2, <2>3, <2>4, <2>5
  <2>7. balanceOf[j][a] - balanceOf'[j][a] = units
    BY <1>2, <2>2, <2>3, <2>4, <2>5, <2>6
  <2>8. units * price <= (usdc'[m] - usdc[m]) * Bps
    <3>1. usdc'[m] \in Nat /\ usdc[m] \in Nat
      BY <1>1, <1>2, <1>3, <2>1, PayWithFeeEffect DEF MarketTypeOK
    <3> DEFINE got == usdc'[m] - usdc[m]
    <3>2. got \in Int /\ cost <= got
      BY <2>2, <3>1
    <3> HIDE DEF got
    <3>3. cost * Bps <= got * Bps
      BY <2>1, <3>2, MarketAssumption
    <3>4. units * price \in Int /\ cost * Bps \in Int /\ got * Bps \in Int
      BY <1>2, <1>3, <2>1, <3>2, MarketAssumption
    <3>5. units * price <= got * Bps
      BY <2>1, <3>3, <3>4
    <3> QED
      BY <3>5 DEF got
  <2>9. IF asks'[id].open THEN asks'[id].units + units = asks[id].units
                          ELSE units = asks[id].units
    BY <1>2, <1>3, <1>5
  <2> QED
    BY <1>2, <2>4, <2>6, <2>7, <2>8, <2>9 DEF SoldUnderAsk
<1> QED
  BY <1>6, <1>7

LEMMA NextHonours ==
  ASSUME Core, SnapshotBoundsSupply, [Next]_vars
  PROVE  AsksOnlyShrink /\ SalesUnderAsks
<1>1. /\ MarketTypeOK /\ TokenTypeOK /\ SupplyIsSum
      /\ asks \in [AskIds -> Ask \cup {NoAsk}]
      /\ nextAskId \in Nat
  BY DEF Core, TypeOK, MarketTypeOK, UnitsWithinFace, SupplyIsSum, AskIds
<1>2. ASSUME UNCHANGED asks PROVE AsksOnlyShrink
  BY <1>2, AskKept DEF AsksOnlyShrink
<1>3. ASSUME UNCHANGED usdc PROVE SalesUnderAsks
  BY <1>3 DEF SalesUnderAsks
<1>4. CASE OwnerNext
  BY <1>2, <1>3, <1>4 DEF OwnerNext, SetFee, SetComplianceOperator, SetSettlement,
     GrantBondRole, RevokeBondRole, marketVars
<1>5. CASE TraderNext
  <2>1. PICK a \in Accounts :
          \/ \E q \in Quotes : ListInvoice(a, q)
          \/ \E i \in Invoices, units \in Amounts : BuyPrimary(a, i, units)
          \/ \E i \in Invoices, units \in Amounts, p \in Prices : MakeAsk(a, i, units, p)
          \/ \E id \in AskIds : CancelAsk(a, id)
          \/ \E id \in AskIds, units \in Amounts : FillAsk(a, id, units)
    BY <1>5 DEF TraderNext
  <2>2. CASE \E q \in Quotes : ListInvoice(a, q)
    BY <1>2, <1>3, <2>2 DEF ListInvoice
  <2>3. ASSUME NEW i \in Invoices, NEW units \in Amounts, BuyPrimary(a, i, units)
        PROVE  AsksOnlyShrink /\ SalesUnderAsks
    <3>1. /\ units \in Nat /\ units # 0 /\ UNCHANGED asks
          /\ Update(i, Zero, a, units)
      BY <2>3, TokenAssumption DEF BuyPrimary, Mint, marketVars
    <3>2. totalSupply'[i] = totalSupply[i] + units
      BY <1>1, <3>1, UpdateKeepsSupply, TokenAssumption
    <3>3. totalSupply' # totalSupply
      BY <1>1, <3>1, <3>2 DEF TokenTypeOK
    <3> QED
      BY <1>2, <3>1, <3>3 DEF SalesUnderAsks
  <2>4. ASSUME NEW i \in Invoices, NEW units \in Amounts, NEW p \in Prices,
               MakeAsk(a, i, units, p)
        PROVE  AsksOnlyShrink /\ SalesUnderAsks
    <3>1. /\ UNCHANGED usdc
          /\ \E k : asks' = [asks EXCEPT ![nextAskId] = k]
      BY <2>4 DEF MakeAsk
    <3>2. \A id \in AskIds : id < nextAskId => asks'[id] = asks[id]
      BY <1>1, <3>1 DEF AskIds
    <3> QED
      BY <1>3, <3>1, <3>2, AskKept DEF AsksOnlyShrink
  <2>5. ASSUME NEW id \in AskIds, CancelAsk(a, id)
        PROVE  AsksOnlyShrink /\ SalesUnderAsks
    <3>1. UNCHANGED usdc /\ asks' = [asks EXCEPT ![id] = NoAsk]
      BY <2>5 DEF CancelAsk
    <3>2. \A k \in AskIds : asks'[k].open => asks'[k] = asks[k]
      BY <1>1, <3>1 DEF NoAsk
    <3> QED
      BY <1>3, <3>1, <3>2, AskKept DEF AsksOnlyShrink
  <2> QED
    BY <2>1, <2>2, <2>3, <2>4, <2>5, FillHonours
<1>6. CASE \/ TokenNext /\ UNCHANGED <<marketVars, oracleVars, now, usdc>>
           \/ Tick /\ UNCHANGED <<tokenVars, marketVars, oracleVars, usdc>>
  BY <1>2, <1>3, <1>6 DEF marketVars
<1>7. CASE SettlementNext
  <2>1. ASSUME NEW a \in Accounts, NEW s \in Settlements, NEW i \in Invoices,
               Claim(a, s, i)
        PROVE  AsksOnlyShrink /\ SalesUnderAsks
    <3>1. UNCHANGED asks /\ balanceOf[i][a] # 0
      BY <2>1 DEF Claim, marketVars
    <3>2. /\ totalSupply'[i] = totalSupply[i] - balanceOf[i][a]
          /\ balanceOf[i][a] \in Nat /\ totalSupply[i] \in Nat
      BY <1>1, <2>1, ClaimCore DEF TokenTypeOK
    <3>3. totalSupply' # totalSupply
      BY <3>1, <3>2
    <3> QED
      BY <1>2, <3>1, <3>3 DEF SalesUnderAsks
  <2>2. ASSUME NEW a \in Accounts, NEW s \in Settlements, NEW i \in Invoices,
               \/ \E amount \in Amounts : RegisterRepayment(a, s, i, amount)
               \/ Settle(a, s, i)
               \/ WithdrawRepayment(a, s, i)
        PROVE  AsksOnlyShrink /\ SalesUnderAsks
    <3>1. UNCHANGED asks /\ UNCHANGED balanceOf
      BY <2>2 DEF RegisterRepayment, Settle, WithdrawRepayment, tokenVars, marketVars
    <3>2. \A i2 \in Invoices, b \in Accounts : balanceOf[i2][b] \in Nat
      BY <1>1 DEF TokenTypeOK
    <3> QED
      BY <1>2, <3>1, <3>2 DEF SalesUnderAsks
  <2> QED
    BY <1>7, <2>1, <2>2 DEF SettlementNext
<1>8. CASE UNCHANGED vars
  BY <1>2, <1>3, <1>8 DEF vars, chainVars, marketVars
<1> QED
  BY <1>4, <1>5, <1>6, <1>7, <1>8 DEF Next, MarketNext

(* Units are sold only under an ask of their owner that shrinks by as much and
   pays its price. *)
THEOREM AsksAlwaysHonoured == Spec => AsksHonoured
<1>1. IInv /\ [Next]_vars => [AsksOnlyShrink /\ SalesUnderAsks]_vars
  BY NextHonours DEF IInv
<1> QED
  BY <1>1, Invariance, PTL DEF Spec, AsksHonoured

-----------------------------------------------------------------------------
(* A step of one pool, or none. *)
PoolStep(s, i) == [Pool(s, i)!PoolNext]_(Pool(s, i)!poolVars)

LEMMA PoolStutters ==
  ASSUME NEW s \in Settlements, NEW i \in Invoices,
         Pot(s, i)' = Pot(s, i), totalSupply'[i] = totalSupply[i],
         repayments'[s][i].settled = repayments[s][i].settled,
         repayments[s][i].settled => repayments'[s][i] = repayments[s][i]
  PROVE  PoolStep(s, i)
BY DEF PoolStep, Pool!poolVars

(* Types of what the pools are made of. *)
LEMMA PoolTypes ==
  ASSUME Core, PotsAreSeparate, NEW s \in Settlements, NEW i \in Invoices
  PROVE  /\ Pot(s, i) \in Nat
         /\ totalSupply[i] \in Nat
         /\ paidOut[s][i] \in Nat
         /\ repayments[s][i] \in Repayment
         /\ repayments[s][i].amount \in Nat
         /\ repayments[s][i].amount = Pot(s, i) + paidOut[s][i]
<1>1. repayments[s][i] \in Repayment /\ paidOut[s][i] \in Nat
  BY DEF Core, TypeOK, SettlementTypeOK
<1>2. repayments[s][i].amount \in Nat
  BY <1>1 DEF Repayment
<1>3. paidOut[s][i] <= repayments[s][i].amount
  BY DEF PotsAreSeparate
<1>4. totalSupply[i] \in Nat
  BY DEF Core, TypeOK, MarketTypeOK, TokenTypeOK
<1> QED
  BY <1>1, <1>2, <1>3, <1>4 DEF Pot

(* The market issues units of a bond while every settlement contract's rate
   for it is open, and otherwise leaves the pools alone. *)
LEMMA MarketPools ==
  ASSUME Core, Core', SnapshotBoundsSupply, PotsAreSeparate,
         MarketNext, UNCHANGED settlementVars,
         NEW s \in Settlements, NEW i \in Invoices
  PROVE  PoolStep(s, i)
<1>1. /\ MarketTypeOK /\ TokenTypeOK /\ SupplyIsSum /\ now \in Nat
      /\ totalSupply[i] \in Nat /\ totalSupply'[i] \in Nat
  BY DEF Core, TypeOK, MarketTypeOK, TokenTypeOK, UnitsWithinFace, SupplyIsSum
<1>2. /\ Pot(s, i)' = Pot(s, i)
      /\ UNCHANGED <<repayments, paidOut>>
  BY DEF Pot, settlementVars
<1>3. ASSUME totalSupply'[i] = totalSupply[i] PROVE PoolStep(s, i)
  BY <1>2, <1>3, PoolStutters
<1>4. ASSUME NEW a \in Accounts, NEW j \in Invoices, NEW units \in Amounts,
             BuyPrimary(a, j, units)
      PROVE  PoolStep(s, i)
  <2>1. /\ j \in invoiceIds /\ now < listings[j].maturity
        /\ Update(j, Zero, a, units) /\ units \in Nat /\ units # 0
    BY <1>4, TokenAssumption DEF BuyPrimary, Mint
  <2>2. /\ \A k \in Invoices \ {j} : totalSupply'[k] = totalSupply[k]
        /\ totalSupply'[j] = totalSupply[j] + units
    BY <1>1, <2>1, UpdateKeepsSupply, TokenAssumption
  <2>3. CASE i = j
    <3>1. ~repayments[s][i].settled
      <4>1. listings[j].maturity \in Nat
        BY <1>1, <2>1, ListingFacts
      <4> QED
        BY <1>1, <2>1, <2>3, <4>1 DEF SnapshotBoundsSupply, Matured
    <3>2. totalSupply[i] < totalSupply'[i]
      BY <1>1, <2>1, <2>2, <2>3
    <3>3. Pool(s, i)!Issue
      BY <1>1, <1>2, <3>1, <3>2 DEF Pool!Issue, Pool!NoRate
    <3> QED
      BY <3>3 DEF PoolStep, Pool!PoolNext
  <2> QED
    BY <1>3, <2>2, <2>3
<1>5. ASSUME NEW j \in Invoices, NEW from \in Accounts, NEW to \in Accounts,
             NEW units \in Amounts, Transfer(j, from, to, units)
      PROVE  PoolStep(s, i)
  <2>1. totalSupply'[i] = totalSupply[i]
    BY <1>1, <1>5, UpdateKeepsSupply, TokenAssumption DEF Transfer
  <2> QED
    BY <1>3, <2>1
<1>6. ASSUME NEW a \in Accounts, NEW id \in AskIds, NEW units \in Amounts,
             FillAsk(a, id, units)
      PROVE  PoolStep(s, i)
  <2>1. asks[id] \in Ask
    BY <1>1, <1>6 DEF FillAsk, MarketTypeOK, NoAsk
  <2>2. asks[id].invoiceId \in Invoices /\ asks[id].maker \in Accounts
    BY <2>1 DEF Ask
  <2> QED
    BY <1>5, <1>6, <2>2 DEF FillAsk
<1>7. CASE OwnerNext
  BY <1>3, <1>7 DEF OwnerNext, SetFee, SetComplianceOperator, SetSettlement,
     GrantBondRole, RevokeBondRole, tokenVars
<1>8. CASE TraderNext
  BY <1>3, <1>4, <1>6, <1>8 DEF TraderNext, ListInvoice, Deploy, MakeAsk,
     CancelAsk, tokenVars
<1>9. CASE TokenNext
  BY <1>3, <1>5, <1>9 DEF TokenNext, SetEligible, SetFrozen
<1>10. CASE Tick /\ UNCHANGED <<tokenVars, marketVars, oracleVars, usdc>>
  BY <1>3, <1>10 DEF tokenVars
<1> QED
  BY <1>7, <1>8, <1>9, <1>10 DEF MarketNext

(* registerRepayment and withdrawRepayment fund and refund their own pool. *)
LEMMA DepositPools ==
  ASSUME Core, PotsAreSeparate, PotsAreSeparate', Core',
         NEW t \in Settlements, NEW j \in Invoices, NEW d \in Int, d # 0,
         ~repayments[t][j].settled, d < 0 => totalSupply[j] = 0,
         repayments' = [repayments EXCEPT ![t][j] = Adjusted(@, d)],
         UNCHANGED <<totalSupply, paidOut>>,
         NEW s \in Settlements, NEW i \in Invoices
  PROVE  PoolStep(s, i)
<1>1. SettlementTypeOK
  BY DEF Core, TypeOK
<1>2. CASE s = t /\ i = j
  <2>1. repayments'[s][i] = Adjusted(repayments[s][i], d)
    BY <1>1, <1>2 DEF SettlementTypeOK
  <2>2. /\ repayments'[s][i].amount = repayments[s][i].amount + d
        /\ ~repayments'[s][i].settled
    BY <1>2, <2>1, PoolTypes DEF Adjusted, Repayment
  <2>3. Pot(s, i) \in Nat /\ totalSupply[i] \in Nat /\ repayments[s][i].amount \in Nat
        /\ paidOut[s][i] \in Nat
    BY PoolTypes
  <2>4. Pot(s, i)' = Pot(s, i) + d
    BY <2>2, <2>3 DEF Pot
  <2>5. Pot(s, i)' \in Nat
    <3>1. paidOut'[s][i] <= repayments'[s][i].amount
      BY DEF PotsAreSeparate
    <3> QED
      BY <2>2, <2>3, <3>1 DEF Pot
  <2>6. CASE 0 < d
    <3>1. Pot(s, i) < Pot(s, i)'
      BY <2>3, <2>4, <2>6
    <3>2. Pool(s, i)!Fund
      BY <1>2, <2>2, <2>5, <3>1 DEF Pool!Fund, Pool!NoRate
    <3> QED
      BY <3>2 DEF PoolStep, Pool!PoolNext
  <2>7. CASE d < 0
    <3>1. Pot(s, i)' < Pot(s, i)
      BY <2>3, <2>4, <2>7
    <3>2. Pool(s, i)!Refund
      BY <1>2, <2>2, <2>5, <2>7, <3>1 DEF Pool!Refund, Pool!NoRate
    <3> QED
      BY <3>2 DEF PoolStep, Pool!PoolNext
  <2> QED
    BY <2>6, <2>7
<1>3. CASE ~(s = t /\ i = j)
  <2>1. repayments'[s][i] = repayments[s][i]
    BY <1>1, <1>3 DEF SettlementTypeOK
  <2>2. Pot(s, i)' = Pot(s, i)
    BY <2>1 DEF Pot
  <2> QED
    BY <2>1, <2>2, PoolStutters
<1> QED
  BY <1>2, <1>3

(* settle fixes the rate of its own pool. *)
LEMMA SettlePools ==
  ASSUME Core, PotsAreSeparate,
         NEW a \in Accounts, NEW t \in Settlements, NEW j \in Invoices,
         Settle(a, t, j),
         NEW s \in Settlements, NEW i \in Invoices
  PROVE  PoolStep(s, i)
<1>1. SettlementTypeOK /\ DepositsAddUp
  BY DEF Core, TypeOK
<1>2. /\ repayments' = [repayments EXCEPT ![t][j] = Snapshotted(@, totalSupply[j])]
      /\ UNCHANGED <<totalSupply, paidOut>>
      /\ CanSettle(a, t, j)
  BY DEF Settle, tokenVars
<1>3. CASE s = t /\ i = j
  <2>1. repayments'[s][i] = Snapshotted(repayments[s][i], totalSupply[i])
    BY <1>1, <1>2, <1>3 DEF SettlementTypeOK
  <2>2. /\ repayments'[s][i].amount = repayments[s][i].amount
        /\ repayments'[s][i].supplySnapshot = totalSupply[i]
        /\ repayments'[s][i].settled
    BY <2>1 DEF Snapshotted
  <2>3. /\ ~repayments[s][i].settled /\ totalSupply[i] # 0
        /\ repayments[s][i].amount # 0
    BY <1>2, <1>3 DEF CanSettle
  <2>4. paidOut[s][i] = 0
    BY <1>1, <2>3 DEF DepositsAddUp
  <2>5. repayments[s][i].amount \in Nat /\ totalSupply[i] \in Nat
    BY PoolTypes
  <2>6. Pot(s, i) = repayments[s][i].amount /\ Pot(s, i)' = Pot(s, i)
    BY <1>2, <2>2, <2>4, <2>5 DEF Pot
  <2>7. Pool(s, i)!Fix
    BY <1>2, <2>2, <2>3, <2>5, <2>6 DEF Pool!Fix, Pool!NoRate
  <2> QED
    BY <2>7 DEF PoolStep, Pool!PoolNext
<1>4. CASE ~(s = t /\ i = j)
  <2>1. repayments'[s][i] = repayments[s][i]
    BY <1>1, <1>2, <1>4 DEF SettlementTypeOK
  <2>2. Pot(s, i)' = Pot(s, i)
    BY <1>2, <2>1 DEF Pot
  <2> QED
    BY <1>2, <2>1, <2>2, PoolStutters
<1> QED
  BY <1>3, <1>4

(* claim redeems units from its own pool and retires them from the pool of
   every other settlement contract. *)
LEMMA ClaimPools ==
  ASSUME Core, Core', SnapshotBoundsSupply, PotsAreSeparate,
         NEW a \in Accounts, NEW t \in Settlements, NEW j \in Invoices,
         Claim(a, t, j),
         NEW s \in Settlements, NEW i \in Invoices
  PROVE  PoolStep(s, i)
<1> DEFINE u == balanceOf[j][a]
           m == Share(t, j, u)
<1>1. SettlementTypeOK /\ u \in Nat
  BY DEF Core, TypeOK, MarketTypeOK, TokenTypeOK
<1>2. /\ UNCHANGED repayments
      /\ paidOut' = [paidOut EXCEPT ![t][j] = @ + m]
      /\ repayments[t][j].settled /\ u # 0
  BY DEF Claim
<1>3. /\ m \in Nat
      /\ totalSupply'[j] = totalSupply[j] - u
      /\ \A k \in Invoices \ {j} : totalSupply'[k] = totalSupply[k]
  BY ClaimCore
<1>4. /\ Pot(s, i) \in Nat /\ totalSupply[i] \in Nat /\ paidOut[s][i] \in Nat
      /\ repayments[s][i].amount \in Nat
  BY PoolTypes
<1>5. totalSupply'[i] \in Nat
  BY DEF Core, TypeOK, MarketTypeOK, TokenTypeOK
<1>6. CASE i # j
  <2>1. Pot(s, i)' = Pot(s, i)
    BY <1>1, <1>2, <1>6 DEF Pot, SettlementTypeOK
  <2> QED
    BY <1>2, <1>3, <1>6, <2>1, PoolStutters
<1>7. CASE i = j
  <2>1. totalSupply'[i] < totalSupply[i] /\ totalSupply[i] - totalSupply'[i] = u
    BY <1>1, <1>2, <1>3, <1>4, <1>7
  <2>2. CASE s = t
    <3>1. Pot(s, i)' = Pot(s, i) - m
      <4>1. paidOut'[s][i] = paidOut[s][i] + m
        BY <1>1, <1>2, <1>7, <2>2 DEF SettlementTypeOK
      <4> HIDE DEF m
      <4> QED
        BY <1>2, <1>3, <1>4, <4>1 DEF Pot
    <3>2. m = MulDivFloor(repayments[s][i].amount,
                          totalSupply[i] - totalSupply'[i],
                          repayments[s][i].supplySnapshot)
      <4>1. m = MulDivFloor(repayments[s][i].amount, u,
                            repayments[s][i].supplySnapshot)
        BY <1>7, <2>2 DEF Share
      <4> QED
        BY <2>1, <4>1
    <3>3. Pool(s, i)!Redeem
      <4> DEFINE k == repayments[s][i].amount
                 n == repayments[s][i].supplySnapshot
                 p == Pot(s, i)
      <4>1. m = (k * (totalSupply[i] - totalSupply'[i])) \div n
        BY <3>2 DEF MulDivFloor
      <4>2. p' = p - m /\ repayments[s][i].settled /\ k' = k /\ n' = n
        BY <1>2, <1>7, <2>2, <3>1
      <4>3. p' = p - Pool(s, i)!MulDivFloor(k, totalSupply[i] - totalSupply'[i], n)
        BY <4>1, <4>2 DEF Pool!MulDivFloor
      <4> QED
        BY <1>2, <1>5, <2>1, <4>2, <4>3 DEF Pool!Redeem, Pool!NoRate
    <3> QED
      BY <3>3 DEF PoolStep, Pool!PoolNext
  <2>3. CASE s # t
    <3>1. Pot(s, i)' = Pot(s, i)
      BY <1>1, <1>2, <2>3 DEF Pot, SettlementTypeOK
    <3>2. Pool(s, i)!Retire
      BY <1>2, <1>5, <2>1, <3>1 DEF Pool!Retire
    <3> QED
      BY <3>2 DEF PoolStep, Pool!PoolNext
  <2> QED
    BY <2>2, <2>3
<1> QED
  BY <1>6, <1>7

(* Every step of the protocol is a step or a stutter of every pool. *)
LEMMA NextPools ==
  ASSUME Core, Core', SnapshotBoundsSupply, PotsAreSeparate, PotsAreSeparate',
         [Next]_vars, NEW s \in Settlements, NEW i \in Invoices
  PROVE  PoolStep(s, i)
<1>1. ASSUME NEW a \in Accounts, NEW t \in Settlements, NEW j \in Invoices,
             NEW amount \in Amounts, RegisterRepayment(a, t, j, amount)
      PROVE  PoolStep(s, i)
  <2>1. /\ amount \in Nat /\ amount # 0 /\ ~repayments[t][j].settled
        /\ repayments' = [repayments EXCEPT ![t][j] = Adjusted(@, amount)]
        /\ UNCHANGED <<totalSupply, paidOut>>
    BY <1>1, TokenAssumption DEF RegisterRepayment, tokenVars
  <2>2. amount \in Int /\ ~(amount < 0)
    BY <2>1
  <2> QED
    BY <2>1, <2>2, DepositPools
<1>2. ASSUME NEW a \in Accounts, NEW t \in Settlements, NEW j \in Invoices,
             WithdrawRepayment(a, t, j)
      PROVE  PoolStep(s, i)
  <2> DEFINE d == -deposits[t][j][a]
  <2>1. deposits[t][j][a] \in Nat
    BY DEF Core, TypeOK, SettlementTypeOK
  <2>2. /\ deposits[t][j][a] # 0 /\ totalSupply[j] = 0 /\ ~repayments[t][j].settled
        /\ repayments' = [repayments EXCEPT ![t][j] = Adjusted(@, d)]
        /\ UNCHANGED <<totalSupply, paidOut>>
    BY <1>2 DEF WithdrawRepayment, CanWithdraw, tokenVars
  <2>3. d \in Int /\ d # 0
    BY <2>1, <2>2
  <2> HIDE DEF d
  <2> QED
    BY <2>2, <2>3, DepositPools
<1>3. CASE SettlementNext
  BY <1>1, <1>2, <1>3, SettlePools, ClaimPools DEF SettlementNext
<1>4. CASE MarketNext /\ UNCHANGED settlementVars
  BY <1>4, MarketPools
<1>5. CASE UNCHANGED vars
  <2>1. UNCHANGED <<totalSupply, repayments, paidOut>>
    BY <1>5 DEF vars, chainVars, tokenVars, settlementVars
  <2>2. Pot(s, i)' = Pot(s, i)
    BY <2>1 DEF Pot
  <2> QED
    BY <2>1, <2>2, PoolStutters
<1> QED
  BY <1>3, <1>4, <1>5 DEF Next

(* Each settlement contract implements ClaimPool for each bond. *)
THEOREM ImplementsClaimPool == Spec => RefinesClaimPool
<1>1. Init => \A s \in Settlements, i \in Invoices : Pool(s, i)!PoolInit
  <2> SUFFICES ASSUME Init, NEW s \in Settlements, NEW i \in Invoices
               PROVE  Pool(s, i)!PoolInit
    OBVIOUS
  <2>1. /\ repayments[s][i].amount = 0 /\ ~repayments[s][i].settled
        /\ paidOut[s][i] = 0 /\ totalSupply[i] = 0
    BY DEF Init, MarketInit, TokenInit, SettlementInit
  <2> QED
    BY <2>1 DEF Pool!PoolInit, Pool!NoRate, Pot
<1> DEFINE Steps ==
      \A s \in Settlements, i \in Invoices :
        [Pool(s, i)!PoolNext]_(Pool(s, i)!poolVars)
<1>2. IInv /\ IInv' /\ PotsAreSeparate /\ PotsAreSeparate' /\ [Next]_vars => Steps
  BY NextPools DEF IInv, PoolStep
<1>3. IInv /\ IInv' /\ PotsAreSeparate /\ PotsAreSeparate' /\ [Next]_vars
      => [Steps]_vars
  BY <1>2
<1> QED
  BY <1>1, <1>3, Invariance, PotsStaySeparate, PTL DEF Spec, RefinesClaimPool
=============================================================================
