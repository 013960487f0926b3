-------------------------- MODULE Clients_proofs ---------------------------
(***************************************************************************)
(* What an investor's clients keep to, for any amounts, prices, fees and     *)
(* numbers of asks, whatever the other investor does and however old the     *)
(* reads are that a page or the agent decides from.                          *)
(***************************************************************************)
EXTENDS MCClients, Totals_proofs

(* The market as the clients find it: one issuer, one treasury, the bond within
   its face value, and asks that were made. *)
MarketInv ==
  /\ MarketTypeOK
  /\ usdcAllowance \in Nat /\ bondAllowance \in Nat
  /\ listings[Bond].listed /\ listings[Bond].issuer = Other /\ listings[Bond].faceValue = Face
  /\ treasury = Other /\ feeBps <= Bps
  /\ totalSupply[Bond] <= Face
  /\ \A id \in AskIds : asks[id].open => id < nextAskId

(* The hooks: a transaction on its way is that of the form which waits for it,
   and a form waits for one at most. *)
HooksInv ==
  /\ TxTypeOK(Calls)
  /\ \A i \in DOMAIN queue :
       queue[i].form # None =>
         /\ tx[queue[i].form].call = queue[i].call
         /\ \A j \in DOMAIN queue : queue[j].form = queue[i].form => j = i

(* The cache: what was read was on the chain once.  A price that an ask had when
   it was read it has for as long as it is open. *)
Readings ==
  [feeBps |-> Nat, usdcAllowance |-> Nat, usdcBalance |-> Nat, supply |-> Nat,
   asks |-> [AskIds -> Ask \cup {NoAsk}], bondAllowance |-> Nat, held |-> Nat]
ReadInv ==
  /\ DOMAIN read = Reads
  /\ \A q \in Reads : Known(q) => read[q] \in Readings[q]
  /\ Known("asks") =>
       \A id \in AskIds : read.asks[id].open =>
         id < nextAskId /\ (asks[id].open => asks[id].priceBps = read.asks[id].priceBps)

(* An order shows what its units cost under the fee it was entered with. *)
ShownIs(shown, cost, fee) == shown = cost + MulDivCeil(cost, fee, Bps)
Honest(call) ==
  /\ call.op = "buyPrimary" /\ call.shown # None => ShownIs(call.shown, PrimaryCost(call.units), call.feeBps)
  /\ call.op = "fillAsk" =>
       /\ call.askId < nextAskId
       /\ asks[call.askId].open =>
            ShownIs(call.shown, Cost(call.units, asks[call.askId].priceBps), call.feeBps)
OnTheirWay == {tx[f].call : f \in {g \in Forms : Busy(g)}} \cup {queue[i].call : i \in DOMAIN queue}
OrdersInv == \A call \in OnTheirWay : Honest(call)

(* A careful wallet has approved what its asks may sell, and keeps to that with
   the sale it is about to make. *)
Selling(op) == Busy("sell") /\ tx["sell"].call.op = op
SellInv ==
  /\ \A f \in Forms : Busy(f) /\ tx[f].call.op \in {"approveUnits", "makeAsk"} => f = "sell"
  /\ careful =>
       /\ \A i \in DOMAIN queue : queue[i].form # None
       /\ AsksCovered
       /\ Selling("approveUnits") => OpenUnits(asks) <= tx["sell"].call.amount
       /\ Selling("makeAsk") => OpenUnits(asks) + tx["sell"].call.units <= bondAllowance

(* The agent: what it spent and may still spend, by where it is. *)
Ordering == {"approving", "buying", "funded", "reverted"}
Orderless == {"probing", "paying", "deciding", "reading", "stopped", "done"}
Runs == [at: Orderless, mode: Modes, cash: Nat]
        \cup [at: Ordering, mode: Modes, cash: Nat, order: AgentOrders]
SpendInv ==
  /\ agent.mode = "dry" => agent.at \in {"probing", "done", "stopped"}
  /\ agent.at \in {"reading"} \cup Ordering => agent.mode = "act"
  /\ agent.mode = "dry" \/ agent.at \in {"probing", "paying"} => agent.cash <= usdc[Me]
  /\ agent.at # "funded" => agent.cash - usdc[Me] <= Price
  /\ agent.at = "funded" => agent.cash - usdc[Me] <= Price + agent.order.total
  /\ agent.at \notin {"buying", "funded", "reverted"} => usdcAllowance = 0
  /\ agent.at \in {"buying", "funded", "reverted"} => usdcAllowance <= agent.order.total
RunInv ==
  /\ agent \in Runs
  /\ OverdraftIsDust
  /\ desk # "agent" => agent.at = "probing"
  /\ desk = "agent" => ~Known("usdcAllowance") /\ SpendInv

PageInv ==
  HooksInv /\ ReadInv /\ OrdersInv /\ SellInv /\ careful \in BOOLEAN /\ AllowanceFollows

(* What the other investor approved plays no part but to be an amount. *)
TheirsInv == theirAllowance \in Nat

ClientsIInv == MarketInv /\ PageInv /\ RunInv /\ TheirsInv

-----------------------------------------------------------------------------
(* The constants as the provers need them. *)
LEMMA Given ==
  /\ Me \in Accounts /\ Other \in Accounts /\ Me # Other /\ Accounts = {Me, Other}
  /\ Bond \in Invoices /\ Face \in Nat /\ TheirUnits \in Nat
  /\ Settlements = {} /\ Zero \notin Accounts
  /\ Bps \in Nat \ {0} /\ MaxRateBps \in Nat /\ MaxRateBps < Bps
  /\ MaxAsks \in Nat /\ Amounts \subseteq Nat /\ Prices \subseteq Nat \ {0}
  /\ MaxFeeBps \in Nat /\ MaxFeeBps <= Bps /\ Fees \subseteq Nat
BY InvestorAssumption, TokenAssumption, MarketAssumption DEF Settlements

(* What a bond costs is a number. *)
LEMMA CostIs ==
  ASSUME NEW units \in Nat, NEW price \in Nat
  PROVE  Cost(units, price) \in Nat
BY Given, CeilBounds DEF Cost

LEMMA BondIs ==
  ASSUME MarketInv
  PROVE  /\ listings[Bond] \in Listing /\ Bps - listings[Bond].discountRateBps \in Nat \ {0}
         /\ Bond \in invoiceIds
         /\ \A units \in Nat : PrimaryCost(units) \in Nat
<1>1. listings[Bond] \in Listing \cup {NotListed} /\ listings[Bond].listed
  BY Given DEF MarketInv, MarketTypeOK
<1>2. listings[Bond] # NotListed
  BY <1>1 DEF NotListed
<1>3. listings[Bond].discountRateBps \in 0 .. MaxRateBps
  BY <1>1, <1>2 DEF Listing
<1>4. Bps - listings[Bond].discountRateBps \in Nat \ {0}
  BY <1>3, Given
<1> QED
  BY <1>1, <1>2, <1>4, CostIs, Given DEF PrimaryCost, invoiceIds

LEMMA FeeIs ==
  ASSUME MarketInv, NEW a, NEW cost \in Nat
  PROVE  FeeOn(a, cost) \in Nat
BY Given, CeilBounds DEF FeeOn, MarketInv, MarketTypeOK

(* An ask that is open is an ask, made earlier. *)
LEMMA AskIs ==
  ASSUME MarketInv, NEW id \in AskIds, asks[id].open
  PROVE  /\ asks[id] \in Ask /\ asks[id].invoiceId \in Invoices /\ asks[id].maker \in Accounts
         /\ asks[id].units \in Nat \ {0} /\ asks[id].priceBps \in Nat \ {0} /\ id < nextAskId
<1>1. asks[id] \in Ask \cup {NoAsk}
  BY DEF MarketInv, MarketTypeOK
<1>2. asks[id] \in Ask
  BY <1>1 DEF NoAsk
<1> QED
  BY <1>2 DEF Ask, MarketInv

(* A purchase is paid in full, by another account than the one that is paid: what
   leaves the investor is cost and fee, and nobody else takes from it. *)
LEMMA Paid ==
  ASSUME MarketInv, NEW payer \in Accounts, NEW seller \in Accounts, NEW cost \in Nat,
         PayWithFee(payer, seller, cost)
  PROVE  /\ usdc' \in [Accounts \cup Settlements -> Nat] /\ payer # seller
         /\ payer = Me => usdc'[Me] = usdc[Me] - cost - FeeOn(Me, cost)
         /\ payer = Other => usdc'[Me] = usdc[Me] + cost
<1>1. /\ usdc \in [{Me, Other} -> Nat] /\ treasury = Other /\ Accounts \cup Settlements = {Me, Other}
      /\ Me # Other
  BY Given DEF MarketInv, MarketTypeOK
<1> DEFINE fee == FeeOn(payer, cost)
<1>2. fee \in Nat /\ (payer = Other => fee = 0)
  BY <1>1, FeeIs DEF FeeOn
<1> DEFINE after == IF fee = 0 THEN usdc ELSE Pay(usdc, payer, treasury, fee)
<1>3. /\ fee # 0 => CanPay(usdc, payer, treasury, fee)
      /\ CanPay(after, payer, seller, cost) /\ usdc' = Pay(after, payer, seller, cost)
  BY DEF PayWithFee
<1>4. payer # seller /\ seller \in {Me, Other} /\ payer \in {Me, Other}
  BY <1>3, Given DEF CanPay
<1> HIDE DEF fee
<1>5. CASE payer = Me
  <2>1. seller = Other
    BY <1>4, <1>5
  <2>2. after \in [{Me, Other} -> Nat] /\ after[Me] = usdc[Me] - fee
    BY <1>1, <1>2, <1>3, <1>5 DEF Pay, CanPay
  <2>3. cost <= after[Me]
    BY <1>3, <1>5 DEF CanPay
  <2> HIDE DEF after
  <2>4. usdc' \in [{Me, Other} -> Nat] /\ usdc'[Me] = after[Me] - cost
    BY <1>1, <1>3, <1>5, <2>1, <2>2, <2>3 DEF Pay
  <2>5. fee = FeeOn(Me, cost)
    BY <1>5 DEF fee
  <2>6. usdc[Me] \in Nat
    BY <1>1
  <2>7. usdc[Me] - fee - cost = usdc[Me] - cost - fee
    BY <2>6, <1>2
  <2> QED
    BY <1>1, <1>4, <1>5, <2>2, <2>4, <2>5, <2>7
<1>6. CASE payer = Other
  <2>1. seller = Me /\ fee = 0 /\ after = usdc
    BY <1>2, <1>4, <1>6
  <2>2. cost <= usdc[Other]
    BY <1>3, <1>6, <2>1 DEF CanPay
  <2>3. usdc' \in [{Me, Other} -> Nat] /\ usdc'[Me] = usdc[Me] + cost
    BY <1>1, <1>3, <1>6, <2>1, <2>2 DEF Pay
  <2> QED
    BY <1>1, <1>4, <1>6, <2>3
<1> QED
  BY <1>4, <1>5, <1>6

(* A mint adds to the supply of one bond, a transfer to none. *)
LEMMA Moved ==
  ASSUME TokenTypeOK, NEW i \in Invoices, NEW from \in Accounts \cup {Zero}, NEW to \in Accounts,
         NEW v \in Nat, Update(i, from, to, v)
  PROVE  /\ TokenTypeOK'
         /\ \A j \in Invoices : totalSupply'[j] =
              IF j = i /\ from = Zero THEN totalSupply[j] + v ELSE totalSupply[j]
<1> DEFINE c == [a \in Accounts |-> balanceOf[i][a] - (IF a = from THEN v ELSE 0)
                                                   + (IF a = to THEN v ELSE 0)]
<1>1. /\ balanceOf \in [Invoices -> [Accounts -> Nat]] /\ totalSupply \in [Invoices -> Nat]
      /\ Zero \notin Accounts
  BY Given DEF TokenTypeOK
<1>2. from # Zero => v <= balanceOf[i][from]
  BY DEF Update
<1>3. c \in [Accounts -> Nat]
  <2> SUFFICES ASSUME NEW a \in Accounts PROVE c[a] \in Nat
    OBVIOUS
  <2>1. balanceOf[i][a] \in Nat /\ (a = from => v <= balanceOf[i][a])
    BY <1>1, <1>2
  <2> QED
    BY <2>1
<1>4. balanceOf' = [balanceOf EXCEPT ![i] = c]
  BY DEF Update
<1> HIDE DEF c
<1>5. balanceOf' \in [Invoices -> [Accounts -> Nat]]
  BY <1>1, <1>3, <1>4
<1>6. totalSupply' = [totalSupply EXCEPT ![i] =
         totalSupply[i] + (IF from = Zero THEN v ELSE 0) - (IF to = Zero THEN v ELSE 0)]
  BY DEF Update
<1> DEFINE more == totalSupply[i] + (IF from = Zero THEN v ELSE 0)
<1>13. more = totalSupply[i] + (IF from = Zero THEN v ELSE 0) - (IF to = Zero THEN v ELSE 0) /\ more \in Nat
  <2>1. totalSupply[i] \in Nat /\ to # Zero
    BY <1>1
  <2> QED
    BY <2>1
<1>14. more = totalSupply[i] + (IF from = Zero THEN v ELSE 0)
  OBVIOUS
<1> HIDE DEF more
<1>7. totalSupply' = [totalSupply EXCEPT ![i] = more]
  BY <1>6, <1>13
<1>8. totalSupply' \in [Invoices -> Nat]
  BY <1>1, <1>7, <1>13
<1>9. UNCHANGED <<isEligible, isFrozen, complianceRole, issuerRole>>
  BY DEF Update
<1>10. TokenTypeOK'
  BY <1>5, <1>8, <1>9 DEF TokenTypeOK
<1>11. \A j \in Invoices : totalSupply'[j] =
         IF j = i THEN totalSupply[i] + (IF from = Zero THEN v ELSE 0) ELSE totalSupply[j]
  BY <1>1, <1>7, <1>14
<1>12. \A j \in Invoices : totalSupply[j] \in Nat
  BY <1>1
<1> QED
  BY <1>10, <1>11, <1>12

-----------------------------------------------------------------------------
(* The steps of the market.  None reopens an ask or changes the price of one,
   and the bond's terms stay. *)
Goes ==
  /\ listings' = listings /\ nextAskId <= nextAskId'
  /\ \A id \in AskIds : asks'[id].open /\ id < nextAskId =>
       asks[id].open /\ asks'[id].priceBps = asks[id].priceBps

LEMMA BuyStep ==
  ASSUME MarketInv, NEW a \in Accounts, NEW units \in Nat, BuyPrimary(a, Bond, units),
         usdcAllowance' \in Nat, bondAllowance' \in Nat
  PROVE  /\ MarketInv' /\ Goes /\ asks' = asks /\ feeBps' = feeBps
         /\ a = Me => usdc'[Me] = usdc[Me] - PrimaryCost(units) - FeeOn(Me, PrimaryCost(units))
         /\ a = Other => usdc'[Me] >= usdc[Me]
<1>1. /\ PayWithFee(a, listings[Bond].issuer, PrimaryCost(units))
      /\ Mint(Bond, listings[Bond].faceValue, Market, a, units)
      /\ UNCHANGED <<marketVars, oracleVars, now>>
  BY DEF BuyPrimary, PrimaryCost
<1>2. listings[Bond].issuer = Other /\ listings[Bond].faceValue = Face /\ PrimaryCost(units) \in Nat
  BY BondIs DEF MarketInv
<1>3. /\ usdc' \in [Accounts \cup Settlements -> Nat] /\ a # Other
      /\ a = Me => usdc'[Me] = usdc[Me] - PrimaryCost(units) - FeeOn(Me, PrimaryCost(units))
  BY <1>1, <1>2, Given, Paid
<1>4. TokenTypeOK /\ totalSupply[Bond] \in Nat
  BY Given DEF MarketInv, MarketTypeOK, TokenTypeOK
<1>5. Update(Bond, Zero, a, units) /\ units <= Face - totalSupply[Bond]
  BY <1>1, <1>2 DEF Mint
<1>6. TokenTypeOK' /\ totalSupply'[Bond] = totalSupply[Bond] + units
  BY <1>4, <1>5, Given, Moved
<1>7. totalSupply'[Bond] <= Face
  BY <1>4, <1>5, <1>6, Given
<1>8. MarketTypeOK'
  BY <1>1, <1>3, <1>6 DEF MarketInv, MarketTypeOK, marketVars, oracleVars
<1>9. MarketInv'
  BY <1>1, <1>7, <1>8 DEF MarketInv, marketVars
<1>10. Goes /\ asks' = asks /\ feeBps' = feeBps
  BY <1>1, Given DEF Goes, marketVars, MarketInv, MarketTypeOK
<1> QED
  BY <1>3, <1>9, <1>10

LEMMA AskStep ==
  ASSUME MarketInv, NEW a \in Accounts, NEW units \in Nat, NEW p \in Nat, MakeAsk(a, Bond, units, p),
         UNCHANGED allowances
  PROVE  /\ MarketInv' /\ Goes /\ usdc' = usdc /\ feeBps' = feeBps
         /\ nextAskId \in AskIds /\ ~asks[nextAskId].open
         /\ asks' = [asks EXCEPT ![nextAskId] =
              [open |-> TRUE, invoiceId |-> Bond, maker |-> a, units |-> units, priceBps |-> p]]
<1> DEFINE ask == [open |-> TRUE, invoiceId |-> Bond, maker |-> a, units |-> units, priceBps |-> p]
<1>1. /\ nextAskId <= MaxAsks /\ units # 0 /\ p # 0
      /\ asks' = [asks EXCEPT ![nextAskId] = ask] /\ nextAskId' = nextAskId + 1
      /\ UNCHANGED <<listings, feeBps, treasury, settlement, complianceOperator>>
      /\ UNCHANGED <<tokenVars, oracleVars, now, usdc>>
  BY DEF MakeAsk
<1>2. nextAskId \in AskIds /\ nextAskId \in Nat
  BY <1>1, Given DEF MarketInv, MarketTypeOK, AskIds
<1>3. ~asks[nextAskId].open
  BY <1>2 DEF MarketInv
<1>4. asks \in [AskIds -> Ask \cup {NoAsk}] /\ AskIds \subseteq Nat
  BY DEF MarketInv, MarketTypeOK, AskIds
<1>5. ask \in Ask
  BY <1>1, Given DEF Ask
<1>6. ask.open
  OBVIOUS
<1> HIDE DEF ask
<1>7. asks' \in [AskIds -> Ask \cup {NoAsk}]
  BY <1>1, <1>4, <1>5
<1>8. nextAskId' \in 1 .. MaxAsks + 1
  BY <1>1, Given DEF MarketInv, MarketTypeOK
<1>9. \A id \in AskIds : asks'[id] = IF id = nextAskId THEN ask ELSE asks[id]
  BY <1>1, <1>2, <1>4
<1>10. \A id \in AskIds : asks'[id].open => id < nextAskId'
  <2>1. \A id \in AskIds : asks[id].open => id < nextAskId
    BY DEF MarketInv
  <2> SUFFICES ASSUME NEW id \in AskIds, asks'[id].open PROVE id < nextAskId'
    OBVIOUS
  <2>2. CASE id = nextAskId
    BY <1>1, <1>2, <2>2
  <2>3. CASE id # nextAskId
    <3>1. id < nextAskId /\ id \in Nat
      BY <1>4, <1>9, <2>1, <2>3
    <3> QED
      BY <1>1, <1>2, <3>1
  <2> QED
    BY <2>2, <2>3
<1>11. TokenTypeOK' /\ totalSupply' = totalSupply
  BY <1>1 DEF tokenVars, MarketInv, MarketTypeOK, TokenTypeOK
<1>12. MarketTypeOK'
  BY <1>1, <1>7, <1>8, <1>11 DEF MarketInv, MarketTypeOK, oracleVars
<1>13. MarketInv'
  BY <1>1, <1>10, <1>11, <1>12 DEF MarketInv, allowances
<1>14. Goes
  BY <1>1, <1>2, <1>4, <1>9 DEF Goes
<1> QED
  BY <1>1, <1>2, <1>3, <1>13, <1>14 DEF ask

LEMMA CancelStep ==
  ASSUME MarketInv, NEW a \in Accounts, NEW id \in AskIds, CancelAsk(a, id), UNCHANGED allowances
  PROVE  /\ MarketInv' /\ Goes /\ usdc' = usdc /\ feeBps' = feeBps
         /\ asks' = [asks EXCEPT ![id] = NoAsk]
<1>1. /\ asks' = [asks EXCEPT ![id] = NoAsk]
      /\ UNCHANGED <<listings, nextAskId, feeBps, treasury, settlement, complianceOperator>>
      /\ UNCHANGED <<tokenVars, oracleVars, now, usdc>>
  BY DEF CancelAsk
<1>2. asks \in [AskIds -> Ask \cup {NoAsk}] /\ nextAskId \in Nat
  BY Given DEF MarketInv, MarketTypeOK
<1>3. asks' \in [AskIds -> Ask \cup {NoAsk}]
  BY <1>1, <1>2
<1>4. \A k \in AskIds : asks'[k] = IF k = id THEN NoAsk ELSE asks[k]
  BY <1>1, <1>2
<1>5. ~NoAsk.open
  BY DEF NoAsk
<1>6. TokenTypeOK' /\ totalSupply' = totalSupply
  BY <1>1 DEF tokenVars, MarketInv, MarketTypeOK, TokenTypeOK
<1>7. MarketTypeOK'
  BY <1>1, <1>3, <1>6 DEF MarketInv, MarketTypeOK, oracleVars
<1>8. MarketInv'
  BY <1>1, <1>4, <1>5, <1>6, <1>7 DEF MarketInv, allowances
<1>9. Goes
  BY <1>1, <1>2, <1>4, <1>5 DEF Goes
<1> QED
  BY <1>1, <1>8, <1>9

LEMMA FillStep ==
  ASSUME MarketInv, NEW a \in Accounts, NEW id \in AskIds, NEW units \in Nat, FillAsk(a, id, units),
         usdcAllowance' \in Nat, bondAllowance' \in Nat
  PROVE  /\ MarketInv' /\ Goes /\ feeBps' = feeBps
         /\ asks[id].maker # a /\ asks[id].open /\ units <= asks[id].units
         /\ asks' = [asks EXCEPT ![id] = Filled(asks[id], units)]
         /\ a = Me => usdc'[Me] = usdc[Me] - Cost(units, asks[id].priceBps)
                                           - FeeOn(Me, Cost(units, asks[id].priceBps))
         /\ a = Other => usdc'[Me] >= usdc[Me]
<1> DEFINE ask == asks[id]
           left == Filled(ask, units)
<1>1. /\ ask.open /\ units # 0 /\ units <= ask.units
      /\ PayWithFee(a, ask.maker, Cost(units, ask.priceBps))
      /\ Update(ask.invoiceId, ask.maker, a, units)
      /\ asks' = [asks EXCEPT ![id] = left]
      /\ UNCHANGED <<listings, nextAskId, feeBps, treasury, settlement, complianceOperator>>
      /\ UNCHANGED <<oracleVars, now>>
  BY DEF FillAsk, Transfer
<1>2. /\ ask \in Ask /\ ask.invoiceId \in Invoices /\ ask.maker \in Accounts
      /\ ask.units \in Nat \ {0} /\ ask.priceBps \in Nat \ {0} /\ id < nextAskId
  BY <1>1, AskIs
<1>3. Cost(units, ask.priceBps) \in Nat
  BY <1>2, CostIs
<1>4. /\ usdc' \in [Accounts \cup Settlements -> Nat] /\ a # ask.maker
      /\ a = Me => usdc'[Me] = usdc[Me] - Cost(units, ask.priceBps) - FeeOn(Me, Cost(units, ask.priceBps))
      /\ a = Other => usdc'[Me] = usdc[Me] + Cost(units, ask.priceBps)
  BY <1>1, <1>2, <1>3, Paid
<1>5. usdc[Me] \in Nat
  BY Given DEF MarketInv, MarketTypeOK
<1>6. a = Other => usdc'[Me] >= usdc[Me]
  BY <1>3, <1>4, <1>5
<1>7. TokenTypeOK /\ ask.maker # Zero
  BY <1>2, Given DEF MarketInv, MarketTypeOK
<1>8. TokenTypeOK' /\ totalSupply'[Bond] = totalSupply[Bond]
  BY <1>1, <1>2, <1>7, Given, Moved
<1>9. /\ left \in Ask \cup {NoAsk}
      /\ left.open => left.priceBps = ask.priceBps
  <2>1. CASE units = ask.units
    BY <2>1 DEF Filled, NoAsk
  <2>2. CASE units # ask.units
    <3>1. ask.units - units \in Nat \ {0}
      BY <1>1, <1>2, <2>2
    <3>2. left = [ask EXCEPT !.units = ask.units - units]
      BY <2>2 DEF Filled
    <3> HIDE DEF left, ask
    <3>3. left \in Ask /\ left.priceBps = ask.priceBps
      BY <1>2, <3>1, <3>2 DEF Ask
    <3> QED
      BY <3>3
  <2> QED
    BY <2>1, <2>2
<1>10. asks \in [AskIds -> Ask \cup {NoAsk}] /\ nextAskId \in Nat
  BY Given DEF MarketInv, MarketTypeOK
<1> HIDE DEF left
<1>11. asks' \in [AskIds -> Ask \cup {NoAsk}]
  BY <1>1, <1>9, <1>10
<1>12. \A k \in AskIds : asks'[k] = IF k = id THEN left ELSE asks[k]
  BY <1>1, <1>10
<1>13. MarketTypeOK'
  BY <1>1, <1>4, <1>8, <1>11 DEF MarketInv, MarketTypeOK, oracleVars
<1>14. MarketInv'
  BY <1>1, <1>2, <1>8, <1>12, <1>13 DEF MarketInv
<1>15. Goes
  BY <1>1, <1>2, <1>9, <1>10, <1>12 DEF Goes
<1>16. asks' = [asks EXCEPT ![id] = Filled(asks[id], units)]
  BY <1>1 DEF left
<1> QED
  BY <1>1, <1>4, <1>6, <1>14, <1>15, <1>16

LEMMA FeeStep ==
  ASSUME MarketInv, NEW fee \in Fees, SetFee(fee, Other), UNCHANGED allowances
  PROVE  MarketInv' /\ Goes /\ usdc' = usdc /\ asks' = asks
<1>1. /\ fee <= MaxFeeBps /\ feeBps' = fee /\ treasury' = Other
      /\ UNCHANGED <<listings, asks, nextAskId, settlement, complianceOperator>>
      /\ UNCHANGED <<tokenVars, oracleVars, now, usdc>>
  BY DEF SetFee
<1>2. fee \in Nat /\ fee <= Bps
  BY <1>1, Given
<1>3. TokenTypeOK' /\ totalSupply' = totalSupply
  BY <1>1 DEF tokenVars, MarketInv, MarketTypeOK, TokenTypeOK
<1>4. MarketTypeOK'
  BY <1>1, <1>2, <1>3, Given DEF MarketInv, MarketTypeOK, oracleVars
<1>5. MarketInv'
  BY <1>1, <1>2, <1>3, <1>4 DEF MarketInv, allowances
<1> QED
  BY <1>1, <1>5, Given DEF Goes, MarketInv, MarketTypeOK

(* What leaves the chain alone, or moves approvals and payments for insights. *)
LEMMA RestStep ==
  ASSUME MarketInv, UNCHANGED <<tokenVars, oracleVars, marketVars, now>>,
         usdc' \in [Accounts \cup Settlements -> Nat], usdcAllowance' \in Nat, bondAllowance' \in Nat
  PROVE  MarketInv' /\ Goes /\ asks' = asks /\ feeBps' = feeBps
<1>1. TokenTypeOK' /\ totalSupply' = totalSupply
  BY DEF tokenVars, MarketInv, MarketTypeOK, TokenTypeOK
<1>2. MarketTypeOK'
  BY <1>1 DEF MarketInv, MarketTypeOK, oracleVars, marketVars
<1>3. MarketInv'
  BY <1>1, <1>2 DEF MarketInv, marketVars
<1> QED
  BY <1>3, Given DEF Goes, MarketInv, MarketTypeOK, marketVars

(* What happens on the bond itself, within its face value. *)
LEMMA BondStep ==
  ASSUME MarketInv, TokenTypeOK', totalSupply'[Bond] <= Face,
         UNCHANGED <<marketVars, oracleVars, now, usdc>>, UNCHANGED allowances
  PROVE  MarketInv' /\ Goes /\ asks' = asks
<1>1. MarketTypeOK'
  BY DEF MarketInv, MarketTypeOK, oracleVars, marketVars
<1>2. MarketInv'
  BY <1>1 DEF MarketInv, marketVars, allowances
<1> QED
  BY <1>2, Given DEF Goes, MarketInv, MarketTypeOK, marketVars

-----------------------------------------------------------------------------
(* The investor's units on offer. *)
Books == [AskIds -> Ask \cup {NoAsk}]
OnOffer(ask) == IF ask.open /\ ask.maker = Me THEN ask.units ELSE 0

LEMMA OfferIs ==
  ASSUME NEW all \in Books
  PROVE  /\ \A id \in AskIds : OnOffer(all[id]) \in Nat
         /\ OpenUnits(all) = Total([id \in AskIds |-> OnOffer(all[id])])
         /\ OpenUnits(all) \in Nat
<1>1. \A ask \in Ask \cup {NoAsk} : OnOffer(ask) \in Nat
  <2>1. \A ask \in Ask : ask.units \in Nat
    BY DEF Ask
  <2>2. OnOffer(NoAsk) = 0
    BY DEF NoAsk, OnOffer
  <2> QED
    BY <2>1, <2>2 DEF OnOffer
<1>2. \A id \in AskIds : OnOffer(all[id]) \in Nat
  BY <1>1 DEF Books
<1> DEFINE mine == [id \in AskIds |-> OnOffer(all[id])]
<1>3. mine \in [AskIds -> Nat]
  BY <1>2
<1>4. OpenUnits(all) = Total(mine)
  BY DEF OpenUnits, OnOffer
<1>5. IsFiniteSet(AskIds)
  BY Given, FS_Interval DEF AskIds
<1> HIDE DEF mine
<1>6. Total(mine) \in Nat
  BY <1>3, <1>5, TotalType
<1> QED
  BY <1>2, <1>4, <1>6 DEF mine

LEMMA OfferChanges ==
  ASSUME NEW all \in Books, NEW id \in AskIds, NEW ask \in Ask \cup {NoAsk},
         NEW new, new = [all EXCEPT ![id] = ask]
  PROVE  /\ new \in Books
         /\ OpenUnits(new) = OpenUnits(all) - OnOffer(all[id]) + OnOffer(ask)
<1>1. new \in Books /\ new[id] = ask /\ \A k \in AskIds \ {id} : new[k] = all[k]
  BY DEF Books
<1> DEFINE f == [k \in AskIds |-> OnOffer(all[k])]
           g == [k \in AskIds |-> OnOffer(new[k])]
<1>2. f \in [AskIds -> Nat] /\ g \in [AskIds -> Nat]
  BY <1>1, OfferIs
<1>3. OpenUnits(all) = Total(f) /\ OpenUnits(new) = Total(g)
  BY <1>1, OfferIs
<1>4. IsFiniteSet(AskIds)
  BY Given, FS_Interval DEF AskIds
<1>5. \A k \in AskIds \ {id} : g[k] = f[k]
  BY <1>1
<1>6. f[id] = OnOffer(all[id]) /\ g[id] = OnOffer(ask)
  BY <1>1
<1> HIDE DEF f, g
<1>7. Total(g) = Total(f) - f[id] + g[id]
  BY <1>2, <1>4, <1>5, TotalChange
<1> QED
  BY <1>1, <1>3, <1>6, <1>7

LEMMA MakingOffers ==
  ASSUME MarketInv, NEW a \in Accounts, NEW units \in Nat, NEW p \in Nat, MakeAsk(a, Bond, units, p),
         UNCHANGED allowances
  PROVE  OpenUnits(asks') = OpenUnits(asks) + (IF a = Me THEN units ELSE 0)
<1> DEFINE ask == [open |-> TRUE, invoiceId |-> Bond, maker |-> a, units |-> units, priceBps |-> p]
<1>1. /\ nextAskId \in AskIds /\ ~asks[nextAskId].open /\ asks' = [asks EXCEPT ![nextAskId] = ask]
  BY AskStep
<1>2. ask \in Ask /\ OnOffer(ask) = IF a = Me THEN units ELSE 0
  BY Given DEF Ask, OnOffer, MakeAsk
<1>3. asks \in Books
  BY DEF MarketInv, MarketTypeOK, Books
<1>4. OnOffer(asks[nextAskId]) = 0
  BY <1>1 DEF OnOffer
<1> HIDE DEF ask
<1>5. OpenUnits(asks') = OpenUnits(asks) - 0 + OnOffer(ask)
  BY <1>1, <1>2, <1>3, <1>4, OfferChanges
<1>6. OpenUnits(asks) \in Nat
  BY <1>3, OfferIs
<1> QED
  BY <1>2, <1>5, <1>6

LEMMA CancellingOffers ==
  ASSUME MarketInv, NEW a \in Accounts, NEW id \in AskIds, CancelAsk(a, id), UNCHANGED allowances
  PROVE  OpenUnits(asks') <= OpenUnits(asks)
<1>1. asks' = [asks EXCEPT ![id] = NoAsk]
  BY CancelStep
<1>2. asks \in Books /\ NoAsk \in Ask \cup {NoAsk} /\ OnOffer(NoAsk) = 0
  BY DEF MarketInv, MarketTypeOK, Books, OnOffer, NoAsk
<1>3. OpenUnits(asks') = OpenUnits(asks) - OnOffer(asks[id]) + 0
  BY <1>1, <1>2, OfferChanges
<1>4. OpenUnits(asks) \in Nat /\ OnOffer(asks[id]) \in Nat
  BY <1>2, OfferIs
<1> QED
  BY <1>3, <1>4

LEMMA FillingOffers ==
  ASSUME MarketInv, NEW a \in Accounts, NEW id \in AskIds, NEW units \in Nat, FillAsk(a, id, units),
         usdcAllowance' \in Nat, bondAllowance' \in Nat
  PROVE  OpenUnits(asks') = OpenUnits(asks) - (IF a = Other THEN units ELSE 0)
<1> DEFINE left == Filled(asks[id], units)
<1>1. /\ asks' = [asks EXCEPT ![id] = left] /\ asks[id].maker # a /\ asks[id].open
      /\ units <= asks[id].units /\ MarketInv'
  BY FillStep
<1>2. /\ asks[id] \in Ask /\ asks[id].units \in Nat /\ asks[id].maker \in {Me, Other}
      /\ a \in {Me, Other} /\ Me # Other
  BY <1>1, AskIs, Given
<1>3. asks \in Books
  BY DEF MarketInv, MarketTypeOK, Books
<1>4. /\ left \in Ask \cup {NoAsk}
      /\ OnOffer(left) = OnOffer(asks[id]) - (IF a = Other THEN units ELSE 0)
  <2>1. OnOffer(asks[id]) = IF a = Other THEN asks[id].units ELSE 0
    BY <1>1, <1>2 DEF OnOffer
  <2>2. CASE units = asks[id].units
    <3>1. left = NoAsk
      BY <2>2 DEF Filled
    <3>2. OnOffer(NoAsk) = 0
      BY DEF OnOffer, NoAsk
    <3> QED
      BY <1>2, <2>1, <2>2, <3>1, <3>2
  <2>3. CASE units # asks[id].units
    <3>1. asks[id].units - units \in Nat \ {0}
      BY <1>1, <1>2, <2>3
    <3>2. left = [asks[id] EXCEPT !.units = asks[id].units - units]
      BY <2>3 DEF Filled
    <3>3. \A ask \in Ask, n \in Nat \ {0} : LET r == [ask EXCEPT !.units = n]
            IN r \in Ask /\ r.open = ask.open /\ r.maker = ask.maker /\ r.units = n
      BY DEF Ask
    <3>4. left \in Ask /\ left.open = asks[id].open /\ left.maker = asks[id].maker
          /\ left.units = asks[id].units - units
      BY <1>2, <3>1, <3>2, <3>3
    <3> HIDE DEF left
    <3>5. OnOffer(left) = IF a = Other THEN asks[id].units - units ELSE 0
      BY <1>1, <1>2, <3>4 DEF OnOffer
    <3> QED
      BY <1>2, <2>1, <3>4, <3>5
  <2> QED
    BY <2>2, <2>3
<1> HIDE DEF left
<1>5. OpenUnits(asks') = OpenUnits(asks) - OnOffer(asks[id]) + OnOffer(left)
  BY <1>1, <1>3, <1>4, OfferChanges
<1>6. OpenUnits(asks) \in Nat /\ OnOffer(asks[id]) \in Nat
  BY <1>3, OfferIs
<1>7. CASE a = Other
  BY <1>4, <1>5, <1>6, <1>7
<1>8. CASE a # Other
  BY <1>4, <1>5, <1>6, <1>8
<1> QED
  BY <1>7, <1>8

(* Whatever the others do, the investor's units on offer only shrink, and its
   approval by no more than they do; its cash only grows. *)
LEMMA ElsewhereStep ==
  ASSUME MarketInv, Elsewhere
  PROVE  /\ MarketInv' /\ Goes /\ usdcAllowance' = usdcAllowance /\ usdc'[Me] >= usdc[Me]
         /\ OpenUnits(asks') <= OpenUnits(asks)
         /\ OpenUnits(asks') - bondAllowance' <= OpenUnits(asks) - bondAllowance
         /\ bondAllowance' \in Nat /\ bondAllowance' <= bondAllowance
<1>1. /\ usdcAllowance \in Nat /\ bondAllowance \in Nat /\ usdc[Me] \in Nat /\ OpenUnits(asks) \in Nat
      /\ Other \in Accounts /\ Other # Me
  BY Given, OfferIs DEF MarketInv, MarketTypeOK, Books
<1>11. TokenTypeOK /\ totalSupply[Bond] \in Nat /\ totalSupply[Bond] <= Face /\ Bond \in Invoices
  BY Given DEF MarketInv, MarketTypeOK, TokenTypeOK
<1>12. ASSUME UNCHANGED allowances, UNCHANGED <<marketVars, oracleVars, now, usdc>>,
              TokenTypeOK', totalSupply'[Bond] <= Face
       PROVE  /\ MarketInv' /\ Goes /\ usdcAllowance' = usdcAllowance /\ usdc'[Me] >= usdc[Me]
              /\ OpenUnits(asks') <= OpenUnits(asks)
              /\ OpenUnits(asks') - bondAllowance' <= OpenUnits(asks) - bondAllowance
              /\ bondAllowance' \in Nat /\ bondAllowance' <= bondAllowance
  <2>1. /\ usdcAllowance' = usdcAllowance /\ bondAllowance' = bondAllowance /\ usdc' = usdc
    BY <1>12 DEF allowances
  <2>2. MarketInv' /\ Goes /\ asks' = asks
    BY <1>12, BondStep
  <2>3. OpenUnits(asks') = OpenUnits(asks)
    BY <2>2
  <2> QED
    BY <1>1, <2>1, <2>2, <2>3
<1>2. CASE UNCHANGED allowances /\ \E units \in Amounts : BuyOfTheirs(units)
  <2>1. PICK units \in Amounts : BuyOfTheirs(units)
    BY <1>2
  <2>2. /\ Update(Bond, Zero, Other, units) /\ units <= Face - totalSupply[Bond] /\ units \in Nat
        /\ UNCHANGED <<marketVars, oracleVars, now, usdc>>
    BY <2>1, Given DEF BuyOfTheirs, Mint
  <2>3. TokenTypeOK' /\ totalSupply'[Bond] = totalSupply[Bond] + units
    BY <1>1, <1>11, <2>2, Moved
  <2>4. totalSupply'[Bond] <= Face
    BY <1>11, <2>2, <2>3, Given
  <2> QED
    BY <1>2, <1>12, <2>2, <2>3, <2>4
<1>7. CASE UNCHANGED allowances /\ OnBond
  <2>1. UNCHANGED <<marketVars, oracleVars, now, usdc>>
    BY <1>7 DEF OnBond
  <2>2. CASE \E units \in Amounts : Transfer(Bond, Other, Me, units)
    <3>1. PICK units \in Amounts : Transfer(Bond, Other, Me, units)
      BY <2>2
    <3>2. Update(Bond, Other, Me, units) /\ units \in Nat /\ Other # Zero /\ Me \in Accounts
      BY <3>1, Given DEF Transfer
    <3>3. TokenTypeOK' /\ totalSupply'[Bond] = totalSupply[Bond]
      BY <1>1, <1>11, <3>2, Moved
    <3> QED
      BY <1>7, <1>11, <1>12, <2>1, <3>3
  <2>3. CASE \E op \in Operators, a \in Accounts, flag \in BOOLEAN :
               SetEligible(Bond, op, a, flag) \/ SetFrozen(Bond, op, a, flag)
    <3>1. PICK op \in Operators, a \in Accounts, flag \in BOOLEAN :
            SetEligible(Bond, op, a, flag) \/ SetFrozen(Bond, op, a, flag)
      BY <2>3
    <3>2. isEligible[Bond] \in SUBSET Accounts /\ isFrozen[Bond] \in SUBSET Accounts
      BY <1>11 DEF TokenTypeOK
    <3>3. CASE SetEligible(Bond, op, a, flag)
      <4>1. PICK set : set = IF flag THEN isEligible[Bond] \cup {a} ELSE isEligible[Bond] \ {a}
        OBVIOUS
      <4>2. isEligible' = [isEligible EXCEPT ![Bond] = set] /\ set \in SUBSET Accounts
        BY <3>2, <3>3, <4>1 DEF SetEligible
      <4>3. UNCHANGED <<totalSupply, balanceOf, isFrozen, complianceRole, issuerRole>>
        BY <3>3 DEF SetEligible
      <4>4. TokenTypeOK' /\ totalSupply' = totalSupply
        BY <1>11, <4>2, <4>3 DEF TokenTypeOK
      <4> QED
        BY <1>7, <1>11, <1>12, <2>1, <4>4
    <3>4. CASE SetFrozen(Bond, op, a, flag)
      <4>1. PICK set : set = IF flag THEN isFrozen[Bond] \cup {a} ELSE isFrozen[Bond] \ {a}
        OBVIOUS
      <4>2. isFrozen' = [isFrozen EXCEPT ![Bond] = set] /\ set \in SUBSET Accounts
        BY <3>2, <3>4, <4>1 DEF SetFrozen
      <4>3. UNCHANGED <<totalSupply, balanceOf, isEligible, complianceRole, issuerRole>>
        BY <3>4 DEF SetFrozen
      <4>4. TokenTypeOK' /\ totalSupply' = totalSupply
        BY <1>11, <4>2, <4>3 DEF TokenTypeOK
      <4> QED
        BY <1>7, <1>11, <1>12, <2>1, <4>4
    <3> QED
      BY <3>1, <3>3, <3>4
  <2> QED
    BY <1>7, <2>2, <2>3 DEF OnBond
<1>8. CASE ApproveOfTheirs
  <2>1. /\ usdcAllowance' = usdcAllowance /\ bondAllowance' = bondAllowance /\ usdc' = usdc
        /\ UNCHANGED <<tokenVars, oracleVars, marketVars, now>>
    BY <1>8 DEF ApproveOfTheirs, chainVars
  <2>2. usdc \in [Accounts \cup Settlements -> Nat]
    BY DEF MarketInv, MarketTypeOK
  <2>3. MarketInv' /\ Goes /\ asks' = asks
    BY <1>1, <2>1, <2>2, RestStep
  <2>4. OpenUnits(asks') = OpenUnits(asks)
    BY <2>3
  <2> QED
    BY <1>1, <2>1, <2>3, <2>4
<1>3. CASE UNCHANGED allowances /\ \E units \in Amounts, p \in Prices : MakeAsk(Other, Bond, units, p)
  <2>1. PICK units \in Amounts, p \in Prices : MakeAsk(Other, Bond, units, p)
    BY <1>3
  <2>2. units \in Nat /\ p \in Nat /\ usdcAllowance' = usdcAllowance /\ bondAllowance' = bondAllowance
    BY <1>3, Given DEF allowances
  <2>3. MarketInv' /\ Goes /\ usdc' = usdc
    BY <1>1, <1>3, <2>1, <2>2, AskStep
  <2>4. OpenUnits(asks') = OpenUnits(asks) + 0
    BY <1>1, <1>3, <2>1, <2>2, MakingOffers
  <2> QED
    BY <1>1, <2>2, <2>3, <2>4
<1>4. CASE UNCHANGED allowances /\ \E id \in AskIds : CancelAsk(Other, id)
  <2>1. PICK id \in AskIds : CancelAsk(Other, id)
    BY <1>4
  <2>2. usdcAllowance' = usdcAllowance /\ bondAllowance' = bondAllowance
    BY <1>4 DEF allowances
  <2>3. MarketInv' /\ Goes /\ usdc' = usdc /\ OpenUnits(asks') <= OpenUnits(asks)
    BY <1>1, <1>4, <2>1, CancelStep, CancellingOffers
  <2>4. OpenUnits(asks') \in Nat
    BY <2>3, OfferIs DEF MarketInv, MarketTypeOK, Books
  <2> QED
    BY <1>1, <2>2, <2>3, <2>4
<1>5. CASE UNCHANGED allowances /\ \E fee \in Fees : SetFee(fee, Other)
  <2>1. PICK fee \in Fees : SetFee(fee, Other)
    BY <1>5
  <2>2. usdcAllowance' = usdcAllowance /\ bondAllowance' = bondAllowance
    BY <1>5 DEF allowances
  <2>3. MarketInv' /\ Goes /\ usdc' = usdc /\ asks' = asks
    BY <1>5, <2>1, FeeStep
  <2> QED
    BY <1>1, <2>2, <2>3
<1>6. ASSUME NEW id \in AskIds, NEW units \in Amounts, FillOfMine(id, units)
      PROVE  /\ MarketInv' /\ Goes /\ usdcAllowance' = usdcAllowance /\ usdc'[Me] >= usdc[Me]
             /\ OpenUnits(asks') <= OpenUnits(asks)
             /\ OpenUnits(asks') - bondAllowance' <= OpenUnits(asks) - bondAllowance
             /\ bondAllowance' \in Nat /\ bondAllowance' <= bondAllowance
  <2>1. /\ units <= bondAllowance /\ FillAsk(Other, id, units)
        /\ bondAllowance' = bondAllowance - units /\ usdcAllowance' = usdcAllowance
    BY <1>6 DEF FillOfMine
  <2>2. units \in Nat /\ bondAllowance' \in Nat /\ usdcAllowance' \in Nat
    BY <1>1, <2>1, Given
  <2>3. MarketInv' /\ Goes /\ usdc'[Me] >= usdc[Me]
    BY <1>1, <2>1, <2>2, FillStep
  <2>4. OpenUnits(asks') = OpenUnits(asks) - units
    BY <1>1, <2>1, <2>2, FillingOffers
  <2> QED
    BY <1>1, <2>1, <2>2, <2>3, <2>4
<1> QED
  BY <1>2, <1>3, <1>4, <1>5, <1>6, <1>7, <1>8 DEF Elsewhere

-----------------------------------------------------------------------------
(* The investor's own transactions. *)
LEMMA CallIs ==
  ASSUME NEW call \in Calls
  PROVE  /\ call.op \in Ops
         /\ call.op \in {"approveUsdc", "approveUnits"} => call.amount \in Nat
         /\ call.op \in {"buyPrimary", "fillAsk", "makeAsk"} => call.units \in Amounts /\ call.units \in Nat
         /\ call.op = "buyPrimary" => call.feeBps \in Nat /\ call.shown \in Nat \cup {None}
         /\ call.op = "fillAsk" => call.feeBps \in Nat /\ call.shown \in Nat
         /\ call.op \in {"fillAsk", "cancelAsk"} => call.askId \in AskIds
         /\ call.op = "makeAsk" => call.priceBps \in Nat
<1>1. Amounts \subseteq Nat /\ Prices \subseteq Nat
  BY Given
<1>2. CASE call \in [op: {"approveUsdc", "approveUnits"}, amount: Nat]
  BY <1>2 DEF Ops
<1>3. CASE call \in [op: {"buyPrimary"}, units: Amounts, shown: Nat \cup {None}, feeBps: Nat]
  BY <1>1, <1>3 DEF Ops
<1>4. CASE call \in [op: {"fillAsk"}, askId: AskIds, units: Amounts, shown: Nat, feeBps: Nat]
  BY <1>1, <1>4 DEF Ops
<1>5. CASE call \in [op: {"makeAsk"}, units: Amounts, priceBps: Prices]
  BY <1>1, <1>5 DEF Ops
<1>6. CASE call \in [op: {"cancelAsk"}, askId: AskIds]
  BY <1>6 DEF Ops
<1> QED
  BY <1>2, <1>3, <1>4, <1>5, <1>6 DEF Calls

(* What a purchase takes is under the approval. *)
Due(cost) == cost + FeeOn(Me, cost)

LEMMA TakesIs ==
  ASSUME MarketInv, NEW cost \in Nat, Takes(cost)
  PROVE  /\ usdcAllowance' = usdcAllowance - Due(cost) /\ Due(cost) \in Nat
         /\ Due(cost) <= usdcAllowance /\ usdcAllowance' \in Nat /\ bondAllowance' = bondAllowance
<1>1. FeeOn(Me, cost) \in Nat /\ usdcAllowance \in Nat
  BY FeeIs DEF MarketInv
<1> QED
  BY <1>1 DEF Takes, Due

LEMMA BuysStep ==
  ASSUME MarketInv, NEW call, call.units \in Nat, Buys(call)
  PROVE  /\ MarketInv' /\ Goes /\ asks' = asks /\ feeBps' = feeBps /\ bondAllowance' = bondAllowance
         /\ Due(PrimaryCost(call.units)) \in Nat
         /\ usdc'[Me] = usdc[Me] - Due(PrimaryCost(call.units))
         /\ Due(PrimaryCost(call.units)) <= usdcAllowance
         /\ usdcAllowance' = usdcAllowance - Due(PrimaryCost(call.units))
<1> DEFINE cost == PrimaryCost(call.units)
<1>1. Takes(cost) /\ BuyPrimary(Me, Bond, call.units)
  BY DEF Buys
<1>2. cost \in Nat
  BY BondIs
<1>3. /\ usdcAllowance' = usdcAllowance - Due(cost) /\ Due(cost) \in Nat
      /\ Due(cost) <= usdcAllowance /\ usdcAllowance' \in Nat /\ bondAllowance' = bondAllowance
  BY <1>1, <1>2, TakesIs
<1>4. bondAllowance' \in Nat
  BY <1>3 DEF MarketInv
<1>5. /\ MarketInv' /\ Goes /\ asks' = asks /\ feeBps' = feeBps
      /\ usdc'[Me] = usdc[Me] - cost - FeeOn(Me, cost)
  BY <1>1, <1>3, <1>4, Given, BuyStep
<1>6. usdc[Me] \in Nat /\ FeeOn(Me, cost) \in Nat
  BY <1>2, FeeIs, Given DEF MarketInv, MarketTypeOK
<1>7. usdc'[Me] = usdc[Me] - Due(cost)
  BY <1>2, <1>5, <1>6 DEF Due
<1> QED
  BY <1>3, <1>5, <1>7

LEMMA FillsStep ==
  ASSUME MarketInv, NEW call, call.units \in Nat, call.askId \in AskIds, Fills(call)
  PROVE  /\ MarketInv' /\ Goes /\ feeBps' = feeBps /\ bondAllowance' = bondAllowance
         /\ asks[call.askId].open /\ OpenUnits(asks') = OpenUnits(asks)
         /\ usdc'[Me] = usdc[Me] - Due(Cost(call.units, asks[call.askId].priceBps))
<1> DEFINE cost == Cost(call.units, asks[call.askId].priceBps)
<1>1. Takes(cost) /\ FillAsk(Me, call.askId, call.units) /\ asks[call.askId].open
  BY DEF Fills
<1>2. cost \in Nat
  BY <1>1, AskIs, CostIs
<1>3. usdcAllowance' \in Nat /\ bondAllowance' = bondAllowance
  BY <1>1, <1>2, TakesIs
<1>4. bondAllowance' \in Nat
  BY <1>3 DEF MarketInv
<1>5. /\ MarketInv' /\ Goes /\ feeBps' = feeBps
      /\ usdc'[Me] = usdc[Me] - cost - FeeOn(Me, cost)
  BY <1>1, <1>3, <1>4, Given, FillStep
<1>6. OpenUnits(asks') = OpenUnits(asks) - 0
  BY <1>1, <1>3, <1>4, Given, FillingOffers
<1>7. usdc[Me] \in Nat /\ FeeOn(Me, cost) \in Nat /\ OpenUnits(asks) \in Nat
  BY <1>2, FeeIs, Given, OfferIs DEF MarketInv, MarketTypeOK, Books
<1>8. usdc'[Me] = usdc[Me] - Due(cost)
  BY <1>2, <1>5, <1>7 DEF Due
<1> QED
  BY <1>1, <1>3, <1>5, <1>6, <1>7, <1>8

(* A transaction that goes through does what its operation says. *)
LEMMA ExecuteStep ==
  ASSUME MarketInv, NEW call \in Calls, Execute(call)
  PROVE  /\ MarketInv' /\ Goes /\ feeBps' = feeBps
         /\ call.op = "buyPrimary" => usdc'[Me] = usdc[Me] - Due(PrimaryCost(call.units))
         /\ call.op = "fillAsk" =>
              /\ asks[call.askId].open
              /\ usdc'[Me] = usdc[Me] - Due(Cost(call.units, asks[call.askId].priceBps))
         /\ call.op \notin {"buyPrimary", "fillAsk"} => usdc' = usdc
         /\ bondAllowance' = IF call.op = "approveUnits" THEN call.amount ELSE bondAllowance
         /\ OpenUnits(asks') <= OpenUnits(asks) + (IF call.op = "makeAsk" THEN call.units ELSE 0)
<1>1. /\ usdcAllowance \in Nat /\ bondAllowance \in Nat /\ OpenUnits(asks) \in Nat
      /\ usdc \in [Accounts \cup Settlements -> Nat]
  BY OfferIs DEF MarketInv, MarketTypeOK, Books
<1>2. CASE ApproveUsdc(call)
  <2>1. /\ call.op = "approveUsdc" /\ usdcAllowance' = call.amount /\ bondAllowance' = bondAllowance
        /\ UNCHANGED <<tokenVars, oracleVars, marketVars, now>> /\ usdc' = usdc
    BY <1>2 DEF ApproveUsdc, chainVars
  <2>2. MarketInv' /\ Goes /\ asks' = asks /\ feeBps' = feeBps
    BY <1>1, <2>1, CallIs, RestStep
  <2> QED
    BY <1>1, <2>1, <2>2
<1>3. CASE ApproveUnits(call)
  <2>1. /\ call.op = "approveUnits" /\ bondAllowance' = call.amount /\ usdcAllowance' = usdcAllowance
        /\ UNCHANGED <<tokenVars, oracleVars, marketVars, now>> /\ usdc' = usdc
    BY <1>3 DEF ApproveUnits, chainVars
  <2>2. MarketInv' /\ Goes /\ asks' = asks /\ feeBps' = feeBps
    BY <1>1, <2>1, CallIs, RestStep
  <2> QED
    BY <1>1, <2>1, <2>2
<1>4. CASE Buys(call)
  <2>1. call.op = "buyPrimary"
    BY <1>4 DEF Buys
  <2>2. call.units \in Nat
    BY <2>1, CallIs
  <2> QED
    BY <1>1, <1>4, <2>1, <2>2, BuysStep
<1>5. CASE Fills(call)
  <2>1. call.op = "fillAsk"
    BY <1>5 DEF Fills
  <2>2. call.units \in Nat /\ call.askId \in AskIds
    BY <2>1, CallIs
  <2> QED
    BY <1>1, <1>5, <2>1, <2>2, FillsStep
<1>6. CASE Asks(call)
  <2>1. call.op = "makeAsk" /\ MakeAsk(Me, Bond, call.units, call.priceBps) /\ UNCHANGED allowances
    BY <1>6 DEF Asks
  <2>2. call.units \in Nat /\ call.priceBps \in Nat
    BY <2>1, CallIs
  <2>3. MarketInv' /\ Goes /\ usdc' = usdc /\ feeBps' = feeBps
    BY <2>1, <2>2, Given, AskStep
  <2>4. OpenUnits(asks') = OpenUnits(asks) + call.units
    BY <2>1, <2>2, Given, MakingOffers
  <2> QED
    BY <1>1, <2>1, <2>2, <2>3, <2>4 DEF allowances
<1>7. CASE Cancels(call)
  <2>1. call.op = "cancelAsk" /\ CancelAsk(Me, call.askId) /\ UNCHANGED allowances
    BY <1>7 DEF Cancels
  <2>2. call.askId \in AskIds
    BY <2>1, CallIs
  <2>3. MarketInv' /\ Goes /\ usdc' = usdc /\ feeBps' = feeBps /\ OpenUnits(asks') <= OpenUnits(asks)
    BY <2>1, <2>2, Given, CancelStep, CancellingOffers
  <2> QED
    BY <1>1, <2>1, <2>3 DEF allowances
<1> QED
  BY <1>2, <1>3, <1>4, <1>5, <1>6, <1>7 DEF Execute

-----------------------------------------------------------------------------
(* The hooks. *)
Hooks == {Quiet} \cup [at: {"sending", "pending"}, call: Calls] \cup [at: {"confirmed"}, op: Ops]
Signed == [form: Forms \cup {None}, call: Calls]
Working(at, call) == [at |-> at, call |-> call]

LEMMA HookIs ==
  ASSUME HooksInv
  PROVE  /\ tx \in [Forms -> Hooks] /\ queue \in Seq(Signed)
         /\ \A f \in Forms : tx[f].at \in {"idle", "sending", "pending", "confirmed"}
         /\ \A f \in Forms : Busy(f) =>
              tx[f].call \in Calls /\ tx[f] = Working(tx[f].at, tx[f].call)
         /\ \A i \in DOMAIN queue : queue[i].form \in Forms \cup {None} /\ queue[i].call \in Calls
         /\ \A f \in Forms : (tx[f].at = "pending") <=> (\E i \in DOMAIN queue : queue[i].form = f)
<1>1. /\ tx \in [Forms -> Hooks] /\ queue \in Seq(Signed)
      /\ \A f \in Forms : (tx[f].at = "pending") <=> (\E i \in DOMAIN queue : queue[i].form = f)
  BY DEF HooksInv, TxTypeOK, Hooks, Signed
<1>2. \A h \in Hooks : h.at \in {"idle", "sending", "pending", "confirmed"}
  BY DEF Hooks, Quiet
<1>3. \A h \in Hooks : h.at \in {"sending", "pending"} => h \in [at: {"sending", "pending"}, call: Calls]
  BY DEF Hooks, Quiet
<1>4. \A h \in [at: {"sending", "pending"}, call: Calls] : h.call \in Calls /\ h = Working(h.at, h.call)
  BY DEF Working
<1>5. \A i \in DOMAIN queue : queue[i] \in Signed
  BY <1>1
<1>6. \A e \in Signed : e.form \in Forms \cup {None} /\ e.call \in Calls
  BY DEF Signed
<1> QED
  BY <1>1, <1>2, <1>3, <1>4, <1>5, <1>6 DEF Busy

LEMMA WorkingIs ==
  /\ \A at \in {"sending", "pending"}, call \in Calls :
       Working(at, call) \in Hooks /\ Working(at, call).at = at /\ Working(at, call).call = call
  /\ Quiet \in Hooks /\ Quiet.at = "idle"
  /\ \A op \in Ops : [at |-> "confirmed", op |-> op] \in Hooks
BY DEF Working, Hooks, Quiet

(* What a transaction concerns is as it was when it was entered. *)
LEMMA HonestStays ==
  ASSUME MarketInv, MarketInv', Goes, NEW k \in Calls, Honest(k)
  PROVE  Honest(k)'
<1>1. /\ listings' = listings /\ nextAskId <= nextAskId'
      /\ nextAskId \in Nat /\ nextAskId' \in Nat
  BY DEF Goes, MarketInv, MarketTypeOK
<1>2. \A units : PrimaryCost(units)' = PrimaryCost(units)
  BY <1>1 DEF PrimaryCost
<1>3. k.op = "buyPrimary" /\ k.shown # None => ShownIs(k.shown, PrimaryCost(k.units)', k.feeBps)
  BY <1>2 DEF Honest
<1>4. ASSUME k.op = "fillAsk"
      PROVE  /\ k.askId < nextAskId'
             /\ asks'[k.askId].open => ShownIs(k.shown, Cost(k.units, asks'[k.askId].priceBps), k.feeBps)
  <2>1. k.askId \in AskIds /\ k.askId < nextAskId
    BY <1>4, CallIs DEF Honest
  <2>2. k.askId < nextAskId'
    BY <1>1, <2>1 DEF AskIds
  <2>3. asks'[k.askId].open => asks[k.askId].open /\ asks'[k.askId].priceBps = asks[k.askId].priceBps
    BY <2>1 DEF Goes
  <2> QED
    BY <1>4, <2>2, <2>3 DEF Honest
<1> QED
  BY <1>3, <1>4 DEF Honest

LEMMA OrdersStay ==
  ASSUME MarketInv, MarketInv', HooksInv, OrdersInv, Goes, OnTheirWay' \subseteq OnTheirWay
  PROVE  OrdersInv'
<1>1. OnTheirWay \subseteq Calls
  BY HookIs DEF OnTheirWay
<1>2. \A k \in OnTheirWay : Honest(k)'
  BY <1>1, HonestStays DEF OrdersInv
<1> QED
  BY <1>2 DEF OrdersInv

LEMMA ReadStays ==
  ASSUME MarketInv, MarketInv', ReadInv, Goes, read' = read
  PROVE  ReadInv'
<1>1. nextAskId <= nextAskId' /\ nextAskId \in Nat /\ nextAskId' \in Int
  BY DEF Goes, MarketInv, MarketTypeOK
<1>2. Readings' = Readings
  BY DEF Readings
<1>3. \A id \in AskIds : id \in Nat
  BY DEF AskIds
<1>4. \A q : Known(q)' = Known(q)
  BY DEF Known
<1>5. ASSUME Known("asks"), NEW id \in AskIds, read.asks[id].open
      PROVE  id < nextAskId' /\ (asks'[id].open => asks'[id].priceBps = read.asks[id].priceBps)
  <2>1. id < nextAskId /\ (asks[id].open => asks[id].priceBps = read.asks[id].priceBps)
    BY <1>5 DEF ReadInv
  <2> QED
    BY <1>1, <1>3, <2>1 DEF Goes
<1> QED
  BY <1>2, <1>4, <1>5 DEF ReadInv, Known

(* The page rests while the market moves, as long as the approvals do not. *)
LEMMA PageRests ==
  ASSUME MarketInv, MarketInv', PageInv, Goes, UNCHANGED tradingVars,
         ~Known("usdcAllowance") \/ usdcAllowance' = usdcAllowance,
         OpenUnits(asks') <= OpenUnits(asks),
         OpenUnits(asks') - bondAllowance' <= OpenUnits(asks) - bondAllowance
  PROVE  PageInv'
<1>1. UNCHANGED <<tx, queue, invalid, read, careful>>
  BY DEF tradingVars, txVars
<1>2. HooksInv /\ ReadInv /\ OrdersInv /\ SellInv /\ careful \in BOOLEAN /\ AllowanceFollows
  BY DEF PageInv
<1>3. HooksInv'
  BY <1>1, <1>2 DEF HooksInv, TxTypeOK
<1>4. ReadInv'
  BY <1>1, <1>2, ReadStays
<1>5. OnTheirWay' = OnTheirWay
  BY <1>1 DEF OnTheirWay, Busy
<1>6. OrdersInv'
  BY <1>2, <1>5, OrdersStay
<1>7. /\ bondAllowance \in Nat /\ bondAllowance' \in Nat
      /\ OpenUnits(asks) \in Nat /\ OpenUnits(asks') \in Nat
  BY OfferIs DEF MarketInv, MarketTypeOK, Books
<1>8. SellInv'
  <2>1. \A f : Busy(f)' = Busy(f)
    BY <1>1 DEF Busy
  <2>2. \A op : Selling(op)' = Selling(op)
    BY <1>1 DEF Selling, Busy
  <2>3. \A f \in Forms : Busy(f)' /\ tx'[f].call.op \in {"approveUnits", "makeAsk"} => f = "sell"
    BY <1>1, <1>2, <2>1 DEF SellInv
  <2>4. ASSUME careful
        PROVE  /\ OpenUnits(asks') <= bondAllowance'
               /\ Selling("approveUnits") => OpenUnits(asks') <= tx["sell"].call.amount
               /\ Selling("makeAsk") => OpenUnits(asks') + tx["sell"].call.units <= bondAllowance'
    <3>1. OpenUnits(asks) <= bondAllowance
      BY <1>2, <2>4 DEF SellInv, AsksCovered
    <3>2. Selling("approveUnits") => OpenUnits(asks) <= tx["sell"].call.amount
      BY <1>2, <2>4 DEF SellInv
    <3>3. Selling("makeAsk") => OpenUnits(asks) + tx["sell"].call.units <= bondAllowance
      BY <1>2, <2>4 DEF SellInv
    <3>4. Selling("approveUnits") => tx["sell"].call.amount \in Nat
      BY <1>2, HookIs, CallIs, TradingAssumption DEF Selling
    <3>5. Selling("makeAsk") => tx["sell"].call.units \in Nat
      BY <1>2, HookIs, CallIs, TradingAssumption DEF Selling
    <3> QED
      BY <1>7, <3>1, <3>2, <3>3, <3>4, <3>5
  <2>5. OpenUnits(asks)' = OpenUnits(asks')
    BY DEF OpenUnits
  <2>6. careful => \A i \in DOMAIN queue' : queue'[i].form # None
    BY <1>1, <1>2 DEF SellInv
  <2> QED
    BY <1>1, <2>2, <2>3, <2>4, <2>5, <2>6 DEF SellInv, AsksCovered
<1>9. AllowanceFollows'
  BY <1>1, <1>2 DEF AllowanceFollows, Known
<1> QED
  BY <1>1, <1>2, <1>3, <1>4, <1>6, <1>8, <1>9 DEF PageInv

(* A query is refetched. *)
LEMMA RefetchStep ==
  ASSUME MarketInv, PageInv, NEW q \in Reads, Refetch(q)
  PROVE  PageInv'
<1>1. /\ read' = [read EXCEPT ![q] = OnChain[q]] /\ invalid' = invalid \ {q}
      /\ UNCHANGED <<tx, queue, careful>> /\ UNCHANGED chainVars /\ UNCHANGED allowances
  BY DEF Refetch
<1>2. /\ HooksInv /\ ReadInv /\ OrdersInv /\ SellInv /\ careful \in BOOLEAN /\ AllowanceFollows
      /\ DOMAIN read = Reads
  BY DEF PageInv, ReadInv
<1>3. UNCHANGED <<listings, asks, nextAskId, usdcAllowance, bondAllowance>>
  BY <1>1 DEF chainVars, marketVars, allowances
<1>4. HooksInv'
  BY <1>1, <1>2 DEF HooksInv, TxTypeOK
<1>5. OrdersInv'
  BY <1>1, <1>2, <1>3 DEF OrdersInv, OnTheirWay, Busy, Honest, PrimaryCost
<1>6. SellInv'
  BY <1>1, <1>2, <1>3 DEF SellInv, Busy, Selling, AsksCovered, OpenUnits
<1>7. read'[q] = OnChain[q] /\ \A r \in Reads \ {q} : read'[r] = read[r] /\ (Known(r)' <=> Known(r))
  BY <1>1, <1>2 DEF Known
<1>8. OnChain[q] \in Readings[q]
  <2>1. /\ feeBps \in Nat /\ usdcAllowance \in Nat /\ bondAllowance \in Nat
        /\ asks \in [AskIds -> Ask \cup {NoAsk}]
        /\ usdc[Me] \in Nat /\ totalSupply[Bond] \in Nat /\ balanceOf[Bond][Me] \in Nat
    BY Given DEF MarketInv, MarketTypeOK, TokenTypeOK
  <2> QED
    BY <2>1, TradingAssumption DEF OnChain, Readings
<1>9. ReadInv'
  <2>1. DOMAIN read' = Reads /\ Readings' = Readings
    BY <1>1, <1>2 DEF Readings
  <2>2. \A r \in Reads : Known(r)' => read'[r] \in Readings[r]
    BY <1>2, <1>7, <1>8 DEF ReadInv
  <2>3. ASSUME Known("asks")', NEW id \in AskIds, read'["asks"][id].open
        PROVE  id < nextAskId /\ (asks[id].open => asks[id].priceBps = read'["asks"][id].priceBps)
    <3>1. CASE q = "asks"
      <4>1. read'["asks"] = asks
        BY <1>7, <3>1 DEF OnChain
      <4> QED
        BY <2>3, <4>1, AskIs
    <3>2. CASE q # "asks"
      <4>1. read'["asks"] = read["asks"] /\ Known("asks")
        BY <1>7, <2>3, <3>2, TradingAssumption
      <4> QED
        BY <1>2, <2>3, <4>1 DEF ReadInv
    <3> QED
      BY <3>1, <3>2
  <2> QED
    BY <1>3, <2>1, <2>2, <2>3 DEF ReadInv
<1>10. AllowanceFollows'
  <2> SUFFICES ASSUME careful, Known("usdcAllowance")', "usdcAllowance" \notin invalid'
               PROVE  read'["usdcAllowance"] = usdcAllowance
    BY <1>1, <1>3 DEF AllowanceFollows
  <2>1. CASE q = "usdcAllowance"
    BY <1>7, <2>1 DEF OnChain
  <2>2. CASE q # "usdcAllowance"
    <3>1. "usdcAllowance" \in Reads \ {q} /\ "usdcAllowance" \notin invalid
      BY <1>1, <2>2, TradingAssumption
    <3> QED
      BY <1>2, <1>7, <3>1 DEF AllowanceFollows
  <2> QED
    BY <2>1, <2>2
<1> QED
  BY <1>1, <1>2, <1>4, <1>5, <1>6, <1>9, <1>10 DEF PageInv

(* A form sends a call: an honest one, and a sale only with its approval. *)
LEMMA SendStep ==
  ASSUME PageInv, NEW f \in Forms, NEW k \in Calls, Send(f, k), Honest(k),
         UNCHANGED <<read, chainVars, allowances>>, careful' \in BOOLEAN, careful' => careful,
         k.op \in {"approveUnits", "makeAsk"} => f = "sell",
         careful' /\ k.op = "approveUnits" => OpenUnits(asks) <= k.amount,
         careful' /\ k.op = "makeAsk" => OpenUnits(asks) + k.units <= bondAllowance
  PROVE  PageInv'
<1>1. /\ ~Busy(f) /\ tx' = [tx EXCEPT ![f] = Working("sending", k)]
      /\ UNCHANGED <<queue, invalid, read>>
  BY DEF Send, Working
<1>2. HooksInv /\ ReadInv /\ OrdersInv /\ SellInv /\ careful \in BOOLEAN /\ AllowanceFollows
  BY DEF PageInv
<1>3. UNCHANGED <<listings, asks, nextAskId, usdcAllowance, bondAllowance>>
  BY DEF chainVars, marketVars, allowances
<1>4. /\ tx \in [Forms -> Hooks] /\ None \notin Forms
      /\ \A i \in DOMAIN queue : queue[i].form # f
  BY <1>1, <1>2, HookIs, TradingAssumption DEF Busy
<1>5. /\ Working("sending", k) \in Hooks
      /\ Working("sending", k).at = "sending" /\ Working("sending", k).call = k
  BY WorkingIs
<1>6. tx' \in [Forms -> Hooks] /\ tx'[f] = Working("sending", k) /\ \A g \in Forms \ {f} : tx'[g] = tx[g]
  BY <1>1, <1>4, <1>5
<1>7. HooksInv'
  <2>1. \A g \in Forms : (tx'[g].at = "pending") <=> (\E i \in DOMAIN queue : queue[i].form = g)
    <3> TAKE g \in Forms
    <3>1. CASE g = f
      BY <1>4, <1>5, <1>6, <3>1
    <3>2. CASE g # f
      BY <1>2, <1>6, <3>2, HookIs
    <3> QED
      BY <3>1, <3>2
  <2>2. TxTypeOK(Calls)'
    BY <1>1, <1>2, <1>6, <2>1 DEF HooksInv, TxTypeOK, Hooks
  <2>3. ASSUME NEW i \in DOMAIN queue, queue[i].form # None
        PROVE  tx'[queue[i].form].call = queue[i].call
    <3>1. queue[i].form \in Forms \ {f}
      BY <1>2, <1>4, <2>3, HookIs
    <3> QED
      BY <1>2, <1>6, <2>3, <3>1 DEF HooksInv
  <2> QED
    BY <1>1, <1>2, <2>2, <2>3 DEF HooksInv
<1>8. ReadInv'
  BY <1>1, <1>2, <1>3 DEF ReadInv, Known, Readings
<1>9. \A g \in Forms \ {f} : Busy(g)' = Busy(g)
  BY <1>6 DEF Busy
<1>10. OnTheirWay' \subseteq OnTheirWay \cup {k}
  <2>1. \A g \in Forms : Busy(g)' => tx'[g].call \in OnTheirWay \cup {k}
    <3> SUFFICES ASSUME NEW g \in Forms, Busy(g)' PROVE tx'[g].call \in OnTheirWay \cup {k}
      OBVIOUS
    <3>1. CASE g = f
      BY <1>5, <1>6, <3>1
    <3>2. CASE g # f
      BY <1>6, <1>9, <3>2 DEF OnTheirWay
    <3> QED
      BY <3>1, <3>2
  <2> QED
    BY <1>1, <2>1 DEF OnTheirWay
<1>11. \A call : Honest(call)' = Honest(call)
  BY <1>3 DEF Honest, PrimaryCost
<1>12. OrdersInv'
  BY <1>2, <1>10, <1>11 DEF OrdersInv
<1>13. SellInv'
  <2>1. \A g \in Forms : Busy(g)' /\ tx'[g].call.op \in {"approveUnits", "makeAsk"} => g = "sell"
    <3> TAKE g \in Forms
    <3>1. CASE g = f
      BY <1>5, <1>6, <3>1
    <3>2. CASE g # f
      BY <1>2, <1>6, <1>9, <3>2 DEF SellInv
    <3> QED
      BY <3>1, <3>2
  <2>2. ASSUME careful'
        PROVE  /\ \A i \in DOMAIN queue' : queue'[i].form # None
               /\ OpenUnits(asks) <= bondAllowance
    BY <1>1, <1>2, <2>2 DEF SellInv, AsksCovered
  <2>3. ASSUME careful', Selling("approveUnits")' PROVE OpenUnits(asks) <= tx'["sell"].call.amount
    <3>1. CASE f = "sell"
      BY <1>5, <1>6, <2>3, <3>1 DEF Selling
    <3>2. CASE f # "sell"
      <4>1. "sell" \in Forms \ {f}
        BY <3>2, TradingAssumption
      <4> QED
        BY <1>2, <1>6, <1>9, <2>3, <4>1 DEF SellInv, Selling
    <3> QED
      BY <3>1, <3>2
  <2>4. ASSUME careful', Selling("makeAsk")' PROVE OpenUnits(asks) + tx'["sell"].call.units <= bondAllowance
    <3>1. CASE f = "sell"
      BY <1>5, <1>6, <2>4, <3>1 DEF Selling
    <3>2. CASE f # "sell"
      <4>1. "sell" \in Forms \ {f}
        BY <3>2, TradingAssumption
      <4> QED
        BY <1>2, <1>6, <1>9, <2>4, <4>1 DEF SellInv, Selling
    <3> QED
      BY <3>1, <3>2
  <2>5. OpenUnits(asks)' = OpenUnits(asks)
    BY <1>3 DEF OpenUnits
  <2> QED
    BY <1>3, <2>1, <2>2, <2>3, <2>4, <2>5 DEF SellInv, AsksCovered
<1>14. AllowanceFollows'
  BY <1>1, <1>2, <1>3 DEF AllowanceFollows, Known
<1> QED
  BY <1>7, <1>8, <1>12, <1>13, <1>14 DEF PageInv

(* The fee a form shows is a number, read or not. *)
LEMMA ShownFee ==
  ASSUME ReadInv, NEW cost \in Nat
  PROVE  /\ ReadOr("feeBps", 0) \in Nat /\ FeeShown(cost) \in Nat /\ ShownTotal(cost) \in Nat
         /\ ShownIs(ShownTotal(cost), cost, ReadOr("feeBps", 0))
<1>1. ReadOr("feeBps", 0) \in Nat
  BY TradingAssumption DEF ReadOr, ReadInv, Readings
<1>2. FeeShown(cost) \in Nat
  BY <1>1, Given, CeilBounds DEF FeeShown
<1> QED
  BY <1>1, <1>2 DEF ShownTotal, ShownIs, FeeShown

LEMMA FundStep ==
  ASSUME MarketInv, PageInv, NEW units \in Amounts, NEW priced \in BOOLEAN, Fund(units, priced),
         UNCHANGED <<read, chainVars, allowances>>
  PROVE  PageInv'
<1> DEFINE cost == PrimaryCost(units)
           fee == ReadOr("feeBps", 0)
           total == IF priced THEN ShownTotal(cost) ELSE 0
           buy == [op |-> "buyPrimary", units |-> units, feeBps |-> fee,
                   shown |-> IF priced THEN total ELSE None]
           approve == [op |-> "approveUsdc", amount |-> total]
<1>1. cost \in Nat /\ ReadInv /\ careful \in BOOLEAN
  BY BondIs, Given DEF PageInv
<1>2. fee \in Nat /\ total \in Nat /\ (priced => ShownIs(total, cost, fee))
  BY <1>1, ShownFee
<1>3. Send("fund", IF NeedsApprove("usdcAllowance", total) THEN approve ELSE buy) /\ careful' = careful
  BY DEF Fund, Order
<1> HIDE DEF total, fee
<1>4. approve \in Calls /\ approve.op = "approveUsdc" /\ Honest(approve)
  BY <1>2 DEF Calls, Honest
<1>5. buy \in Calls /\ buy.op = "buyPrimary"
  BY <1>2 DEF Calls
<1>6. Honest(buy)
  BY <1>2 DEF Honest
<1> HIDE DEF approve, buy
<1>7. PICK k \in {approve, buy} : Send("fund", k)
  BY <1>3
<1>8. k \in Calls /\ k.op \in {"approveUsdc", "buyPrimary"} /\ Honest(k)
  BY <1>4, <1>5, <1>6, <1>7
<1> QED
  BY <1>1, <1>3, <1>7, <1>8, SendStep, TradingAssumption

LEMMA FillOrderStep ==
  ASSUME MarketInv, PageInv, NEW id \in AskIds, NEW units \in Amounts, Fill(id, units),
         UNCHANGED <<read, chainVars, allowances>>
  PROVE  PageInv'
<1> DEFINE cost == Cost(units, read.asks[id].priceBps)
           fee == ReadOr("feeBps", 0)
           total == ShownTotal(cost)
           fill == [op |-> "fillAsk", askId |-> id, units |-> units, shown |-> total, feeBps |-> fee]
           approve == [op |-> "approveUsdc", amount |-> total]
<1>1. /\ ReadInv /\ careful \in BOOLEAN /\ Known("asks") /\ read.asks[id].open
      /\ read.asks \in [AskIds -> Ask \cup {NoAsk}]
  BY TradingAssumption DEF PageInv, ReadInv, Readings, Fill
<1>2. read.asks[id].priceBps \in Nat
  <2>1. read.asks[id] \in Ask \cup {NoAsk} /\ read.asks[id] # NoAsk
    BY <1>1 DEF NoAsk
  <2> QED
    BY <2>1 DEF Ask
<1>3. cost \in Nat
  BY <1>2, CostIs, Given
<1>4. fee \in Nat /\ total \in Nat /\ ShownIs(total, cost, fee)
  BY <1>1, <1>3, ShownFee
<1>5. id < nextAskId /\ (asks[id].open => asks[id].priceBps = read.asks[id].priceBps)
  BY <1>1 DEF ReadInv
<1>6. Send("fill", IF NeedsApprove("usdcAllowance", total) THEN approve ELSE fill) /\ careful' = careful
  BY DEF Fill, Order
<1> HIDE DEF total, fee
<1>7. approve \in Calls /\ approve.op = "approveUsdc" /\ Honest(approve)
  BY <1>4 DEF Calls, Honest
<1>8. fill \in Calls /\ fill.op = "fillAsk"
  BY <1>4 DEF Calls
<1>9. Honest(fill)
  BY <1>4, <1>5 DEF Honest
<1> HIDE DEF approve, fill
<1>10. PICK k \in {approve, fill} : Send("fill", k)
  BY <1>6
<1>11. k \in Calls /\ k.op \in {"approveUsdc", "fillAsk"} /\ Honest(k)
  BY <1>7, <1>8, <1>9, <1>10
<1> QED
  BY <1>1, <1>6, <1>10, <1>11, SendStep, TradingAssumption

LEMMA CancelOrderStep ==
  ASSUME MarketInv, PageInv, NEW id \in AskIds, Cancel(id), UNCHANGED <<read, chainVars, allowances>>
  PROVE  PageInv'
<1> DEFINE cancel == [op |-> "cancelAsk", askId |-> id]
<1>1. Send("cancel", cancel) /\ careful' = careful /\ careful \in BOOLEAN
  BY DEF Cancel, PageInv
<1>2. cancel \in Calls /\ cancel.op = "cancelAsk"
  BY DEF Calls
<1>3. Honest(cancel)
  BY DEF Honest
<1> HIDE DEF cancel
<1>4. PICK k \in {cancel} : Send("cancel", k)
  BY <1>1
<1>5. k \in Calls /\ k.op = "cancelAsk" /\ Honest(k)
  BY <1>2, <1>3, <1>4
<1> QED
  BY <1>1, <1>4, <1>5, SendStep, TradingAssumption

LEMMA SellStep ==
  ASSUME MarketInv, PageInv, NEW units \in Amounts, NEW p \in Prices, Sell(units, p),
         UNCHANGED <<read, chainVars, allowances>>
  PROVE  PageInv'
<1> DEFINE need == Needed(units)
           ask == [op |-> "makeAsk", units |-> units, priceBps |-> p]
           approve == [op |-> "approveUnits", amount |-> need]
<1>1. ReadInv /\ careful \in BOOLEAN /\ units \in Nat /\ asks \in Books
  BY Given DEF PageInv, MarketInv, MarketTypeOK, Books
<1>2. /\ Send("sell", IF NeedsApprove("bondAllowance", need) THEN approve ELSE ask)
      /\ careful' = (careful /\ \A q \in {"asks", "bondAllowance"} : read[q] = OnChain[q])
  BY DEF Sell, Order
<1>3. need \in Nat
  <2>1. Known("asks") => read.asks \in Books
    BY <1>1, TradingAssumption DEF ReadInv, Readings, Books
  <2>2. Known("asks") => OpenUnits(read.asks) \in Nat
    BY <2>1, OfferIs
  <2> QED
    BY <1>1, <2>2 DEF Needed
<1>4. careful' => /\ need = units + OpenUnits(asks)
                  /\ NeedsApprove("bondAllowance", need) \/ need <= bondAllowance
  <2> SUFFICES ASSUME careful' PROVE <1>4!2
    OBVIOUS
  <2>1. read["asks"] = OnChain["asks"] /\ read["bondAllowance"] = OnChain["bondAllowance"]
    BY <1>2
  <2>2. read["asks"] = asks /\ read["bondAllowance"] = bondAllowance
    BY <2>1 DEF OnChain
  <2>3. Known("asks") /\ Known("bondAllowance") /\ bondAllowance \in Nat
    BY <1>1, <2>2, TradingAssumption DEF Known, Books, MarketInv
  <2>4. need = units + OpenUnits(asks)
    BY <2>2, <2>3 DEF Needed
  <2>5. NeedsApprove("bondAllowance", need) \/ need <= bondAllowance
    BY <1>3, <2>2, <2>3 DEF NeedsApprove
  <2> QED
    BY <2>4, <2>5
<1> HIDE DEF need
<1>5. approve \in Calls /\ approve.op = "approveUnits" /\ approve.amount = need /\ Honest(approve)
  BY <1>3 DEF Calls, Honest
<1>6. ask \in Calls /\ ask.op = "makeAsk" /\ ask.units = units
  BY DEF Calls
<1>7. Honest(ask)
  BY DEF Honest
<1> HIDE DEF approve, ask
<1>8. OpenUnits(asks) \in Nat
  BY <1>1, OfferIs
<1>9. PICK k \in {approve, ask} :
        Send("sell", k) /\ (k = ask => ~NeedsApprove("bondAllowance", need) \/ approve = ask)
  BY <1>2
<1>10. approve # ask
  BY <1>5, <1>6
<1>11. k \in Calls /\ Honest(k) /\ careful' \in BOOLEAN /\ (careful' => careful)
  BY <1>1, <1>2, <1>5, <1>6, <1>7, <1>9
<1>12. careful' /\ k.op = "approveUnits" => OpenUnits(asks) <= k.amount
  BY <1>1, <1>4, <1>5, <1>6, <1>8, <1>9
<1>13. careful' /\ k.op = "makeAsk" => OpenUnits(asks) + k.units <= bondAllowance
  BY <1>1, <1>4, <1>5, <1>6, <1>8, <1>9, <1>10
<1> QED
  BY <1>9, <1>11, <1>12, <1>13, SendStep, TradingAssumption

(* What is signed, given up on or left: a form has no new call after it. *)
LEMMA SignStep ==
  ASSUME PageInv, NEW f \in Forms, Sign(f, TRUE), careful' = careful,
         UNCHANGED <<read, chainVars, allowances>>
  PROVE  PageInv'
<1> DEFINE k == tx[f].call
           entry == [form |-> f, call |-> k]
<1>1. /\ tx[f].at = "sending" /\ tx' = [tx EXCEPT ![f].at = "pending"]
      /\ queue' = Append(queue, entry) /\ UNCHANGED <<invalid, read>>
  BY DEF Sign
<1>2. HooksInv /\ ReadInv /\ OrdersInv /\ SellInv /\ careful \in BOOLEAN /\ AllowanceFollows
  BY DEF PageInv
<1>3. UNCHANGED <<listings, asks, nextAskId, usdcAllowance, bondAllowance>>
  BY DEF chainVars, marketVars, allowances
<1>4. /\ tx \in [Forms -> Hooks] /\ queue \in Seq(Signed) /\ None \notin Forms
      /\ k \in Calls /\ tx[f] = Working("sending", k) /\ Busy(f)
      /\ \A i \in DOMAIN queue : queue[i].form # f
  BY <1>1, <1>2, HookIs, TradingAssumption DEF Busy
<1>5. [tx[f] EXCEPT !.at = "pending"] = Working("pending", k)
  BY <1>4 DEF Working
<1>6. /\ Working("pending", k) \in Hooks /\ Working("pending", k).at = "pending"
      /\ Working("pending", k).call = k
  BY <1>4, WorkingIs
<1> HIDE DEF k
<1>7. tx' \in [Forms -> Hooks] /\ tx'[f] = Working("pending", k) /\ \A g \in Forms \ {f} : tx'[g] = tx[g]
  BY <1>1, <1>4, <1>5, <1>6
<1>8. entry \in Signed /\ entry.form = f /\ entry.call = k
  BY <1>4 DEF Signed
<1> HIDE DEF entry
<1>9. /\ queue' \in Seq(Signed) /\ DOMAIN queue' = 1 .. Len(queue) + 1 /\ Len(queue) \in Nat
      /\ DOMAIN queue = 1 .. Len(queue)
      /\ \A i \in DOMAIN queue : queue'[i] = queue[i]
      /\ queue'[Len(queue) + 1] = entry
  BY <1>1, <1>4, <1>8
<1>10. \A i \in DOMAIN queue' : i \in DOMAIN queue \/ i = Len(queue) + 1
  BY <1>9
<1>11. HooksInv'
  <2>1. \A g \in Forms : (tx'[g].at = "pending") <=> (\E i \in DOMAIN queue' : queue'[i].form = g)
    <3> TAKE g \in Forms
    <3>1. CASE g = f
      <4>1. Len(queue) + 1 \in DOMAIN queue' /\ queue'[Len(queue) + 1].form = f
        BY <1>8, <1>9
      <4> QED
        BY <1>6, <1>7, <3>1, <4>1
    <3>2. CASE g # f
      <4>1. (\E i \in DOMAIN queue' : queue'[i].form = g) <=> (\E i \in DOMAIN queue : queue[i].form = g)
        BY <1>8, <1>9, <1>10, <3>2
      <4> QED
        BY <1>2, <1>7, <3>2, <4>1, HookIs
    <3> QED
      BY <3>1, <3>2
  <2>2. TxTypeOK(Calls)'
    BY <1>1, <1>2, <1>7, <1>9, <2>1 DEF HooksInv, TxTypeOK, Hooks, Signed
  <2>3. ASSUME NEW i \in DOMAIN queue', queue'[i].form # None
        PROVE  /\ tx'[queue'[i].form].call = queue'[i].call
               /\ \A j \in DOMAIN queue' : queue'[j].form = queue'[i].form => j = i
    <3>1. CASE i \in DOMAIN queue
      <4>1. queue'[i] = queue[i] /\ queue[i].form \in Forms \ {f}
        BY <1>2, <1>4, <1>9, <2>3, <3>1, HookIs
      <4>2. tx[queue[i].form].call = queue[i].call
            /\ \A j \in DOMAIN queue : queue[j].form = queue[i].form => j = i
        BY <1>2, <2>3, <3>1, <4>1 DEF HooksInv
      <4> QED
        BY <1>7, <1>8, <1>9, <1>10, <4>1, <4>2
    <3>2. CASE i = Len(queue) + 1
      <4>1. queue'[i].form = f /\ queue'[i].call = k
        BY <1>8, <1>9, <3>2
      <4>2. \A j \in DOMAIN queue : queue'[j].form # f
        BY <1>4, <1>9
      <4> QED
        BY <1>6, <1>7, <1>10, <3>2, <4>1, <4>2
    <3> QED
      BY <1>10, <3>1, <3>2
  <2> QED
    BY <2>2, <2>3 DEF HooksInv
<1>12. ReadInv'
  BY <1>1, <1>2, <1>3 DEF ReadInv, Known, Readings
<1>13. \A g \in Forms : Busy(g)' = Busy(g) /\ (Busy(g) => tx'[g].call = tx[g].call)
  BY <1>4, <1>6, <1>7 DEF Busy, k
<1>14. OnTheirWay' \subseteq OnTheirWay
  <2>1. \A g \in Forms : Busy(g)' => tx'[g].call \in OnTheirWay
    BY <1>13 DEF OnTheirWay
  <2>2. \A i \in DOMAIN queue' : queue'[i].call \in OnTheirWay
    <3>1. k \in OnTheirWay
      BY <1>4 DEF OnTheirWay, k
    <3> QED
      BY <1>8, <1>9, <1>10, <3>1 DEF OnTheirWay
  <2> QED
    BY <2>1, <2>2 DEF OnTheirWay
<1>15. \A call : Honest(call)' = Honest(call)
  BY <1>3 DEF Honest, PrimaryCost
<1>16. OrdersInv'
  BY <1>2, <1>14, <1>15 DEF OrdersInv
<1>17. SellInv'
  <2>1. \A i \in DOMAIN queue' : queue'[i].form # None \/ (i \in DOMAIN queue /\ queue[i].form = None)
    BY <1>4, <1>8, <1>9, <1>10
  <2>2. \A op : Selling(op)' = Selling(op) /\ (Selling(op) => tx'["sell"].call = tx["sell"].call)
    BY <1>13, TradingAssumption DEF Selling
  <2>3. OpenUnits(asks)' = OpenUnits(asks)
    BY <1>3 DEF OpenUnits
  <2>4. \A g \in Forms : Busy(g)' /\ tx'[g].call.op \in {"approveUnits", "makeAsk"} => g = "sell"
    BY <1>2, <1>13 DEF SellInv
  <2>5. careful' => \A i \in DOMAIN queue' : queue'[i].form # None
    BY <1>2, <2>1 DEF SellInv
  <2> QED
    BY <1>2, <1>3, <2>2, <2>3, <2>4, <2>5 DEF SellInv, AsksCovered
<1>18. AllowanceFollows'
  BY <1>1, <1>2, <1>3 DEF AllowanceFollows, Known
<1> QED
  BY <1>2, <1>11, <1>12, <1>16, <1>17, <1>18 DEF PageInv

LEMMA FailStep ==
  ASSUME PageInv, NEW f \in Forms, Fail(f), careful' = careful,
         UNCHANGED <<read, chainVars, allowances>>
  PROVE  PageInv'
<1>1. /\ tx[f].at = "sending" /\ tx' = [tx EXCEPT ![f] = Quiet] /\ UNCHANGED <<queue, invalid, read>>
  BY DEF Fail
<1>2. HooksInv /\ ReadInv /\ OrdersInv /\ SellInv /\ careful \in BOOLEAN /\ AllowanceFollows
  BY DEF PageInv
<1>3. UNCHANGED <<listings, asks, nextAskId, usdcAllowance, bondAllowance>>
  BY DEF chainVars, marketVars, allowances
<1>4. /\ tx \in [Forms -> Hooks] /\ None \notin Forms
      /\ \A i \in DOMAIN queue : queue[i].form # f
  BY <1>1, <1>2, HookIs, TradingAssumption
<1>5. tx' \in [Forms -> Hooks] /\ tx'[f] = Quiet /\ \A g \in Forms \ {f} : tx'[g] = tx[g]
  BY <1>1, <1>4, WorkingIs
<1>6. HooksInv'
  <2>1. \A g \in Forms : (tx'[g].at = "pending") <=> (\E i \in DOMAIN queue : queue[i].form = g)
    <3> TAKE g \in Forms
    <3>1. CASE g = f
      BY <1>4, <1>5, <3>1, WorkingIs
    <3>2. CASE g # f
      BY <1>2, <1>5, <3>2, HookIs
    <3> QED
      BY <3>1, <3>2
  <2>2. TxTypeOK(Calls)'
    BY <1>1, <1>2, <1>5, <2>1 DEF HooksInv, TxTypeOK, Hooks
  <2>3. ASSUME NEW i \in DOMAIN queue, queue[i].form # None
        PROVE  tx'[queue[i].form].call = queue[i].call
    <3>1. queue[i].form \in Forms \ {f}
      BY <1>2, <1>4, <2>3, HookIs
    <3> QED
      BY <1>2, <1>5, <2>3, <3>1 DEF HooksInv
  <2> QED
    BY <1>1, <1>2, <2>2, <2>3 DEF HooksInv
<1>7. ReadInv'
  BY <1>1, <1>2, <1>3 DEF ReadInv, Known, Readings
<1>8. \A g \in Forms : Busy(g)' => Busy(g) /\ tx'[g].call = tx[g].call
  <2> TAKE g \in Forms
  <2>1. CASE g = f
    BY <1>5, <2>1, WorkingIs DEF Busy
  <2>2. CASE g # f
    BY <1>5, <2>2 DEF Busy
  <2> QED
    BY <2>1, <2>2
<1>9. OrdersInv'
  <2>1. OnTheirWay' \subseteq OnTheirWay
    BY <1>1, <1>8 DEF OnTheirWay
  <2>2. \A call : Honest(call)' = Honest(call)
    BY <1>3 DEF Honest, PrimaryCost
  <2> QED
    BY <1>2, <2>1, <2>2 DEF OrdersInv
<1>10. SellInv'
  <2>1. \A op : Selling(op)' => Selling(op) /\ tx'["sell"].call = tx["sell"].call
    BY <1>8, TradingAssumption DEF Selling
  <2>2. OpenUnits(asks)' = OpenUnits(asks)
    BY <1>3 DEF OpenUnits
  <2>3. \A g \in Forms : Busy(g)' /\ tx'[g].call.op \in {"approveUnits", "makeAsk"} => g = "sell"
    BY <1>2, <1>8 DEF SellInv
  <2> QED
    BY <1>1, <1>2, <1>3, <2>1, <2>2, <2>3 DEF SellInv, AsksCovered
<1>11. AllowanceFollows'
  BY <1>1, <1>2, <1>3 DEF AllowanceFollows, Known
<1> QED
  BY <1>2, <1>6, <1>7, <1>9, <1>10, <1>11 DEF PageInv

LEMMA LeaveStep ==
  ASSUME PageInv, NEW f \in Forms, Leave(f), careful' = FALSE,
         UNCHANGED <<read, chainVars, allowances>>
  PROVE  PageInv'
<1> DEFINE left == [i \in DOMAIN queue |->
              IF queue[i].form = f THEN [queue[i] EXCEPT !.form = None] ELSE queue[i]]
<1>1. /\ tx[f].at = "pending" /\ tx' = [tx EXCEPT ![f] = Quiet] /\ queue' = left
      /\ UNCHANGED <<invalid, read>>
  BY DEF Leave
<1>2. HooksInv /\ ReadInv /\ OrdersInv /\ SellInv
  BY DEF PageInv
<1>3. UNCHANGED <<listings, asks, nextAskId, usdcAllowance, bondAllowance>>
  BY DEF chainVars, marketVars, allowances
<1>4. tx \in [Forms -> Hooks] /\ queue \in Seq(Signed) /\ None \notin Forms
  BY <1>2, HookIs, TradingAssumption
<1>5. tx' \in [Forms -> Hooks] /\ tx'[f] = Quiet /\ \A g \in Forms \ {f} : tx'[g] = tx[g]
  BY <1>1, <1>4, WorkingIs
<1>6. \A e \in Signed : LET r == [e EXCEPT !.form = None]
                        IN  r \in Signed /\ r.form = None /\ r.call = e.call
  BY DEF Signed
<1>7. /\ DOMAIN left = DOMAIN queue
      /\ \A i \in DOMAIN queue :
           /\ left[i] \in Signed /\ left[i].call = queue[i].call
           /\ left[i].form = IF queue[i].form = f THEN None ELSE queue[i].form
  <2>1. \A i \in DOMAIN queue : queue[i] \in Signed
    BY <1>4
  <2> SUFFICES ASSUME NEW i \in DOMAIN queue
               PROVE  /\ left[i] \in Signed /\ left[i].call = queue[i].call
                      /\ left[i].form = IF queue[i].form = f THEN None ELSE queue[i].form
    OBVIOUS
  <2>2. CASE queue[i].form = f
    BY <1>6, <2>1, <2>2
  <2>3. CASE queue[i].form # f
    BY <2>1, <2>3
  <2> QED
    BY <2>2, <2>3
<1>8. left \in Seq(Signed)
  <2>1. DOMAIN left = 1 .. Len(queue) /\ Len(queue) \in Nat
    BY <1>4, <1>7
  <2>2. left \in [1 .. Len(queue) -> Signed]
    BY <1>7, <2>1
  <2> QED
    BY <2>1, <2>2
<1> HIDE DEF left
<1>9. \A i \in DOMAIN queue : queue'[i].form # f
  BY <1>1, <1>4, <1>7
<1>10. HooksInv'
  <2>1. \A g \in Forms : (tx'[g].at = "pending") <=> (\E i \in DOMAIN queue' : queue'[i].form = g)
    <3> TAKE g \in Forms
    <3>1. CASE g = f
      BY <1>1, <1>5, <1>7, <1>9, <3>1, WorkingIs
    <3>2. CASE g # f
      <4>1. (\E i \in DOMAIN queue' : queue'[i].form = g) <=> (\E i \in DOMAIN queue : queue[i].form = g)
        BY <1>1, <1>4, <1>7, <3>2
      <4> QED
        BY <1>2, <1>5, <3>2, <4>1, HookIs
    <3> QED
      BY <3>1, <3>2
  <2>2. TxTypeOK(Calls)'
    BY <1>1, <1>2, <1>5, <1>8, <2>1 DEF HooksInv, TxTypeOK, Hooks, Signed
  <2>3. ASSUME NEW i \in DOMAIN queue', queue'[i].form # None
        PROVE  /\ tx'[queue'[i].form].call = queue'[i].call
               /\ \A j \in DOMAIN queue' : queue'[j].form = queue'[i].form => j = i
    <3>1. i \in DOMAIN queue /\ DOMAIN queue' = DOMAIN queue
      BY <1>1, <1>7
    <3>2. queue'[i].form = queue[i].form /\ queue[i].form # f /\ queue'[i].call = queue[i].call
      BY <1>1, <1>7, <2>3, <3>1
    <3>3. queue[i].form \in Forms \ {f}
      BY <1>2, <2>3, <3>1, <3>2, HookIs
    <3>4. /\ tx[queue[i].form].call = queue[i].call
          /\ \A j \in DOMAIN queue : queue[j].form = queue[i].form => j = i
      BY <1>2, <2>3, <3>1, <3>2 DEF HooksInv
    <3>5. \A j \in DOMAIN queue : queue'[j].form = queue[i].form => queue[j].form = queue[i].form
      BY <1>1, <1>4, <1>7, <3>3
    <3> QED
      BY <1>5, <3>1, <3>2, <3>3, <3>4, <3>5
  <2> QED
    BY <2>2, <2>3 DEF HooksInv
<1>11. ReadInv'
  BY <1>1, <1>2, <1>3 DEF ReadInv, Known, Readings
<1>12. \A g \in Forms : Busy(g)' => Busy(g) /\ tx'[g].call = tx[g].call
  <2> TAKE g \in Forms
  <2>1. CASE g = f
    BY <1>5, <2>1, WorkingIs DEF Busy
  <2>2. CASE g # f
    BY <1>5, <2>2 DEF Busy
  <2> QED
    BY <2>1, <2>2
<1>13. OrdersInv'
  <2>1. OnTheirWay' \subseteq OnTheirWay
    BY <1>1, <1>7, <1>12 DEF OnTheirWay
  <2>2. \A call : Honest(call)' = Honest(call)
    BY <1>3 DEF Honest, PrimaryCost
  <2> QED
    BY <1>2, <2>1, <2>2 DEF OrdersInv
<1>14. SellInv'
  BY <1>2, <1>12 DEF SellInv
<1>15. AllowanceFollows'
  BY DEF AllowanceFollows
<1> QED
  BY <1>10, <1>11, <1>13, <1>14, <1>15 DEF PageInv

(* The next transaction is mined.  What was on its way stays so but for it, and
   the form that waited for it waits no more. *)
LEMMA ReceiptStep ==
  ASSUME HooksInv, queue # <<>>, NEW succeeded \in BOOLEAN, Receipt(succeeded)
  PROVE  /\ HooksInv' /\ OnTheirWay' \subseteq OnTheirWay
         /\ Head(queue).call \in OnTheirWay /\ Head(queue).call \in Calls
         /\ 1 \in DOMAIN queue /\ Head(queue) = queue[1]
         /\ Head(queue).form # None =>
              /\ Head(queue).form \in Forms /\ tx[Head(queue).form].call = Head(queue).call
              /\ Busy(Head(queue).form) /\ tx'[Head(queue).form].at \notin {"sending", "pending"}
         /\ \A g \in Forms : Busy(g)' => Busy(g) /\ tx'[g] = tx[g]
         /\ \A i \in DOMAIN queue' : i + 1 \in DOMAIN queue /\ queue'[i] = queue[i + 1]
<1>1. /\ tx \in [Forms -> Hooks] /\ queue \in Seq(Signed) /\ None \notin Forms
      /\ invalid \subseteq Reads
  BY HookIs, TradingAssumption DEF HooksInv, TxTypeOK
<1>2. PICK e : e = Head(queue)
  OBVIOUS
<1>3. /\ 1 \in DOMAIN queue /\ e = queue[1] /\ e \in Signed
      /\ queue' = Tail(queue) /\ queue' \in Seq(Signed)
      /\ \A i \in DOMAIN queue' : i + 1 \in DOMAIN queue /\ queue'[i] = queue[i + 1]
      /\ \A i \in DOMAIN queue \ {1} : i - 1 \in DOMAIN queue' /\ queue'[i - 1] = queue[i]
      /\ \A i \in DOMAIN queue : i \in Nat
      /\ \A i \in DOMAIN queue' : i \in Nat /\ i + 1 # 1
  BY <1>1, <1>2 DEF Receipt
<1>4. e.form \in Forms \cup {None} /\ e.call \in Calls
  BY <1>3 DEF Signed
<1> DEFINE seen == IF succeeded THEN [at |-> "confirmed", op |-> e.call.op] ELSE Quiet
<1>5. /\ tx' = IF e.form = None THEN tx ELSE [tx EXCEPT ![e.form] = seen]
      /\ invalid' = IF e.form # None /\ succeeded THEN Reads ELSE invalid
  BY <1>2 DEF Receipt
<1>6. seen \in Hooks /\ seen.at \notin {"sending", "pending"}
  <2>1. e.call.op \in Ops
    BY <1>4, CallIs
  <2>2. CASE succeeded
    <3>1. seen = [at |-> "confirmed", op |-> e.call.op] /\ seen.at = "confirmed"
      BY <2>2
    <3> QED
      BY <2>1, <3>1, WorkingIs
  <2>3. CASE ~succeeded
    BY <2>3, WorkingIs
  <2> QED
    BY <2>2, <2>3
<1> HIDE DEF seen
<1>7. /\ tx' \in [Forms -> Hooks] /\ \A g \in Forms : g # e.form => tx'[g] = tx[g]
      /\ e.form # None => tx'[e.form] = seen
  BY <1>1, <1>4, <1>5, <1>6
<1>8. e.form # None => Busy(e.form) /\ tx[e.form].call = e.call
  BY <1>1, <1>3, <1>4, HookIs DEF HooksInv, Busy
<1>9. \A g \in Forms : Busy(g)' => g # e.form /\ Busy(g) /\ tx'[g] = tx[g]
  <2> TAKE g \in Forms
  <2>1. CASE g = e.form
    BY <1>1, <1>6, <1>7, <2>1 DEF Busy
  <2>2. CASE g # e.form
    BY <1>7, <2>2 DEF Busy
  <2> QED
    BY <2>1, <2>2
<1>10. \A i \in DOMAIN queue : e.form # None /\ queue[i].form = e.form => i = 1
  BY <1>3 DEF HooksInv
<1>11. \A g \in Forms : (tx'[g].at = "pending") <=> (\E i \in DOMAIN queue' : queue'[i].form = g)
  <2> TAKE g \in Forms
  <2>1. CASE g = e.form
    <3>1. tx'[g].at # "pending"
      BY <1>1, <1>6, <1>7, <2>1
    <3>2. \A i \in DOMAIN queue' : queue'[i].form # g
      BY <1>1, <1>3, <1>10, <2>1
    <3> QED
      BY <3>1, <3>2
  <2>2. CASE g # e.form
    <3>1. (\E i \in DOMAIN queue' : queue'[i].form = g) <=> (\E i \in DOMAIN queue : queue[i].form = g)
      BY <1>3, <2>2
    <3> QED
      BY <1>7, <2>2, <3>1, HookIs
  <2> QED
    BY <2>1, <2>2
<1>12. TxTypeOK(Calls)'
  BY <1>1, <1>3, <1>5, <1>7, <1>11 DEF TxTypeOK, Hooks, Signed
<1>13. ASSUME NEW i \in DOMAIN queue', queue'[i].form # None
       PROVE  /\ tx'[queue'[i].form].call = queue'[i].call
              /\ \A j \in DOMAIN queue' : queue'[j].form = queue'[i].form => j = i
  <2>1. i + 1 \in DOMAIN queue /\ queue'[i] = queue[i + 1] /\ queue[i + 1].form # None
    BY <1>3, <1>13
  <2>2. queue[i + 1].form \in Forms /\ queue[i + 1].form # e.form
    BY <1>3, <1>10, <2>1, HookIs
  <2>3. /\ tx[queue[i + 1].form].call = queue[i + 1].call
        /\ \A j \in DOMAIN queue : queue[j].form = queue[i + 1].form => j = i + 1
    BY <2>1 DEF HooksInv
  <2>4. \A j \in DOMAIN queue' : queue'[j].form = queue'[i].form => j + 1 = i + 1
    BY <1>3, <2>1, <2>3
  <2>5. \A j \in DOMAIN queue' : j + 1 = i + 1 => j = i
    BY <1>3
  <2> QED
    BY <1>7, <2>1, <2>2, <2>3, <2>4, <2>5
<1>14. HooksInv'
  BY <1>12, <1>13 DEF HooksInv
<1>15. OnTheirWay' \subseteq OnTheirWay
  BY <1>3, <1>9 DEF OnTheirWay
<1>16. e.call \in OnTheirWay
  BY <1>3 DEF OnTheirWay
<1> QED
  BY <1>1, <1>2, <1>3, <1>4, <1>6, <1>7, <1>8, <1>9, <1>14, <1>15, <1>16

LEMMA MineStep ==
  ASSUME MarketInv, PageInv, MineNext
  PROVE  MarketInv' /\ PageInv' /\ Goes
<1>1. queue # <<>> /\ UNCHANGED <<read, careful>>
  BY DEF MineNext
<1>2. PICK k : k = Head(queue).call
  OBVIOUS
<1>3. PICK f : f = Head(queue).form
  OBVIOUS
<1>4. \/ Execute(k) /\ Receipt(TRUE)
      \/ UNCHANGED <<chainVars, allowances>> /\ Receipt(FALSE)
  BY <1>2 DEF MineNext
<1>5. HooksInv /\ ReadInv /\ OrdersInv /\ SellInv /\ careful \in BOOLEAN /\ AllowanceFollows
  BY DEF PageInv
<1>6. PICK succeeded \in BOOLEAN : Receipt(succeeded) /\
        IF succeeded THEN Execute(k) ELSE UNCHANGED <<chainVars, allowances>>
  BY <1>4
<1>7. /\ HooksInv' /\ OnTheirWay' \subseteq OnTheirWay /\ k \in Calls
      /\ 1 \in DOMAIN queue /\ queue[1].form = f
      /\ f # None => /\ f \in Forms /\ tx[f].call = k /\ Busy(f)
                     /\ tx'[f].at \notin {"sending", "pending"}
      /\ \A g \in Forms : Busy(g)' => Busy(g) /\ tx'[g] = tx[g]
      /\ \A i \in DOMAIN queue' : i + 1 \in DOMAIN queue /\ queue'[i] = queue[i + 1]
  BY <1>1, <1>2, <1>3, <1>5, <1>6, ReceiptStep
<1>8. /\ usdc \in [Accounts \cup Settlements -> Nat]
      /\ usdcAllowance \in Nat /\ bondAllowance \in Nat /\ asks \in Books
  BY DEF MarketInv, MarketTypeOK, Books
<1>9. /\ MarketInv' /\ Goes
      /\ bondAllowance' = IF succeeded /\ k.op = "approveUnits" THEN k.amount ELSE bondAllowance
      /\ OpenUnits(asks') <= OpenUnits(asks) + (IF k.op = "makeAsk" THEN k.units ELSE 0)
      /\ ~succeeded \/ k.op # "makeAsk" => OpenUnits(asks') <= OpenUnits(asks)
  <2>1. OpenUnits(asks) \in Nat /\ (k.op = "makeAsk" => k.units \in Nat)
    BY <1>7, <1>8, OfferIs, CallIs
  <2>2. CASE succeeded
    <3>1. Execute(k)
      BY <1>6, <2>2
    <3>2. MarketInv' /\ Goes
      BY <1>7, <3>1, ExecuteStep
    <3>3. /\ bondAllowance' = IF k.op = "approveUnits" THEN k.amount ELSE bondAllowance
          /\ OpenUnits(asks') <= OpenUnits(asks) + (IF k.op = "makeAsk" THEN k.units ELSE 0)
      BY <1>7, <3>1, ExecuteStep
    <3>4. OpenUnits(asks') \in Nat
      BY <3>2, OfferIs DEF MarketInv, MarketTypeOK, Books
    <3> QED
      BY <2>1, <2>2, <3>2, <3>3, <3>4
  <2>3. CASE ~succeeded
    <3>1. UNCHANGED <<chainVars, allowances>>
      BY <1>6, <2>3
    <3>2. /\ UNCHANGED <<tokenVars, oracleVars, marketVars, now>> /\ usdc' = usdc
          /\ usdcAllowance' = usdcAllowance /\ bondAllowance' = bondAllowance
      BY <3>1 DEF chainVars, allowances
    <3>3. MarketInv' /\ Goes /\ asks' = asks
      BY <1>8, <3>2, RestStep
    <3> QED
      BY <2>1, <2>3, <3>2, <3>3
  <2> QED
    BY <2>2, <2>3
<1>10. ReadInv' /\ OrdersInv'
  BY <1>1, <1>5, <1>7, <1>9, ReadStays, OrdersStay
<1>11. SellInv'
  <2>1. \A g \in Forms : Busy(g)' /\ tx'[g].call.op \in {"approveUnits", "makeAsk"} => g = "sell"
    BY <1>5, <1>7 DEF SellInv
  <2>2. OpenUnits(asks)' = OpenUnits(asks')
    BY DEF OpenUnits
  <2>3. \A op : Selling(op)' => Selling(op) /\ tx'["sell"].call = tx["sell"].call
    BY <1>7, TradingAssumption DEF Selling
  <2>4. ASSUME careful
        PROVE  /\ \A i \in DOMAIN queue' : queue'[i].form # None
               /\ OpenUnits(asks') <= bondAllowance'
               /\ Selling("approveUnits")' => OpenUnits(asks') <= tx'["sell"].call.amount
               /\ Selling("makeAsk")' => OpenUnits(asks') + tx'["sell"].call.units <= bondAllowance'
    <3>1. \A i \in DOMAIN queue : queue[i].form # None
      BY <1>5, <2>4 DEF SellInv
    <3>2. f \in Forms /\ tx[f].call = k /\ Busy(f) /\ tx'[f].at \notin {"sending", "pending"}
      BY <1>7, <3>1
    <3>3. /\ OpenUnits(asks) <= bondAllowance
          /\ Selling("approveUnits") => OpenUnits(asks) <= tx["sell"].call.amount
          /\ Selling("makeAsk") => OpenUnits(asks) + tx["sell"].call.units <= bondAllowance
      BY <1>5, <2>4 DEF SellInv, AsksCovered
    <3>4. /\ bondAllowance \in Nat /\ bondAllowance' \in Nat
          /\ OpenUnits(asks) \in Nat /\ OpenUnits(asks') \in Nat
      BY <1>9, OfferIs DEF MarketInv, MarketTypeOK, Books
    <3>5. \A i \in DOMAIN queue' : queue'[i].form # None
      BY <1>7, <3>1
    <3>6. CASE k.op \in {"approveUnits", "makeAsk"}
      <4>1. f = "sell"
        BY <1>5, <3>2, <3>6 DEF SellInv
      <4>2. \A op : ~Selling(op)'
        BY <3>2, <4>1 DEF Selling, Busy
      <4>3. k.op = "approveUnits" => k.amount \in Nat /\ OpenUnits(asks) <= k.amount
        BY <1>7, <3>2, <3>3, <4>1, CallIs DEF Selling
      <4>4. k.op = "makeAsk" => k.units \in Nat /\ OpenUnits(asks) + k.units <= bondAllowance
        BY <1>7, <3>2, <3>3, <4>1, CallIs DEF Selling
      <4>5. OpenUnits(asks') <= bondAllowance'
        BY <1>9, <3>3, <3>4, <3>6, <4>3, <4>4
      <4> QED
        BY <3>5, <4>2, <4>5
    <3>7. CASE k.op \notin {"approveUnits", "makeAsk"}
      <4>1. bondAllowance' = bondAllowance /\ OpenUnits(asks') <= OpenUnits(asks)
        BY <1>9, <3>7
      <4>2. Selling("approveUnits") => tx["sell"].call.amount \in Nat
        BY <1>5, HookIs, CallIs, TradingAssumption DEF Selling
      <4>3. Selling("makeAsk") => tx["sell"].call.units \in Nat
        BY <1>5, HookIs, CallIs, TradingAssumption DEF Selling
      <4>4. OpenUnits(asks') <= bondAllowance'
        BY <3>3, <3>4, <4>1
      <4>5. Selling("approveUnits")' => OpenUnits(asks') <= tx'["sell"].call.amount
        BY <2>3, <3>3, <3>4, <4>1, <4>2
      <4>6. Selling("makeAsk")' => OpenUnits(asks') + tx'["sell"].call.units <= bondAllowance'
        BY <2>3, <3>3, <3>4, <4>1, <4>3
      <4> QED
        BY <3>5, <4>4, <4>5, <4>6
    <3> QED
      BY <3>6, <3>7
  <2> QED
    BY <1>1, <2>1, <2>2, <2>4 DEF SellInv, AsksCovered
<1>12. AllowanceFollows'
  <2> SUFFICES ASSUME careful, Known("usdcAllowance"), "usdcAllowance" \notin invalid'
               PROVE  read["usdcAllowance"] = usdcAllowance'
    BY <1>1 DEF AllowanceFollows, Known
  <2>1. f # None
    BY <1>5, <1>7 DEF SellInv
  <2>2. invalid' = IF succeeded THEN Reads ELSE invalid
    BY <1>3, <1>6, <2>1 DEF Receipt
  <2>3. ~succeeded /\ "usdcAllowance" \notin invalid
    BY <2>2, TradingAssumption
  <2>4. usdcAllowance' = usdcAllowance
    BY <1>6, <2>3 DEF allowances
  <2> QED
    BY <1>5, <2>3, <2>4 DEF AllowanceFollows
<1> QED
  BY <1>1, <1>5, <1>7, <1>9, <1>10, <1>11, <1>12 DEF PageInv

-----------------------------------------------------------------------------
(* The arithmetic of the agent's order: a unit price rounded up twice divides
   the balance rounded down, and the cost of the units is rounded up twice. *)
LEMMA Grows ==
  ASSUME NEW a \in Nat, NEW b \in Nat, a <= b, NEW m \in Nat
  PROVE  a * m <= b * m /\ a * m \in Nat /\ b * m \in Nat
<1>1. a * m \in Nat /\ b * m \in Nat
  OBVIOUS
<1>2. b - a \in Nat /\ (b - a) * m \in Nat
  OBVIOUS
<1>3. (b - a) * m = b * m - a * m
  OBVIOUS
<1> QED
  BY <1>1, <1>2, <1>3

LEMMA Divides ==
  ASSUME NEW a \in Nat, NEW b \in Nat, NEW m \in Nat, a * m < b * m
  PROVE  a < b
<1>1. ~(b <= a)
  <2> SUFFICES ASSUME b <= a PROVE FALSE
    OBVIOUS
  <2>1. b * m <= a * m /\ a * m \in Nat /\ b * m \in Nat
    BY Grows
  <2> QED
    BY <2>1
<1> QED
  BY <1>1

LEMMA DustIsTwo ==
  ASSUME NEW S \in Nat \ {0}, NEW B \in Nat \ {0}, NEW p \in Nat, NEW fee \in Nat, fee <= B,
         NEW u \in Nat, NEW balance \in Nat,
         NEW P \in Nat, NEW F \in Nat, NEW c \in Nat, NEW f \in Nat,
         S * p <= P * B, P * fee <= F * B,
         u * (P + F) <= balance * S,
         c * B < u * p + B, f * B < c * fee + B
  PROVE  c + f <= balance + 2
<1>1. c * S < u * P + S
  <2> DEFINE x == u * p + B
  <2>1. x \in Nat /\ c * B \in Nat /\ c * B + 1 <= x
    OBVIOUS
  <2>2. (c * B + 1) * S <= x * S
    BY <2>1, Grows
  <2>3. (S * p) * u <= (P * B) * u
    BY Grows
  <2>4. x * S = (S * p) * u + B * S
    OBVIOUS
  <2>5. (c * B + 1) * S = (c * S) * B + S
    OBVIOUS
  <2>6. (P * B) * u + B * S = (u * P + S) * B
    OBVIOUS
  <2>7. (c * S) * B \in Nat /\ (u * P + S) * B \in Nat /\ x * S \in Nat
    OBVIOUS
  <2> HIDE DEF x
  <2>8. (c * S) * B < (u * P + S) * B
    BY <2>2, <2>3, <2>4, <2>5, <2>6, <2>7
  <2>9. c * S \in Nat /\ u * P + S \in Nat
    OBVIOUS
  <2> QED
    BY <2>8, <2>9, Divides
<1>2. f * S < u * F + 2 * S
  <2>1. c * S \in Nat /\ u * P \in Nat /\ u * P + S \in Nat /\ u * F + 2 * S \in Nat /\ f * S \in Nat
    OBVIOUS
  <2>2. (c * S) * fee <= (u * P + S) * fee
    BY <1>1, <2>1, Grows
  <2>3. (u * P + S) * fee = (P * fee) * u + fee * S
    OBVIOUS
  <2>4. (P * fee) * u <= (F * B) * u
    BY Grows
  <2>5. fee * S <= B * S
    BY Grows
  <2>6. (f * B + 1) * S <= (c * fee + B) * S
    BY Grows
  <2>7. (c * fee + B) * S = (c * S) * fee + B * S /\ (f * B + 1) * S = (f * S) * B + S
    OBVIOUS
  <2>8. (F * B) * u + B * S + B * S = (u * F + 2 * S) * B
    OBVIOUS
  <2>9. (f * S) * B < (u * F + 2 * S) * B
    <3>1. /\ (c * S) * fee \in Nat /\ (u * P + S) * fee \in Nat /\ (P * fee) * u \in Nat /\ fee * S \in Nat
          /\ (F * B) * u \in Nat /\ B * S \in Nat /\ (f * S) * B \in Nat
      OBVIOUS
    <3> QED
      BY <2>2, <2>3, <2>4, <2>5, <2>6, <2>7, <2>8, <3>1
  <2> QED
    BY <2>1, <2>9, Divides
<1>3. u * (P + F) = u * P + u * F
  OBVIOUS
<1>4. (c + f) * S < (balance + 3) * S
  <2>1. (c + f) * S = c * S + f * S /\ (balance + 3) * S = balance * S + 3 * S
    OBVIOUS
  <2>2. /\ c * S \in Nat /\ f * S \in Nat /\ u * P \in Nat /\ u * F \in Nat /\ balance * S \in Nat
        /\ c * S < u * P + S /\ f * S < u * F + 2 * S
    BY <1>1, <1>2
  <2> QED
    BY <1>1, <1>2, <1>3, <2>1, <2>2
<1>5. c + f < balance + 3
  BY <1>4, Divides
<1> QED
  BY <1>5

LEMMA LeastOfThree ==
  ASSUME NEW a \in Nat, NEW b \in Nat, NEW c \in Nat,
         NEW least, least = CHOOSE x \in {a, b, c} : \A y \in {a, b, c} : x <= y
  PROVE  least \in Nat /\ least <= a /\ least <= b /\ least <= c
<1>1. \E x \in {a, b, c} : \A y \in {a, b, c} : x <= y
  <2>1. CASE a <= b /\ a <= c
    BY <2>1
  <2>2. CASE b <= a /\ b <= c
    BY <2>2
  <2>3. CASE c <= a /\ c <= b
    BY <2>3
  <2> QED
    BY <2>1, <2>2, <2>3
<1>2. least \in {a, b, c} /\ \A y \in {a, b, c} : least <= y
  BY <1>1
<1> QED
  BY <1>2

(* What the agent orders is a number of units whose total is its balance at most,
   or two base units more. *)
LEMMA PlanIs ==
  ASSUME MarketInv, NEW requested \in Requests, NEW units, units = PlanBuy(requested)
  PROVE  /\ units \in Nat
         /\ units # 0 => WithFee(units, feeBps) \in Nat /\ WithFee(units, feeBps) <= usdc[Me] + 2
<1> DEFINE S == SCALE
           B == Bps
           p == Bps - listings[Bond].discountRateBps
           P == PrimaryCost(S)
           F == MulDivCeil(P, feeBps, B)
           balance == usdc[Me]
<1>1. /\ S \in Nat \ {0} /\ B \in Nat \ {0} /\ p \in Nat /\ requested \in Nat
      /\ feeBps \in Nat /\ feeBps <= B /\ balance \in Nat
      /\ totalSupply[Bond] \in Nat /\ totalSupply[Bond] <= Face /\ Face \in Nat
  BY AgentAssumption, Given, BondIs DEF MarketInv, MarketTypeOK, TokenTypeOK
<1>2. P \in Nat /\ S * p <= P * B
  BY <1>1, CeilBounds DEF PrimaryCost, Cost
<1>3. F \in Nat /\ P * feeBps <= F * B
  BY <1>1, <1>2, CeilBounds
<1>4. WithFee(SCALE, feeBps) = P + F
  BY DEF WithFee
<1>5. CASE P + F = 0
  BY <1>4, <1>5 DEF PlanBuy
<1>6. CASE P + F # 0
  <2> DEFINE most == Affordable(balance)
             limits == {requested, Face - totalSupply[Bond], most}
  <2>1. P + F \in Nat \ {0}
    BY <1>2, <1>3, <1>6
  <2>2. most \in Nat /\ most * (P + F) <= balance * S
    BY <1>1, <1>4, <2>1, FloorBounds DEF Affordable
  <2>3. Face - totalSupply[Bond] \in Nat
    BY <1>1
  <2>4. units = CHOOSE least \in limits : \A limit \in limits : least <= limit
    BY <1>4, <1>6 DEF PlanBuy
  <2> HIDE DEF most
  <2>5. units \in Nat /\ units <= most
    <3> DEFINE left == Face - totalSupply[Bond]
    <3>1. requested \in Nat /\ left \in Nat /\ most \in Nat
      BY <1>1, <2>2, <2>3
    <3>2. units = CHOOSE least \in {requested, left, most} : \A limit \in {requested, left, most} : least <= limit
      BY <2>4
    <3> HIDE DEF left
    <3> QED
      BY <3>1, <3>2, LeastOfThree
  <2> HIDE DEF P, F, balance
  <2>6. units * (P + F) <= balance * S
    <3>1. units * (P + F) <= most * (P + F) /\ units * (P + F) \in Nat /\ most * (P + F) \in Nat
      BY <2>1, <2>2, <2>5, Grows
    <3>2. balance * S \in Nat
      BY <1>1
    <3> QED
      BY <2>2, <3>1, <3>2
  <2> DEFINE c == PrimaryCost(units)
             f == MulDivCeil(c, feeBps, B)
  <2>7. c \in Nat /\ c * B < units * p + B
    BY <1>1, <2>5, CeilBounds DEF PrimaryCost, Cost
  <2>8. f \in Nat /\ f * B < c * feeBps + B
    BY <1>1, <2>7, CeilBounds
  <2>9. WithFee(units, feeBps) = c + f
    BY DEF WithFee
  <2> HIDE DEF c, f, p
  <2>10. c + f <= balance + 2
    BY <1>1, <1>2, <1>3, <2>5, <2>6, <2>7, <2>8, DustIsTwo
  <2> QED
    BY <2>5, <2>7, <2>8, <2>9, <2>10 DEF balance
<1> QED
  BY <1>2, <1>3, <1>5, <1>6

-----------------------------------------------------------------------------
(* The run of the agent. *)
LEMMA RunIs ==
  ASSUME RunInv
  PROVE  /\ agent.at \in Orderless \cup Ordering /\ agent.mode \in Modes /\ agent.cash \in Nat
         /\ agent.at \in Orderless => agent \in [at: Orderless, mode: Modes, cash: Nat]
         /\ agent.at \in Ordering =>
              /\ agent \in [at: Ordering, mode: Modes, cash: Nat, order: AgentOrders]
              /\ agent.order \in AgentOrders /\ agent.order.units \in Nat /\ agent.order.total \in Nat
<1>1. agent \in Runs
  BY DEF RunInv
<1>2. \A run \in [at: Orderless, mode: Modes, cash: Nat] :
        run.at \in Orderless /\ run.mode \in Modes /\ run.cash \in Nat
  OBVIOUS
<1>3. \A run \in [at: Ordering, mode: Modes, cash: Nat, order: AgentOrders] :
        run.at \in Ordering /\ run.mode \in Modes /\ run.cash \in Nat /\ run.order \in AgentOrders
  OBVIOUS
<1>4. \A order \in AgentOrders : order.units \in Nat /\ order.total \in Nat
  BY DEF AgentOrders
<1>5. Orderless \cap Ordering = {}
  BY DEF Orderless, Ordering
<1> QED
  BY <1>1, <1>2, <1>3, <1>4, <1>5 DEF Runs

LEMMA RunMoves ==
  ASSUME RunInv, agent.at \in Orderless, NEW at \in Orderless, AgentTo(at)
  PROVE  agent' \in Runs /\ agent'.at = at /\ agent'.mode = agent.mode /\ agent'.cash = agent.cash
<1>1. agent' = [agent EXCEPT !.at = at]
  BY DEF AgentTo
<1>2. \A run \in [at: Orderless, mode: Modes, cash: Nat], to \in Orderless :
        LET r == [run EXCEPT !.at = to]
        IN  /\ r \in [at: Orderless, mode: Modes, cash: Nat]
            /\ r.at = to /\ r.mode = run.mode /\ r.cash = run.cash
  OBVIOUS
<1>3. agent \in [at: Orderless, mode: Modes, cash: Nat]
  BY RunIs
<1> QED
  BY <1>1, <1>2, <1>3 DEF Runs

LEMMA OrderMoves ==
  ASSUME RunInv, agent.at \in Ordering, NEW at \in Ordering, AgentTo(at)
  PROVE  /\ agent' \in Runs /\ agent'.at = at /\ agent'.mode = agent.mode /\ agent'.cash = agent.cash
         /\ agent'.order = agent.order
<1>1. agent' = [agent EXCEPT !.at = at]
  BY DEF AgentTo
<1>2. \A run \in [at: Ordering, mode: Modes, cash: Nat, order: AgentOrders], to \in Ordering :
        LET r == [run EXCEPT !.at = to]
        IN  /\ r \in [at: Ordering, mode: Modes, cash: Nat, order: AgentOrders]
            /\ r.at = to /\ r.mode = run.mode /\ r.cash = run.cash /\ r.order = run.order
  OBVIOUS
<1>3. agent \in [at: Ordering, mode: Modes, cash: Nat, order: AgentOrders]
  BY RunIs
<1> QED
  BY <1>1, <1>2, <1>3 DEF Runs

(* A step of the run leaves the asks and the approval of units alone; what it
   takes and approves is accounted for. *)
LEMMA AgentStep ==
  ASSUME MarketInv, RunInv, desk = "agent", AgentNext
  PROVE  /\ MarketInv' /\ Goes /\ asks' = asks /\ bondAllowance' = bondAllowance
         /\ agent' \in Runs /\ OverdraftIsDust' /\ SpendInv'
<1>1. /\ usdc \in [Accounts \cup Settlements -> Nat] /\ Me \in Accounts /\ usdc[Me] \in Nat
      /\ usdcAllowance \in Nat /\ bondAllowance \in Nat /\ Price \in Nat
  BY Given, AgentAssumption DEF MarketInv, MarketTypeOK
<1>2. SpendInv /\ OverdraftIsDust /\ agent \in Runs
  BY DEF RunInv
<1>3. /\ agent.at \in Orderless \cup Ordering /\ agent.mode \in Modes /\ agent.cash \in Nat
      /\ agent.at \in Ordering => agent.order.units \in Nat /\ agent.order.total \in Nat
  BY RunIs
<1>4. ASSUME AgentStays
      PROVE  /\ MarketInv' /\ Goes /\ asks' = asks /\ usdc' = usdc
             /\ usdcAllowance' = usdcAllowance /\ bondAllowance' = bondAllowance
  <2>1. /\ UNCHANGED <<tokenVars, oracleVars, marketVars, now>> /\ usdc' = usdc
        /\ usdcAllowance' = usdcAllowance /\ bondAllowance' = bondAllowance
    BY <1>4 DEF AgentStays, chainVars, allowances
  <2> QED
    BY <1>1, <2>1, RestStep
<1>5. CASE Discover
  <2>1. agent.at = "probing" /\ AgentStays
    BY <1>5 DEF Discover
  <2>2. PICK at \in {"done", "paying", "stopped"} :
          AgentTo(at) /\ (at = "paying" => agent.mode # "dry")
    BY <1>5 DEF Discover
  <2>3. agent' \in Runs /\ agent'.at = at /\ agent'.mode = agent.mode /\ agent'.cash = agent.cash
    <3>1. agent.at \in Orderless /\ at \in Orderless
      BY <2>1, <2>2 DEF Orderless
    <3> QED
      BY <2>2, <3>1, RunMoves
  <2>4. SpendInv'
    BY <1>2, <1>4, <2>1, <2>2, <2>3 DEF SpendInv, Ordering
  <2> QED
    BY <1>4, <2>1, <2>2, <2>3, <2>4 DEF OverdraftIsDust
<1>6. CASE PayForData
  <2>1. /\ agent.at = "paying"
        /\ UNCHANGED <<tokenVars, oracleVars, marketVars, now>>
        /\ usdcAllowance' = usdcAllowance /\ bondAllowance' = bondAllowance
    BY <1>6 DEF PayForData, allowances
  <2>2. PICK at \in {"deciding", "stopped"} : AgentTo(at)
    BY <1>6 DEF PayForData
  <2>3. \/ usdc' = usdc
        \/ usdc[Me] >= Price /\ usdc' = [usdc EXCEPT ![Me] = usdc[Me] - Price]
    BY <1>6 DEF PayForData
  <2>4. /\ usdc' \in [Accounts \cup Settlements -> Nat] /\ usdc'[Me] \in Nat
        /\ usdc[Me] - usdc'[Me] <= Price
    <3>1. CASE usdc' = usdc
      BY <1>1, <3>1
    <3>2. CASE usdc[Me] >= Price /\ usdc' = [usdc EXCEPT ![Me] = usdc[Me] - Price]
      <4>1. usdc[Me] - Price \in Nat
        BY <1>1, <3>2
      <4>2. usdc' \in [Accounts \cup Settlements -> Nat] /\ usdc'[Me] = usdc[Me] - Price
        BY <1>1, <3>2, <4>1
      <4> QED
        BY <1>1, <4>1, <4>2
    <3> QED
      BY <2>3, <3>1, <3>2
  <2>5. MarketInv' /\ Goes /\ asks' = asks
    BY <1>1, <2>1, <2>4, RestStep
  <2>6. agent' \in Runs /\ agent'.at = at /\ agent'.mode = agent.mode /\ agent'.cash = agent.cash
    <3>1. agent.at \in Orderless /\ at \in Orderless
      BY <2>1, <2>2 DEF Orderless
    <3> QED
      BY <2>2, <3>1, RunMoves
  <2>7. agent.mode # "dry" /\ agent.cash <= usdc[Me] /\ usdcAllowance = 0
    BY <1>2, <2>1 DEF SpendInv
  <2>8. agent.cash - usdc'[Me] <= Price
    BY <1>1, <1>3, <2>4, <2>7
  <2>9. SpendInv'
    BY <2>1, <2>2, <2>6, <2>7, <2>8 DEF SpendInv, Ordering
  <2> QED
    BY <2>1, <2>2, <2>5, <2>6, <2>9 DEF OverdraftIsDust
<1>7. CASE Decide
  <2>1. agent.at = "deciding" /\ AgentStays
    BY <1>7 DEF Decide
  <2>2. PICK at \in {"done", "reading", "stopped"} :
          AgentTo(at) /\ (at = "reading" => agent.mode = "act")
    BY <1>7 DEF Decide
  <2>3. agent' \in Runs /\ agent'.at = at /\ agent'.mode = agent.mode /\ agent'.cash = agent.cash
    <3>1. agent.at \in Orderless /\ at \in Orderless
      BY <2>1, <2>2 DEF Orderless
    <3> QED
      BY <2>2, <3>1, RunMoves
  <2>4. SpendInv'
    BY <1>2, <1>4, <2>1, <2>2, <2>3 DEF SpendInv, Ordering
  <2> QED
    BY <1>4, <2>1, <2>2, <2>3, <2>4 DEF OverdraftIsDust
<1>8. ASSUME NEW requested \in Requests, Plan(requested)
      PROVE  /\ MarketInv' /\ Goes /\ asks' = asks /\ bondAllowance' = bondAllowance
             /\ agent' \in Runs /\ OverdraftIsDust' /\ SpendInv'
  <2>1. PICK units : units = PlanBuy(requested)
    OBVIOUS
  <2>2. PICK total : total = WithFee(units, feeBps)
    OBVIOUS
  <2>3. agent.at = "reading" /\ AgentStays
    BY <1>8 DEF Plan
  <2> DEFINE order == [units |-> units, total |-> total, balance |-> usdc[Me]]
             run == [at |-> "approving", mode |-> agent.mode, cash |-> agent.cash, order |-> order]
  <2>4. \/ AgentTo("stopped")
        \/ units # 0 /\ agent' = run
    BY <1>8, <2>1, <2>2 DEF Plan, AgentTo
  <2>5. CASE AgentTo("stopped")
    <3>1. /\ agent' \in Runs /\ agent'.at = "stopped"
          /\ agent'.mode = agent.mode /\ agent'.cash = agent.cash
      <4>1. agent.at \in Orderless /\ "stopped" \in Orderless
        BY <2>3 DEF Orderless
      <4> QED
        BY <2>5, <4>1, RunMoves
    <3>2. SpendInv'
      BY <1>2, <1>4, <2>3, <3>1 DEF SpendInv, Ordering
    <3> QED
      BY <1>4, <2>3, <3>1, <3>2 DEF OverdraftIsDust
  <2>6. CASE units # 0 /\ agent' = run
    <3>1. units \in Nat /\ total \in Nat /\ total <= usdc[Me] + 2
      BY <2>1, <2>2, <2>6, PlanIs
    <3>2. order \in AgentOrders
      BY <1>1, <2>6, <3>1 DEF AgentOrders
    <3>3. run \in Runs
      BY <1>3, <3>2 DEF Runs, Ordering
    <3>4. /\ agent'.at = "approving" /\ agent'.mode = agent.mode /\ agent'.cash = agent.cash
          /\ agent'.order.total = total /\ agent'.order.balance = usdc[Me]
      BY <2>6
    <3>5. SpendInv'
      BY <1>2, <1>4, <2>3, <3>4 DEF SpendInv, Ordering
    <3>6. OverdraftIsDust'
      BY <3>1, <3>4 DEF OverdraftIsDust
    <3> QED
      BY <1>4, <2>3, <2>6, <3>3, <3>5, <3>6
  <2> QED
    BY <2>4, <2>5, <2>6
<1>9. CASE Approve
  <2>1. PICK total : total = agent.order.total
    OBVIOUS
  <2>2. /\ agent.at = "approving" /\ AgentTo("buying") /\ usdcAllowance' = total
        /\ bondAllowance' = bondAllowance /\ UNCHANGED chainVars
    BY <1>9, <2>1 DEF Approve, ApproveUsdc, AgentTo
  <2>3. total \in Nat
    BY <1>3, <2>1, <2>2 DEF Ordering
  <2>4. UNCHANGED <<tokenVars, oracleVars, marketVars, now>> /\ usdc' = usdc
    BY <2>2 DEF chainVars
  <2>5. MarketInv' /\ Goes /\ asks' = asks
    BY <1>1, <2>2, <2>3, <2>4, RestStep
  <2>6. /\ agent' \in Runs /\ agent'.at = "buying" /\ agent'.mode = agent.mode
        /\ agent'.cash = agent.cash /\ agent'.order = agent.order
    BY <2>2, OrderMoves DEF Ordering
  <2>7. SpendInv'
    BY <1>2, <2>1, <2>2, <2>3, <2>4, <2>6 DEF SpendInv, Ordering
  <2> QED
    BY <2>2, <2>5, <2>6, <2>7 DEF OverdraftIsDust
<1>10. CASE Buy
  <2>1. PICK call : call = [op |-> "buyPrimary", units |-> agent.order.units]
    OBVIOUS
  <2>2. agent.at = "buying"
    BY <1>10 DEF Buy
  <2>3. \/ Execute(call) /\ AgentTo("funded")
        \/ AgentTo("reverted") /\ AgentStays
    BY <1>10, <2>1 DEF Buy, AgentTo
  <2>4. agent.order.total \in Nat /\ call.units \in Nat /\ call.op = "buyPrimary"
    BY <1>3, <2>1, <2>2 DEF Ordering
  <2>5. /\ agent.mode = "act" /\ agent.cash - usdc[Me] <= Price
        /\ usdcAllowance <= agent.order.total
    BY <1>2, <2>2 DEF SpendInv, Ordering
  <2>6. CASE Execute(call) /\ AgentTo("funded")
    <3>1. Buys(call)
      BY <2>4, <2>6 DEF Execute, ApproveUsdc, ApproveUnits, Fills, Asks, Cancels
    <3>2. PICK due : due = Due(PrimaryCost(call.units))
      OBVIOUS
    <3>3. /\ MarketInv' /\ Goes /\ asks' = asks /\ bondAllowance' = bondAllowance
          /\ due \in Nat /\ usdc'[Me] = usdc[Me] - due /\ due <= usdcAllowance
          /\ usdcAllowance' = usdcAllowance - due
      BY <2>4, <3>1, <3>2, BuysStep
    <3>4. /\ agent' \in Runs /\ agent'.at = "funded" /\ agent'.mode = agent.mode
          /\ agent'.cash = agent.cash /\ agent'.order = agent.order
      BY <2>2, <2>6, OrderMoves DEF Ordering
    <3>5. /\ agent.cash - usdc'[Me] <= Price + agent.order.total
          /\ usdcAllowance' <= agent.order.total
      BY <1>1, <1>3, <2>4, <2>5, <3>3
    <3>6. SpendInv'
      BY <2>5, <3>4, <3>5 DEF SpendInv, Ordering, Modes
    <3> QED
      BY <3>3, <3>4, <3>6 DEF OverdraftIsDust
  <2>7. CASE AgentTo("reverted") /\ AgentStays
    <3>1. /\ agent' \in Runs /\ agent'.at = "reverted" /\ agent'.mode = agent.mode
          /\ agent'.cash = agent.cash /\ agent'.order = agent.order
      BY <2>2, <2>7, OrderMoves DEF Ordering
    <3>2. SpendInv'
      BY <1>4, <2>5, <2>7, <3>1 DEF SpendInv, Ordering
    <3> QED
      BY <1>4, <2>7, <3>1, <3>2 DEF OverdraftIsDust
  <2> QED
    BY <2>3, <2>6, <2>7
<1> QED
  BY <1>5, <1>6, <1>7, <1>8, <1>9, <1>10 DEF AgentNext

-----------------------------------------------------------------------------
(* Every step. *)
LEMMA TradingStep ==
  ASSUME MarketInv, PageInv, TradingNext
  PROVE  MarketInv' /\ PageInv'
<1>1. /\ usdc \in [Accounts \cup Settlements -> Nat]
      /\ usdcAllowance \in Nat /\ bondAllowance \in Nat
  BY DEF MarketInv, MarketTypeOK
<1>2. ASSUME UNCHANGED chainVars, UNCHANGED allowances PROVE MarketInv'
  <2>1. /\ UNCHANGED <<tokenVars, oracleVars, marketVars, now>> /\ usdc' = usdc
        /\ usdcAllowance' = usdcAllowance /\ bondAllowance' = bondAllowance
    BY <1>2 DEF chainVars, allowances
  <2> QED
    BY <1>1, <2>1, RestStep
<1>3. ASSUME NEW q \in Reads, Refetch(q) PROVE MarketInv' /\ PageInv'
  <2>1. UNCHANGED chainVars /\ UNCHANGED allowances
    BY <1>3 DEF Refetch
  <2> QED
    BY <1>2, <1>3, <2>1, RefetchStep
<1>4. CASE Press
  <2>1. UNCHANGED <<read, chainVars, allowances>>
    BY <1>4 DEF Press
  <2>2. UNCHANGED chainVars /\ UNCHANGED allowances
    BY <2>1
  <2>3. ASSUME NEW units \in Amounts, NEW priced \in BOOLEAN, Fund(units, priced) PROVE PageInv'
    BY <2>1, <2>3, FundStep
  <2>4. ASSUME NEW id \in AskIds, NEW units \in Amounts, Fill(id, units) PROVE PageInv'
    BY <2>1, <2>4, FillOrderStep
  <2>5. ASSUME NEW units \in Amounts, NEW p \in Prices, Sell(units, p) PROVE PageInv'
    BY <2>1, <2>5, SellStep
  <2>6. ASSUME NEW id \in AskIds, Cancel(id) PROVE PageInv'
    BY <2>1, <2>6, CancelOrderStep
  <2> QED
    BY <1>2, <1>4, <2>2, <2>3, <2>4, <2>5, <2>6 DEF Press
<1>5. ASSUME NEW f \in Forms, HookStep(f) PROVE MarketInv' /\ PageInv'
  <2>1. UNCHANGED <<read, chainVars, allowances>>
    BY <1>5 DEF HookStep
  <2>2. UNCHANGED chainVars /\ UNCHANGED allowances
    BY <2>1
  <2>3. \/ Sign(f, TRUE) /\ careful' = careful
        \/ Fail(f) /\ careful' = careful
        \/ Leave(f) /\ careful' = FALSE
    BY <1>5 DEF HookStep, Sign
  <2>4. PageInv'
    BY <2>1, <2>3, SignStep, FailStep, LeaveStep
  <2> QED
    BY <1>2, <2>2, <2>4
<1>6. CASE MineNext
  BY <1>6, MineStep
<1> QED
  BY <1>3, <1>4, <1>5, <1>6 DEF TradingNext

(* Another desk's steps leave the agent where it is. *)
LEMMA RunRests ==
  ASSUME MarketInv, MarketInv', RunInv, agent' = agent, desk' = desk,
         desk = "agent" => read' = read /\ usdc'[Me] >= usdc[Me] /\ usdcAllowance' = usdcAllowance
  PROVE  RunInv'
<1>1. agent \in Runs /\ OverdraftIsDust /\ (desk # "agent" => agent.at = "probing")
  BY DEF RunInv
<1>2. ASSUME desk = "agent" PROVE ~Known("usdcAllowance") /\ SpendInv'
  <2>1. /\ usdc[Me] \in Nat /\ usdc'[Me] \in Nat /\ usdc'[Me] >= usdc[Me]
        /\ usdcAllowance' = usdcAllowance
    BY <1>2, Given DEF MarketInv, MarketTypeOK
  <2>2. SpendInv /\ ~Known("usdcAllowance")
    BY <1>2 DEF RunInv
  <2>3. agent.cash \in Nat /\ Price \in Nat /\ (agent.at = "funded" => agent.order.total \in Nat)
    BY RunIs, AgentAssumption DEF Ordering
  <2>4. /\ agent.mode = "dry" \/ agent.at \in {"probing", "paying"} => agent.cash <= usdc'[Me]
        /\ agent.at # "funded" => agent.cash - usdc'[Me] <= Price
        /\ agent.at = "funded" => agent.cash - usdc'[Me] <= Price + agent.order.total
    <3>1. /\ agent.mode = "dry" \/ agent.at \in {"probing", "paying"} => agent.cash <= usdc[Me]
          /\ agent.at # "funded" => agent.cash - usdc[Me] <= Price
          /\ agent.at = "funded" => agent.cash - usdc[Me] <= Price + agent.order.total
      BY <2>2 DEF SpendInv
    <3> QED
      BY <2>1, <2>3, <3>1
  <2> QED
    BY <2>1, <2>2, <2>4 DEF SpendInv
<1>3. OverdraftIsDust'
  BY <1>1 DEF OverdraftIsDust
<1> QED
  BY <1>1, <1>2, <1>3 DEF RunInv, Known

(* The other investor's approval is set to an amount, and used up by fills. *)
LEMMA ExecuteTheirs ==
  ASSUME TheirsInv, NEW call, call.op = "fillAsk" => call.units \in Nat, Execute(call)
  PROVE  TheirsInv'
<1>1. CASE Fills(call)
  <2>1. PICK left : left = theirAllowance - call.units
    OBVIOUS
  <2>2. theirAllowance' = left /\ left \in Nat
    BY <1>1, <2>1 DEF Fills, TheirsInv
  <2> QED
    BY <2>2 DEF TheirsInv
<1>2. CASE ~Fills(call)
  <2>1. theirAllowance' = theirAllowance
    BY <1>2 DEF Execute, ApproveUsdc, ApproveUnits, Buys, Asks, Cancels, allowances
  <2> QED
    BY <2>1 DEF TheirsInv
<1> QED
  BY <1>1, <1>2

LEMMA TheirsStep ==
  ASSUME PageInv, TheirsInv, Next
  PROVE  TheirsInv'
<1>1. ASSUME UNCHANGED allowances PROVE TheirsInv'
  BY <1>1 DEF allowances, TheirsInv
<1>2. CASE Others
  <2>1. CASE ApproveOfTheirs
    BY <2>1, Given DEF ApproveOfTheirs, TheirsInv
  <2>2. CASE \E id \in AskIds, units \in Amounts : FillOfMine(id, units)
    BY <2>2 DEF FillOfMine, TheirsInv
  <2> QED
    BY <1>1, <1>2, <2>1, <2>2 DEF Others, Elsewhere
<1>3. CASE AgentNext
  <2>1. CASE Discover \/ Decide \/ \E requested \in Requests : Plan(requested)
    BY <1>1, <2>1 DEF Discover, Decide, Plan, AgentStays
  <2>2. CASE PayForData
    BY <1>1, <2>2 DEF PayForData
  <2>3. CASE Approve
    BY <2>3 DEF Approve, ApproveUsdc, TheirsInv
  <2>4. CASE Buy
    <3>1. PICK call : call = [op |-> "buyPrimary", units |-> agent.order.units]
      OBVIOUS
    <3>2. Execute(call) \/ AgentStays
      BY <2>4, <3>1 DEF Buy
    <3>3. call.op # "fillAsk"
      BY <3>1
    <3> QED
      BY <1>1, <3>2, <3>3, ExecuteTheirs DEF AgentStays
  <2> QED
    BY <1>3, <2>1, <2>2, <2>3, <2>4 DEF AgentNext
<1>4. CASE TradingNext
  <2>1. CASE MineNext
    <3>1. PICK call : call = Head(queue).call
      OBVIOUS
    <3>2. Execute(call) \/ UNCHANGED allowances
      BY <2>1, <3>1 DEF MineNext
    <3>3. call \in Calls
      <4>1. queue # <<>> /\ HooksInv /\ \E succeeded \in BOOLEAN : Receipt(succeeded)
        BY <2>1 DEF MineNext, PageInv
      <4> QED
        BY <3>1, <4>1, ReceiptStep
    <3> QED
      BY <1>1, <3>2, <3>3, CallIs, ExecuteTheirs
  <2>2. CASE ~MineNext
    BY <1>1, <1>4, <2>2 DEF TradingNext, Refetch, Press, HookStep
  <2> QED
    BY <2>1, <2>2
<1> QED
  BY <1>2, <1>3, <1>4 DEF Next, AtDesk

LEMMA ClientsStep ==
  ASSUME ClientsIInv, Next
  PROVE  ClientsIInv'
<1>1. MarketInv /\ PageInv /\ RunInv
  BY DEF ClientsIInv
<1>5. TheirsInv'
  BY TheirsStep DEF ClientsIInv
<1>2. desk' = desk
  BY DEF Next
<1>3. CASE AtDesk
  <2>1. CASE desk = "agent"
    <3>1. AgentNext /\ UNCHANGED tradingVars
      BY <1>3, <2>1 DEF AtDesk
    <3>2. /\ MarketInv' /\ Goes /\ asks' = asks /\ bondAllowance' = bondAllowance
          /\ agent' \in Runs /\ OverdraftIsDust' /\ SpendInv'
      BY <1>1, <2>1, <3>1, AgentStep
    <3>3. ~Known("usdcAllowance") /\ read' = read
      BY <1>1, <2>1, <3>1 DEF RunInv, tradingVars
    <3>4. OpenUnits(asks') = OpenUnits(asks) /\ OpenUnits(asks) \in Nat /\ bondAllowance \in Nat
      BY <1>1, <3>2, OfferIs DEF MarketInv, MarketTypeOK, Books
    <3>5. /\ OpenUnits(asks') <= OpenUnits(asks)
          /\ OpenUnits(asks') - bondAllowance' <= OpenUnits(asks) - bondAllowance
      BY <3>2, <3>4
    <3>6. PageInv'
      BY <1>1, <3>1, <3>2, <3>3, <3>5, PageRests
    <3>7. RunInv'
      BY <1>2, <2>1, <3>2, <3>3 DEF RunInv, Known
    <3> QED
      BY <1>5, <3>2, <3>6, <3>7 DEF ClientsIInv
  <2>2. CASE desk # "agent"
    <3>1. TradingNext /\ agent' = agent
      BY <1>3, <2>2 DEF AtDesk
    <3>2. MarketInv' /\ PageInv'
      BY <1>1, <3>1, TradingStep
    <3>3. RunInv'
      BY <1>1, <1>2, <2>2, <3>1, <3>2, RunRests
    <3> QED
      BY <1>5, <3>2, <3>3 DEF ClientsIInv
  <2> QED
    BY <2>1, <2>2
<1>4. CASE Others
  <2>1. Elsewhere /\ UNCHANGED tradingVars /\ agent' = agent
    BY <1>4 DEF Others
  <2>2. /\ MarketInv' /\ Goes /\ usdcAllowance' = usdcAllowance /\ usdc'[Me] >= usdc[Me]
        /\ OpenUnits(asks') <= OpenUnits(asks)
        /\ OpenUnits(asks') - bondAllowance' <= OpenUnits(asks) - bondAllowance
    BY <1>1, <2>1, ElsewhereStep
  <2>3. PageInv'
    BY <1>1, <2>1, <2>2, PageRests
  <2>4. read' = read
    BY <2>1 DEF tradingVars
  <2>5. RunInv'
    BY <1>1, <1>2, <2>1, <2>2, <2>4, RunRests
  <2> QED
    BY <1>5, <2>2, <2>3, <2>5 DEF ClientsIInv
<1> QED
  BY <1>3, <1>4 DEF Next

LEMMA ClientsStutter ==
  ASSUME ClientsIInv, UNCHANGED vars
  PROVE  ClientsIInv'
<1>1. MarketInv /\ PageInv /\ RunInv
  BY DEF ClientsIInv
<1>2. /\ UNCHANGED <<tokenVars, oracleVars, marketVars, now>> /\ usdc' = usdc
      /\ usdcAllowance' = usdcAllowance /\ bondAllowance' = bondAllowance
      /\ UNCHANGED tradingVars /\ agent' = agent /\ desk' = desk
  BY DEF vars, chainVars, allowances
<1>3. /\ usdc \in [Accounts \cup Settlements -> Nat] /\ usdc[Me] \in Nat
      /\ usdcAllowance \in Nat /\ bondAllowance \in Nat /\ asks \in Books
  BY <1>1, Given DEF MarketInv, MarketTypeOK, Books
<1>4. MarketInv' /\ Goes /\ asks' = asks
  BY <1>1, <1>2, <1>3, RestStep
<1>5. OpenUnits(asks') = OpenUnits(asks) /\ OpenUnits(asks) \in Nat
  BY <1>3, <1>4, OfferIs
<1>6. PageInv'
  BY <1>1, <1>2, <1>3, <1>4, <1>5, PageRests
<1>7. read' = read
  BY <1>2 DEF tradingVars
<1>8. RunInv'
  BY <1>1, <1>2, <1>3, <1>4, <1>7, RunRests
<1>9. TheirsInv'
  BY DEF ClientsIInv, TheirsInv, vars, allowances
<1> QED
  BY <1>4, <1>6, <1>8, <1>9 DEF ClientsIInv

-----------------------------------------------------------------------------
(* The opening. *)
LEMMA DeskIs ==
  ASSUME Init
  PROVE  /\ desk \in {"funding", "taking", "selling", "agent"}
         /\ OwnedAt[desk] \in Nat /\ OwnedAt[desk] + TheirUnits <= Face
         /\ desk = "taking" => OwnedAt[desk] # 0
         /\ MakersAt[desk] = IF desk = "taking" THEN <<Other, Me>> ELSE <<>>
         /\ \E cash \in Nat, rate \in 0 .. MaxRateBps :
              InvestorInit(OwnedAt[desk], cash, rate, MakersAt[desk])
<1>1. desk \in {"funding", "taking", "selling", "agent"}
  BY ClientsAssumption DEF Init
<1>2. Face \in Nat /\ TheirUnits \in Nat /\ Face >= TheirUnits + 2 /\ MaxRateBps \in Nat /\ 1 <= MaxRateBps
  BY Given, ClientsAssumption
<1>3. /\ OwnedAt[desk] \in Nat /\ OwnedAt[desk] + TheirUnits <= Face
      /\ desk = "taking" => OwnedAt[desk] # 0
  BY <1>1, <1>2 DEF OwnedAt
<1>4. MakersAt[desk] = IF desk = "taking" THEN <<Other, Me>> ELSE <<>>
  BY <1>1, ClientsAssumption DEF MakersAt
<1>5. PICK cash \in IF desk = "agent" THEN Cash ELSE {3}, rate \in IF desk = "agent" THEN Rates ELSE {1} :
        InvestorInit(OwnedAt[desk], cash, rate, MakersAt[desk])
  BY DEF Init
<1>6. cash \in Nat /\ rate \in 0 .. MaxRateBps
  BY <1>2, <1>5, ClientsAssumption
<1> QED
  BY <1>1, <1>3, <1>4, <1>5, <1>6

(* The first asks: none, or one of each investor's for all it holds. *)
LEMMA FirstAsks ==
  ASSUME Init
  PROVE  /\ asks \in Books /\ nextAskId \in 1 .. MaxAsks + 1
         /\ \A id \in AskIds : asks[id].open => id < nextAskId
         /\ OpenUnits(asks) <= bondAllowance /\ bondAllowance \in Nat
<1> DEFINE mine == OwnedAt[desk]
           makers == MakersAt[desk]
           opens(a) == IF a = Me THEN mine ELSE TheirUnits
           price == CHOOSE p \in Prices : TRUE
           AskOf(a) == [open |-> TRUE, invoiceId |-> Bond, maker |-> a, units |-> opens(a), priceBps |-> price]
           none == [id \in AskIds |-> NoAsk]
<1>1. /\ asks = [id \in AskIds |-> IF id \in DOMAIN makers THEN AskOf(makers[id]) ELSE NoAsk]
      /\ nextAskId = Len(makers) + 1
      /\ bondAllowance = IF \E id \in DOMAIN makers : makers[id] = Me THEN mine ELSE 0
  BY DeskIs DEF InvestorInit
<1>2. /\ mine \in Nat /\ (desk = "taking" => mine # 0)
      /\ makers = IF desk = "taking" THEN <<Other, Me>> ELSE <<>>
  BY DeskIs
<1>3. price \in Nat \ {0} /\ MaxAsks \in Nat /\ MaxAsks >= 2
  BY InvestorAssumption, MarketAssumption, ClientsAssumption
<1>4. none \in Books
  BY DEF Books
<1>5. OpenUnits(none) = 0
  <2>1. ~NoAsk.open
    BY DEF NoAsk
  <2>2. \A id \in AskIds : OnOffer(none[id]) = 0
    BY <2>1 DEF OnOffer
  <2>3. OpenUnits(none) = Total([id \in AskIds |-> OnOffer(none[id])])
    BY <1>4, OfferIs
  <2> DEFINE g == [id \in AskIds |-> OnOffer(none[id])]
  <2>4. g \in [AskIds -> Nat] /\ \A id \in AskIds : g[id] = 0
    BY <2>2
  <2> HIDE DEF g
  <2>5. Total(g) = 0
    BY <2>4, TotalZero
  <2> QED
    BY <2>3, <2>5 DEF g
<1>6. CASE desk # "taking"
  <2>1. makers = <<>>
    BY <1>2, <1>6
  <2> HIDE DEF makers, mine
  <2>2. asks = none /\ nextAskId = 1 /\ bondAllowance = 0
    BY <1>1, <2>1
  <2>3. \A id \in AskIds : ~asks[id].open
    BY <2>2 DEF NoAsk
  <2> QED
    BY <1>3, <1>4, <1>5, <2>2, <2>3
<1>7. CASE desk = "taking"
  <2> DEFINE one == [none EXCEPT ![1] = AskOf(Other)]
             two == [one EXCEPT ![2] = AskOf(Me)]
  <2>1. makers = <<Other, Me>> /\ mine \in Nat \ {0}
    BY <1>2, <1>7
  <2>2. 1 \in AskIds /\ 2 \in AskIds
    BY <1>3 DEF AskIds
  <2> HIDE DEF makers, mine, price
  <2>3. AskOf(Other) \in Ask /\ AskOf(Me) \in Ask
    BY <1>3, <2>1, Given, InvestorAssumption DEF Ask
  <2>4. OnOffer(AskOf(Other)) = 0 /\ OnOffer(AskOf(Me)) = mine
    BY Given DEF OnOffer
  <2>5. asks = two /\ nextAskId = 3 /\ bondAllowance = mine
    <3>1. DOMAIN makers = {1, 2} /\ makers[1] = Other /\ makers[2] = Me /\ Len(makers) = 2
      BY <2>1
    <3>2. asks = [id \in AskIds |-> IF id = 1 THEN AskOf(Other) ELSE IF id = 2 THEN AskOf(Me) ELSE NoAsk]
      BY <1>1, <3>1
    <3> HIDE DEF AskOf
    <3>3. two = [id \in AskIds |-> IF id = 1 THEN AskOf(Other) ELSE IF id = 2 THEN AskOf(Me) ELSE NoAsk]
      BY <2>2
    <3> QED
      BY <1>1, <3>1, <3>2, <3>3
  <2>6. ~NoAsk.open
    BY DEF NoAsk
  <2> HIDE DEF AskOf, none
  <2>7. one \in Books /\ OpenUnits(one) = OpenUnits(none) - OnOffer(none[1]) + OnOffer(AskOf(Other))
    BY <1>4, <2>2, <2>3, OfferChanges
  <2>8. none[1] = NoAsk /\ none[2] = NoAsk /\ one[2] = NoAsk
    BY <2>2 DEF none
  <2>9. OnOffer(NoAsk) = 0
    BY <2>6 DEF OnOffer
  <2>10. OpenUnits(one) = 0
    BY <1>5, <2>4, <2>7, <2>8, <2>9
  <2> HIDE DEF one
  <2>11. two \in Books /\ OpenUnits(two) = OpenUnits(one) - OnOffer(one[2]) + OnOffer(AskOf(Me))
    BY <2>2, <2>3, <2>7, OfferChanges
  <2>12. OpenUnits(two) = mine
    BY <2>1, <2>4, <2>8, <2>9, <2>10, <2>11
  <2>13. \A id \in AskIds : two[id].open => id < 3
    <3> SUFFICES ASSUME NEW id \in AskIds, two[id].open PROVE id < 3
      OBVIOUS
    <3>1. id \in Nat /\ (id = 1 \/ id = 2 => id < 3)
      BY DEF AskIds
    <3>2. id # 1 /\ id # 2 => two[id] = NoAsk
      BY DEF one, none
    <3> QED
      BY <2>6, <3>1, <3>2
  <2> QED
    BY <1>3, <2>1, <2>5, <2>11, <2>12, <2>13
<1> QED
  BY <1>6, <1>7

LEMMA MarketOpens ==
  ASSUME Init
  PROVE  MarketInv /\ usdcAllowance = 0
<1> DEFINE mine == OwnedAt[desk]
           opens(a) == IF a = Me THEN mine ELSE TheirUnits
<1>1. PICK cash \in Nat, rate \in 0 .. MaxRateBps : InvestorInit(mine, cash, rate, MakersAt[desk])
  BY DeskIs
<1>2. mine \in Nat /\ mine + TheirUnits <= Face /\ TheirUnits \in Nat /\ Face \in Nat
  BY DeskIs, Given
<1> HIDE DEF mine
<1>3. /\ totalSupply = [i \in Invoices |-> mine + TheirUnits]
      /\ balanceOf = [i \in Invoices |-> [a \in Accounts |-> opens(a)]]
      /\ isEligible = [i \in Invoices |-> Accounts]
      /\ isFrozen = [i \in Invoices |-> {}]
      /\ complianceRole = [i \in Invoices |-> Operators]
      /\ issuerRole = [i \in Invoices |-> {Market}]
  BY <1>1 DEF InvestorInit
<1>4. TokenTypeOK
  <2>1. mine + TheirUnits \in Nat
    BY <1>2
  <2>2. totalSupply \in [Invoices -> Nat]
    BY <1>3, <2>1
  <2>3. balanceOf \in [Invoices -> [Accounts -> Nat]]
    BY <1>2, <1>3
  <2>4. /\ isEligible \in [Invoices -> SUBSET Accounts] /\ isFrozen \in [Invoices -> SUBSET Accounts]
        /\ complianceRole \in [Invoices -> SUBSET Operators]
    BY <1>3
  <2>5. issuerRole \in [Invoices -> SUBSET Minters]
    BY <1>3, MarketAssumption
  <2> QED
    BY <2>2, <2>3, <2>4, <2>5 DEF TokenTypeOK
<1>5. totalSupply[Bond] <= Face
  BY <1>2, <1>3, Given
<1>6. /\ signer \in Signers /\ consumer = Market /\ nonceUsed = Nonces /\ now = 0
      /\ usdc = [OpeningUsdc EXCEPT ![Me] = cash]
      /\ listings = [i \in Invoices |->
           [listed |-> TRUE, issuer |-> Other, faceValue |-> Face, discountRateBps |-> rate, maturity |-> 1]]
      /\ feeBps \in Fees /\ treasury = Other /\ settlement = Zero
      /\ complianceOperator \in Operators /\ usdcAllowance = 0
  BY <1>1 DEF InvestorInit
<1>7. usdc \in [Accounts \cup Settlements -> Nat]
  <2>1. OpeningUsdc \in [Accounts -> Nat] /\ Accounts \cup Settlements = Accounts
    BY Given, MarketAssumption
  <2> QED
    BY <1>6, <2>1, Given
<1>8. listings \in [Invoices -> Listing \cup {NotListed}]
  BY <1>2, <1>6, Given DEF Listing
<1>9. /\ listings[Bond].listed /\ listings[Bond].issuer = Other /\ listings[Bond].faceValue = Face
  BY <1>6, Given
<1>10. feeBps \in Nat /\ feeBps <= Bps
  <2>1. feeBps \in Nat /\ feeBps <= MaxFeeBps
    BY <1>6, Given, InvestorAssumption
  <2> QED
    BY <2>1, Given
<1>11. MarketTypeOK
  BY <1>4, <1>6, <1>7, <1>8, <1>10, FirstAsks, Given, InvestorAssumption DEF MarketTypeOK, Books
<1> QED
  BY <1>5, <1>6, <1>9, <1>10, <1>11, FirstAsks DEF MarketInv

LEMMA TheirsOpen ==
  ASSUME Init
  PROVE  TheirsInv
<1>1. PICK cash \in Nat, rate \in 0 .. MaxRateBps : InvestorInit(OwnedAt[desk], cash, rate, MakersAt[desk])
  BY DeskIs
<1>2. theirAllowance \in {TheirUnits, 0}
  BY <1>1 DEF InvestorInit
<1> QED
  BY <1>2, Given DEF TheirsInv

LEMMA ClientsOpen ==
  ASSUME Init
  PROVE  ClientsIInv
<1>1. MarketInv /\ usdcAllowance = 0
  BY MarketOpens
<1>2. /\ tx = [f \in Forms |-> Quiet] /\ queue = <<>> /\ invalid = {}
      /\ read = [q \in Reads |-> Unread] /\ careful = TRUE
  BY DEF Init, TradingInit, TxInit
<1>3. \A f \in Forms : ~Busy(f) /\ tx[f].at # "pending"
  BY <1>2, WorkingIs DEF Busy
<1>4. DOMAIN queue = {} /\ queue \in Seq(Signed)
  BY <1>2
<1>5. HooksInv
  <2>1. tx \in [Forms -> Hooks]
    BY <1>2, WorkingIs
  <2> QED
    BY <1>2, <1>3, <1>4, <2>1 DEF HooksInv, TxTypeOK, Hooks, Signed
<1>6. \A q \in Reads : ~Known(q)
  BY <1>2 DEF Known
<1>7. "asks" \in Reads /\ "usdcAllowance" \in Reads /\ "sell" \in Forms
  BY TradingAssumption
<1>8. ReadInv
  BY <1>2, <1>6, <1>7 DEF ReadInv
<1>9. OrdersInv
  BY <1>3, <1>4 DEF OrdersInv, OnTheirWay
<1>10. SellInv
  BY <1>3, <1>4, <1>7, FirstAsks DEF SellInv, AsksCovered, Selling
<1>11. AllowanceFollows
  BY <1>6, <1>7 DEF AllowanceFollows
<1>12. agent \in [at: {"probing"}, mode: Modes, cash: {usdc[Me]}]
  BY DEF Init, AgentInit
<1>13. agent.at = "probing" /\ agent.mode \in Modes /\ agent.cash = usdc[Me] /\ usdc[Me] \in Nat
  BY <1>1, <1>12, Given DEF MarketInv, MarketTypeOK
<1>14. agent \in Runs
  <2>1. agent \in [at: Orderless, mode: Modes, cash: Nat]
    BY <1>12, <1>13 DEF Orderless
  <2> QED
    BY <2>1 DEF Runs
<1>15. SpendInv
  BY <1>1, <1>13, AgentAssumption DEF SpendInv, Ordering
<1>16. RunInv
  BY <1>6, <1>7, <1>13, <1>14, <1>15 DEF RunInv, OverdraftIsDust
<1> QED
  BY <1>1, <1>2, <1>5, <1>8, <1>9, <1>10, <1>11, <1>16, TheirsOpen DEF ClientsIInv, PageInv

-----------------------------------------------------------------------------
(* In every reachable state. *)
THEOREM ClientsInductive == Spec => []ClientsIInv
<1>1. Init => ClientsIInv
  BY ClientsOpen
<1>2. ClientsIInv /\ [Next]_vars => ClientsIInv'
  BY ClientsStep, ClientsStutter
<1> QED
  BY <1>1, <1>2, PTL DEF Spec

(* What a wallet has approved suffices for what it sends next: an order after its
   approval, and the fills of every ask it has open (use-tx.ts, asks.tsx). *)
THEOREM WalletApprovesEnough == Spec => []ApprovalsSuffice
<1>1. ClientsIInv => ApprovalsSuffice
  BY DEF ClientsIInv, PageInv, SellInv, ApprovalsSuffice, AsksCovered
<1> QED
  BY <1>1, ClientsInductive, PTL

(* The agent orders two base units more than it has at the most, and spends and
   approves what it was told to (plan.ts, index.ts). *)
LEMMA AgentKeeps ==
  ASSUME ClientsIInv
  PROVE  AgentInv
<1>1. MarketInv /\ PageInv /\ RunInv
  BY DEF ClientsIInv
<1>2. InvestorTypeOK
  BY <1>1 DEF ClientsIInv, TheirsInv, MarketInv, InvestorTypeOK
<1>3. TradingTypeOK
  BY <1>1 DEF PageInv, HooksInv, ReadInv, TradingTypeOK
<1>4. /\ agent.at \in Orderless \cup Ordering /\ agent.mode \in Modes /\ agent.cash \in Nat
      /\ agent.at \in Ordering => agent.order \in AgentOrders /\ agent.order.total \in Nat
  BY <1>1, RunIs
<1>5. AgentTypeOK
  BY <1>4 DEF AgentTypeOK, Orderless, Ordering
<1>6. OverdraftIsDust
  BY <1>1 DEF RunInv
<1>7. SpendsAsTold
  <2> SUFFICES ASSUME desk = "agent" PROVE SpendsAsTold!2
    BY DEF SpendsAsTold
  <2>1. SpendInv
    BY <1>1 DEF RunInv
  <2>2. /\ usdc[Me] \in Nat /\ usdcAllowance \in Nat /\ Price \in Nat
    BY <1>1, Given, AgentAssumption DEF MarketInv, MarketTypeOK
  <2>3. agent.at = "funded" => agent.mode # "dry"
    BY <2>1 DEF SpendInv
  <2>4. agent.cash - usdc[Me] <= (IF agent.mode = "dry" THEN 0 ELSE Price)
                                 + (IF agent.at = "funded" THEN agent.order.total ELSE 0)
    <3>1. CASE agent.mode = "dry"
      <4>1. agent.cash <= usdc[Me] /\ agent.at # "funded"
        BY <2>1, <2>3, <3>1 DEF SpendInv
      <4> QED
        BY <1>4, <2>2, <3>1, <4>1
    <3>2. CASE agent.mode # "dry" /\ agent.at = "funded"
      <4>1. agent.cash - usdc[Me] <= Price + agent.order.total
        BY <2>1, <3>2 DEF SpendInv
      <4> QED
        BY <3>2, <4>1
    <3>3. CASE agent.mode # "dry" /\ agent.at # "funded"
      <4>1. agent.cash - usdc[Me] <= Price
        BY <2>1, <3>3 DEF SpendInv
      <4> QED
        BY <1>4, <2>2, <3>3, <4>1
    <3> QED
      BY <3>1, <3>2, <3>3
  <2>5. ASSUME usdcAllowance > 0
        PROVE  /\ agent.mode = "act" /\ agent.at \in {"buying", "funded", "reverted"}
               /\ usdcAllowance <= agent.order.total
    <3>1. agent.at \in {"buying", "funded", "reverted"}
      BY <2>1, <2>2, <2>5 DEF SpendInv
    <3> QED
      BY <2>1, <3>1 DEF SpendInv, Ordering
  <2> QED
    BY <2>4, <2>5
<1> QED
  BY <1>2, <1>3, <1>5, <1>6, <1>7 DEF AgentInv, TypeOK

THEOREM AgentSpendsAsTold == Spec => []AgentInv
BY AgentKeeps, ClientsInductive, PTL

(* A purchase takes exactly the total that the form showed, unless the fee was
   changed since or no price was shown yet, whatever moved between the button and
   the block. *)
LEMMA DueIsShown ==
  ASSUME MarketInv, NEW cost \in Nat, NEW shown \in Nat, NEW fee \in Nat,
         ShownIs(shown, cost, fee), feeBps = fee
  PROVE  Due(cost) = shown
<1>1. FeeOn(Me, cost) = IF fee = 0 THEN 0 ELSE MulDivCeil(cost, fee, Bps)
  BY Given DEF FeeOn, MarketInv
<1>2. fee = 0 => MulDivCeil(cost, fee, Bps) = 0
  <2>1. Bps \in Nat \ {0}
    BY Given
  <2>2. ASSUME fee = 0 PROVE MulDivCeil(cost, 0, Bps) = 0
    <3>1. MulDivCeil(cost, 0, Bps) \in Nat /\ MulDivCeil(cost, 0, Bps) * Bps < cost * 0 + Bps
      BY <2>1, CeilBounds
    <3> DEFINE x == MulDivCeil(cost, 0, Bps)
    <3>2. x \in Nat /\ x * Bps < 1 * Bps
      BY <2>1, <3>1
    <3> HIDE DEF x
    <3>3. x < 1
      BY <2>1, <3>2, Divides
    <3> QED
      BY <3>2, <3>3 DEF x
  <2> QED
    BY <2>2
<1> QED
  BY <1>1, <1>2 DEF Due, ShownIs

LEMMA TakesWhatItShowed ==
  ASSUME ClientsIInv, [Next]_vars, Len(queue') < Len(queue), usdc'[Me] < usdc[Me],
         NEW call, call = Head(queue).call
  PROVE  usdc[Me] - usdc'[Me] = call.shown \/ call.shown = None \/ feeBps # call.feeBps
<1>1. MarketInv /\ PageInv /\ RunInv
  BY DEF ClientsIInv
<1>2. HooksInv /\ OrdersInv
  BY <1>1 DEF PageInv
<1>3. usdc[Me] \in Nat /\ Len(queue) \in Nat
  BY <1>1, <1>2, HookIs, Given DEF MarketInv, MarketTypeOK
<1>4. queue' # queue /\ usdc' # usdc
  BY <1>3
<1>5. MineNext
  <2>1. ~(UNCHANGED vars) /\ ~Others
    BY <1>4 DEF vars, chainVars, tradingVars, txVars, Others
  <2>2. TradingNext
    BY <1>4, <2>1 DEF Next, AtDesk, tradingVars, txVars
  <2>3. ASSUME NEW q \in Reads PROVE ~Refetch(q)
    BY <1>4 DEF Refetch, chainVars
  <2>4. ~Press
    BY <1>4 DEF Press, chainVars
  <2>5. ASSUME NEW f \in Forms PROVE ~HookStep(f)
    BY <1>4 DEF HookStep, chainVars
  <2> QED
    BY <2>2, <2>3, <2>4, <2>5 DEF TradingNext
<1>6. queue # <<>> /\ Execute(call)
  BY <1>4, <1>5 DEF MineNext, chainVars
<1>7. call \in Calls /\ Honest(call)
  <2>1. 1 \in DOMAIN queue /\ Head(queue) = queue[1]
    BY <1>2, <1>6, HookIs
  <2> QED
    BY <1>2, <2>1, HookIs DEF OrdersInv, OnTheirWay
<1> SUFFICES ASSUME call.shown # None, feeBps = call.feeBps PROVE usdc[Me] - usdc'[Me] = call.shown
  OBVIOUS
<1>8. CASE call.op = "buyPrimary"
  <2> DEFINE cost == PrimaryCost(call.units)
  <2>1. call.units \in Nat /\ call.feeBps \in Nat /\ call.shown \in Nat
    BY <1>7, <1>8, CallIs
  <2>2. cost \in Nat
    BY <1>1, <2>1, BondIs
  <2>3. ShownIs(call.shown, cost, call.feeBps)
    BY <1>7, <1>8 DEF Honest
  <2>4. usdc'[Me] = usdc[Me] - Due(cost)
    BY <1>1, <1>6, <1>7, <1>8, ExecuteStep
  <2> HIDE DEF cost
  <2>5. Due(cost) = call.shown
    BY <1>1, <2>1, <2>2, <2>3, DueIsShown
  <2> QED
    BY <1>3, <2>1, <2>4, <2>5
<1>9. CASE call.op = "fillAsk"
  <2> DEFINE cost == Cost(call.units, asks[call.askId].priceBps)
  <2>1. call.units \in Nat /\ call.feeBps \in Nat /\ call.shown \in Nat /\ call.askId \in AskIds
    BY <1>7, <1>9, CallIs
  <2>2. asks[call.askId].open /\ usdc'[Me] = usdc[Me] - Due(cost)
    BY <1>1, <1>6, <1>7, <1>9, ExecuteStep
  <2>3. cost \in Nat
    BY <1>1, <2>1, <2>2, AskIs, CostIs
  <2>4. ShownIs(call.shown, cost, call.feeBps)
    BY <1>7, <1>9, <2>2 DEF Honest
  <2> HIDE DEF cost
  <2>5. Due(cost) = call.shown
    BY <1>1, <2>1, <2>3, <2>4, DueIsShown
  <2> QED
    BY <1>3, <2>1, <2>2, <2>5
<1>10. call.op \in {"buyPrimary", "fillAsk"}
  BY <1>1, <1>4, <1>6, <1>7, ExecuteStep
<1> QED
  BY <1>8, <1>9, <1>10

THEOREM PurchasesCostWhatTheyShowed == Spec => PaysWhatItShowed
<1>1. ClientsIInv /\ [Next]_vars =>
        [Len(queue') < Len(queue) /\ usdc'[Me] < usdc[Me] =>
           LET call == Head(queue).call
           IN  \/ usdc[Me] - usdc'[Me] = call.shown
               \/ call.shown = None
               \/ feeBps # call.feeBps]_vars
  BY TakesWhatItShowed
<1> QED
  BY <1>1, ClientsInductive, PTL DEF Spec, PaysWhatItShowed
=============================================================================
