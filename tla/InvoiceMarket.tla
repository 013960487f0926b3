---------------------------- MODULE InvoiceMarket ----------------------------
(***************************************************************************)
(* Primary and secondary market for invoice bonds                           *)
(* (contracts/src/InvoiceMarket.sol) over the bonds, the quote oracle and   *)
(* the chain.  One action per external function; the owner's functions are  *)
(* actions of their own.  USDC never rests in the market: each purchase     *)
(* moves it from the buyer to the seller and, as a fee, to the treasury.    *)
(*                                                                          *)
(* External: the network, for a block clock that never goes back and the    *)
(* USDC token (an HTS token behind an ERC-20 facade), both modelled from    *)
(* how the contracts use them.  A transaction is atomic: one action, and a  *)
(* revert is an action that is not enabled.                                 *)
(***************************************************************************)
EXTENDS BondToken, DiscountOracle

CONSTANTS
  MaxTime,     \* bound on the clock
  Market,      \* this contract
  Bps,         \* BPS: the denominator of rates and prices
  MaxFeeBps,   \* MAX_FEE_BPS
  Fees,        \* fees the owner may ask for
  Treasuries,  \* accounts that may be the treasury
  RoleTargets, \* accounts the owner grants roles to and revokes roles from
  Consumers,   \* contracts the owner configures as the oracle's consumer
  Prices,      \* prices (bps of face) of asks
  MaxAsks,     \* bound on the number of asks ever made
  OpeningUsdc  \* USDC each account starts with

VARIABLES
  now,                 \* block.timestamp
  usdc,                \* USDC balances
  listings,            \* _listings: the Listing of an invoice, or NotListed
  asks,                \* askId -> Ask, or NoAsk
  nextAskId,
  feeBps,
  treasury,
  settlement,          \* current settlement contract, or Zero
  complianceOperator

marketVars ==
  <<listings, asks, nextAskId, feeBps, treasury, settlement, complianceOperator>>

Settlements == Minters \ {Market}
AskIds == 1 .. MaxAsks
NotListed == [listed |-> FALSE]
NoAsk == [open |-> FALSE]

Listing ==
  [listed: {TRUE}, issuer: Accounts, faceValue: Nat,
   discountRateBps: 0 .. MaxRateBps, maturity: Nat]

Ask == [open: {TRUE}, invoiceId: Invoices, maker: Accounts, units: Nat \ {0},
        priceBps: Nat \ {0}]

Quote ==
  [invoiceId: Invoices, issuer: Accounts, faceValue: Nat, maturity: Nat,
   discountRateBps: Nat, validUntil: Nat, nonce: Nat, signer: Signers]

ASSUME MarketAssumption ==
  /\ Market \in Minters
  /\ Minters \cap Accounts = {}
  /\ IsFiniteSet(Minters)
  /\ Bps \in Nat \ {0}
  /\ MaxRateBps \in Nat /\ MaxRateBps < Bps
  /\ MaxFeeBps \in Nat
  /\ Fees \subseteq Nat
  /\ Treasuries \subseteq Accounts
  /\ RoleTargets \subseteq Operators \cup Minters
  /\ Prices \subseteq Nat
  /\ MaxAsks \in Nat
  /\ MaxTime \in Nat
  /\ OpeningUsdc \in [Accounts -> Nat]
  /\ Quotes \subseteq Quote

invoiceIds == {i \in Invoices : listings[i].listed}

MarketTypeOK ==
  /\ TokenTypeOK
  /\ signer \in Signers
  /\ consumer \in Consumers \cup {Zero}
  /\ nonceUsed \in SUBSET Nonces
  /\ now \in Nat
  /\ usdc \in [Accounts \cup Settlements -> Nat]
  /\ listings \in [Invoices -> Listing \cup {NotListed}]
  /\ asks \in [AskIds -> Ask \cup {NoAsk}]
  /\ nextAskId \in 1 .. MaxAsks + 1
  /\ feeBps \in Nat
  /\ treasury \in Accounts \cup {Zero}
  /\ settlement \in Settlements \cup {Zero}
  /\ complianceOperator \in Operators

(* The contracts as deployed: no fee, no settlement, oracle without consumer. *)
MarketInit ==
  /\ TokenInit
  /\ signer \in Signers
  /\ consumer = Zero
  /\ nonceUsed = {}
  /\ now = 0
  /\ usdc = [a \in Accounts \cup Settlements |->
               IF a \in Accounts THEN OpeningUsdc[a] ELSE 0]
  /\ listings = [i \in Invoices |-> NotListed]
  /\ asks = [id \in AskIds |-> NoAsk]
  /\ nextAskId = 1
  /\ feeBps = 0
  /\ treasury \in Treasuries
  /\ settlement = Zero
  /\ complianceOperator \in Operators

-----------------------------------------------------------------------------
(* block.timestamp moves on between transactions. *)
Tick == now < MaxTime /\ now' = now + 1

(* safeTransferFrom succeeds: HTS rejects a transfer to oneself. *)
CanPay(balances, from, to, amount) ==
  /\ from # to
  /\ to \in DOMAIN balances
  /\ amount <= balances[from]

(* The balances after a transfer. *)
Pay(balances, from, to, amount) ==
  [balances EXCEPT ![from] = @ - amount, ![to] = @ + amount]

-----------------------------------------------------------------------------
(* USDC due for units at a price in bps of face; rounds against the buyer. *)
Cost(units, priceBps) == MulDivCeil(units, priceBps, Bps)

(* _takeFee: the fee due; the treasury trades fee-free. *)
FeeOn(payer, cost) ==
  IF feeBps = 0 \/ payer = treasury THEN 0 ELSE MulDivCeil(cost, feeBps, Bps)

(* _takeFee and the payment to the seller, both or neither. *)
PayWithFee(payer, seller, cost) ==
  LET fee == FeeOn(payer, cost)
      afterFee == IF fee = 0 THEN usdc ELSE Pay(usdc, payer, treasury, fee)
  IN  /\ fee # 0 => CanPay(usdc, payer, treasury, fee)
      /\ CanPay(afterFee, payer, seller, cost)
      /\ usdc' = Pay(afterFee, payer, seller, cost)

-----------------------------------------------------------------------------
(* setFee *)
SetFee(fee, to) ==
  /\ fee <= MaxFeeBps
  /\ fee > 0 => to # Zero
  /\ feeBps' = fee
  /\ treasury' = to
  /\ UNCHANGED <<listings, asks, nextAskId, settlement, complianceOperator>>
  /\ UNCHANGED <<tokenVars, oracleVars, now, usdc>>

(* setComplianceOperator: bonds already listed keep their operator. *)
SetComplianceOperator(operator) ==
  /\ complianceOperator' = operator
  /\ UNCHANGED <<listings, asks, nextAskId, feeBps, treasury, settlement>>
  /\ UNCHANGED <<tokenVars, oracleVars, now, usdc>>

(* setSettlement: the new contract may burn on every bond listed so far; the
   old one keeps its role until revokeBondRole. *)
SetSettlement(s) ==
  /\ settlement' = s
  /\ issuerRole' = [i \in Invoices |->
       IF i \in invoiceIds /\ s # Zero THEN issuerRole[i] \cup {s} ELSE issuerRole[i]]
  /\ UNCHANGED <<totalSupply, balanceOf, isEligible, isFrozen, complianceRole>>
  /\ UNCHANGED <<listings, asks, nextAskId, feeBps, treasury, complianceOperator>>
  /\ UNCHANGED <<oracleVars, now, usdc>>

(* grantBondRole: the owner names compliance operators and settlement
   contracts, the two uses its comments and scripts have for it. *)
GrantBondRole(i, account) ==
  /\ i \in invoiceIds
  /\ \/ /\ account \in Operators
        /\ complianceRole' = [complianceRole EXCEPT ![i] = @ \cup {account}]
        /\ UNCHANGED issuerRole
     \/ /\ account \in Minters
        /\ issuerRole' = [issuerRole EXCEPT ![i] = @ \cup {account}]
        /\ UNCHANGED complianceRole
  /\ UNCHANGED <<totalSupply, balanceOf, isEligible, isFrozen>>
  /\ UNCHANGED <<marketVars, oracleVars, now, usdc>>

(* revokeBondRole *)
RevokeBondRole(i, account) ==
  /\ i \in invoiceIds
  /\ \/ /\ account \in Operators
        /\ complianceRole' = [complianceRole EXCEPT ![i] = @ \ {account}]
        /\ UNCHANGED issuerRole
     \/ /\ account \in Minters
        /\ issuerRole' = [issuerRole EXCEPT ![i] = @ \ {account}]
        /\ UNCHANGED complianceRole
  /\ UNCHANGED <<totalSupply, balanceOf, isEligible, isFrozen>>
  /\ UNCHANGED <<marketVars, oracleVars, now, usdc>>

-----------------------------------------------------------------------------
(* Mutant of FirstMinters: no check that there is a settlement contract. *)
FirstMintersUnchecked == {Market, settlement}

(* listInvoice: who may mint and burn on a new bond. *)
FirstMinters == {Market} \cup ({settlement} \ {Zero})

(* listInvoice: consumes the quote, deploys the bond, grants its roles. *)
ListInvoice(caller, q) ==
  LET i == q.invoiceId
  IN  /\ i \notin invoiceIds
      /\ q.issuer = caller
      /\ q.faceValue # 0
      /\ now < q.maturity
      /\ Consume(Market, q, now)
      /\ Deploy(i, complianceOperator, FirstMinters)
      /\ listings' = [listings EXCEPT ![i] =
           [listed |-> TRUE, issuer |-> caller, faceValue |-> q.faceValue,
            discountRateBps |-> q.discountRateBps, maturity |-> q.maturity]]
      /\ UNCHANGED <<asks, nextAskId, feeBps, treasury, settlement,
                     complianceOperator, now, usdc>>

(* Mutant of BuyPrimary: no maturity check. *)
BuyPrimaryLate(buyer, i, units) ==
  /\ i \in invoiceIds
  /\ units # 0
  /\ PayWithFee(buyer, listings[i].issuer,
                Cost(units, Bps - listings[i].discountRateBps))
  /\ Mint(i, listings[i].faceValue, Market, buyer, units)
  /\ UNCHANGED <<marketVars, oracleVars, now>>

(* buyPrimary *)
BuyPrimary(buyer, i, units) ==
  /\ i \in invoiceIds
  /\ units # 0
  /\ now < listings[i].maturity
  /\ PayWithFee(buyer, listings[i].issuer,
                Cost(units, Bps - listings[i].discountRateBps))
  /\ Mint(i, listings[i].faceValue, Market, buyer, units)
  /\ UNCHANGED <<marketVars, oracleVars, now>>

(* makeAsk: the units stay with the maker. *)
MakeAsk(maker, i, units, priceBps) ==
  /\ nextAskId <= MaxAsks
  /\ i \in invoiceIds
  /\ units # 0 /\ priceBps # 0
  /\ units <= balanceOf[i][maker]
  /\ asks' = [asks EXCEPT ![nextAskId] =
       [open |-> TRUE, invoiceId |-> i, maker |-> maker, units |-> units,
        priceBps |-> priceBps]]
  /\ nextAskId' = nextAskId + 1
  /\ UNCHANGED <<listings, feeBps, treasury, settlement, complianceOperator>>
  /\ UNCHANGED <<tokenVars, oracleVars, now, usdc>>

(* cancelAsk *)
CancelAsk(caller, id) ==
  /\ asks[id].open
  /\ asks[id].maker = caller
  /\ asks' = [asks EXCEPT ![id] = NoAsk]
  /\ UNCHANGED <<listings, nextAskId, feeBps, treasury, settlement,
                 complianceOperator>>
  /\ UNCHANGED <<tokenVars, oracleVars, now, usdc>>

(* Mutant of Filled: a partial fill leaves the ask as it was. *)
FilledUntouched(ask, units) == IF units = ask.units THEN NoAsk ELSE ask

(* What is left of an ask once some units are filled; deleted when empty. *)
Filled(ask, units) ==
  IF units = ask.units THEN NoAsk ELSE [ask EXCEPT !.units = @ - units]

(* fillAsk: open at any time, before and after maturity. *)
FillAsk(taker, id, units) ==
  /\ asks[id].open
  /\ units # 0
  /\ units <= asks[id].units
  /\ PayWithFee(taker, asks[id].maker, Cost(units, asks[id].priceBps))
  /\ Transfer(asks[id].invoiceId, asks[id].maker, taker, units)
  /\ asks' = [asks EXCEPT ![id] = Filled(@, units)]
  /\ UNCHANGED <<listings, nextAskId, feeBps, treasury, settlement,
                 complianceOperator>>
  /\ UNCHANGED <<oracleVars, now>>

-----------------------------------------------------------------------------
OwnerNext ==
  \/ \E fee \in Fees, to \in Treasuries \cup {Zero} : SetFee(fee, to)
  \/ \E op \in Operators : SetComplianceOperator(op)
  \/ \E s \in Settlements \cup {Zero} : SetSettlement(s)
  \/ \E i \in Invoices, a \in RoleTargets : GrantBondRole(i, a)
  \/ \E i \in Invoices, a \in RoleTargets : RevokeBondRole(i, a)
  \/ \E s \in Signers : SetSigner(s)
       /\ UNCHANGED <<tokenVars, marketVars, now, usdc>>
  \/ \E c \in Consumers : SetConsumer(c)
       /\ UNCHANGED <<tokenVars, marketVars, now, usdc>>

TraderNext ==
  \E a \in Accounts :
    \/ \E q \in Quotes : ListInvoice(a, q)
    \/ \E i \in Invoices, units \in Amounts : BuyPrimary(a, i, units)
    \/ \E i \in Invoices, units \in Amounts, p \in Prices : MakeAsk(a, i, units, p)
    \/ \E id \in AskIds : CancelAsk(a, id)
    \/ \E id \in AskIds, units \in Amounts : FillAsk(a, id, units)

MarketNext ==
  \/ OwnerNext
  \/ TraderNext
  \/ TokenNext /\ UNCHANGED <<marketVars, oracleVars, now, usdc>>
  \/ Tick /\ UNCHANGED <<tokenVars, marketVars, oracleVars, usdc>>

(* Every variable of the market and of what it is built on. *)
chainVars == <<tokenVars, oracleVars, marketVars, now, usdc>>

MarketSpec == MarketInit /\ [][MarketNext]_chainVars
=============================================================================
