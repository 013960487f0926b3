------------------------------ MODULE Investor -------------------------------
(***************************************************************************)
(* The market as one investor's wallet uses it: the transactions its clients *)
(* (the web app and the agent) send, under the approvals it gave, while      *)
(* everyone else trades.  When a client opens the bond is listed and the     *)
(* investor eligible; both may lose their flags under it.                    *)
(*                                                                          *)
(* External: approvals are ERC-20 allowances (OpenZeppelin, HTS): approve    *)
(* overwrites, a transfer by the market uses up.                             *)
(***************************************************************************)
EXTENDS InvoiceMarket, Sequences

CONSTANTS
  Me,       \* the investor
  Other,    \* issuer, treasury and every other investor
  Bond,     \* the invoice
  Face,     \* its face value
  TheirUnits  \* units the other investor holds when a client opens

VARIABLES
  usdcAllowance,  \* what the market may take of the investor's USDC
  bondAllowance,  \* and of its units
  theirAllowance  \* what it may take of the units of the other investor

allowances == <<usdcAllowance, bondAllowance, theirAllowance>>

(* The market has no settlement contract yet.  MAX_FEE_BPS is 500 of BPS,
   10,000 (InvoiceMarket.sol:20-21). *)
ASSUME InvestorAssumption ==
  /\ Me # Other /\ Accounts = {Me, Other} /\ Bond \in Invoices
  /\ Face \in Nat /\ TheirUnits \in Nat \ {0}
  /\ Minters = {Market} /\ Market \in Consumers
  /\ Prices # {} /\ Prices \subseteq Nat \ {0}
  /\ MaxFeeBps <= Bps /\ \A fee \in Fees : fee <= MaxFeeBps

(* A listed bond, partly sold: the investor holds `mine` units and `cash`; the
   first asks are those of `makers`, a sequence that names nobody twice. *)
InvestorInit(mine, cash, rate, makers) ==
  LET opens(a) == IF a = Me THEN mine ELSE TheirUnits
  IN
  /\ totalSupply = [i \in Invoices |-> mine + TheirUnits]
  /\ balanceOf = [i \in Invoices |-> [a \in Accounts |-> opens(a)]]
  /\ isEligible = [i \in Invoices |-> Accounts]
  /\ isFrozen = [i \in Invoices |-> {}]
  /\ complianceRole = [i \in Invoices |-> Operators]
  /\ issuerRole = [i \in Invoices |-> {Market}]
  /\ signer \in Signers /\ consumer = Market /\ nonceUsed = Nonces
  /\ now = 0
  /\ usdc = [OpeningUsdc EXCEPT ![Me] = cash]
  /\ listings = [i \in Invoices |->
       [listed |-> TRUE, issuer |-> Other, faceValue |-> Face, discountRateBps |-> rate,
        maturity |-> 1]]
  /\ asks = [id \in AskIds |->
       IF id \in DOMAIN makers
         THEN [open |-> TRUE, invoiceId |-> Bond, maker |-> makers[id],
               units |-> opens(makers[id]), priceBps |-> CHOOSE p \in Prices : TRUE]
         ELSE NoAsk]
  /\ nextAskId = Len(makers) + 1
  /\ feeBps \in Fees
  /\ treasury = Other
  /\ settlement = Zero
  /\ complianceOperator \in Operators
  /\ usdcAllowance = 0
  /\ bondAllowance = IF \E id \in DOMAIN makers : makers[id] = Me THEN mine ELSE 0
  /\ theirAllowance = IF \E id \in DOMAIN makers : makers[id] = Other THEN TheirUnits ELSE 0

InvestorTypeOK ==
  MarketTypeOK /\ usdcAllowance \in Nat /\ bondAllowance \in Nat /\ theirAllowance \in Nat

-----------------------------------------------------------------------------
(* What the market takes for a cost: price and fee, under the approval. *)
Takes(cost) ==
  /\ cost + FeeOn(Me, cost) <= usdcAllowance
  /\ usdcAllowance' = usdcAllowance - cost - FeeOn(Me, cost)
  /\ UNCHANGED bondAllowance

PrimaryCost(units) == Cost(units, Bps - listings[Bond].discountRateBps)

(* The investor's transactions, by the function they call. *)
ApproveUsdc(call) ==
  /\ call.op = "approveUsdc"
  /\ usdcAllowance' = call.amount
  /\ UNCHANGED <<bondAllowance, theirAllowance, chainVars>>

ApproveUnits(call) ==
  /\ call.op = "approveUnits"
  /\ bondAllowance' = call.amount
  /\ UNCHANGED <<usdcAllowance, theirAllowance, chainVars>>

Buys(call) ==
  /\ call.op = "buyPrimary"
  /\ Takes(PrimaryCost(call.units))
  /\ BuyPrimary(Me, Bond, call.units)
  /\ UNCHANGED theirAllowance

(* The market takes the units from the maker, as far as that one approved. *)
Fills(call) ==
  /\ call.op = "fillAsk"
  /\ asks[call.askId].open
  /\ Takes(Cost(call.units, asks[call.askId].priceBps))
  /\ call.units <= theirAllowance
  /\ FillAsk(Me, call.askId, call.units)
  /\ theirAllowance' = theirAllowance - call.units

Asks(call) ==
  /\ call.op = "makeAsk"
  /\ MakeAsk(Me, Bond, call.units, call.priceBps)
  /\ UNCHANGED allowances

Cancels(call) ==
  /\ call.op = "cancelAsk"
  /\ CancelAsk(Me, call.askId)
  /\ UNCHANGED allowances

Execute(call) ==
  \/ ApproveUsdc(call) \/ ApproveUnits(call)
  \/ Buys(call) \/ Fills(call) \/ Asks(call) \/ Cancels(call)

(* What eth_call answers at this moment; a transaction mined now reverts
   exactly when it would. *)
Succeeds(call) == ENABLED Execute(call)

-----------------------------------------------------------------------------
(* The fill of one of the investor's asks uses up its approval. *)
FillOfMine(id, units) ==
  /\ asks[id].open /\ asks[id].maker = Me
  /\ units <= bondAllowance
  /\ FillAsk(Other, id, units)
  /\ bondAllowance' = bondAllowance - units
  /\ UNCHANGED <<usdcAllowance, theirAllowance>>

(* A purchase by others: its payment and fee stay among them. *)
BuyOfTheirs(units) ==
  /\ units # 0 /\ now < listings[Bond].maturity
  /\ Mint(Bond, Face, Market, Other, units)
  /\ UNCHANGED <<marketVars, oracleVars, now, usdc>>

(* What a maker or an operator does on the bond itself: an ask holds no units,
   so they may be transferred away under it, or its maker frozen. *)
OnBond ==
  /\ \/ \E units \in Amounts : Transfer(Bond, Other, Me, units)
     \/ \E op \in Operators, a \in Accounts, flag \in BOOLEAN :
          SetEligible(Bond, op, a, flag) \/ SetFrozen(Bond, op, a, flag)
  /\ UNCHANGED <<marketVars, oracleVars, now, usdc>>

(* The other investor approves the market, for more or for less. *)
ApproveOfTheirs ==
  /\ theirAllowance' \in Amounts \cup {0}
  /\ UNCHANGED <<usdcAllowance, bondAllowance, chainVars>>

(* Everyone else, and the owner. *)
Elsewhere ==
  \/ /\ \/ \E units \in Amounts : BuyOfTheirs(units)
        \/ \E units \in Amounts, p \in Prices : MakeAsk(Other, Bond, units, p)
        \/ \E id \in AskIds : CancelAsk(Other, id)
        \/ \E fee \in Fees : SetFee(fee, Other)
        \/ OnBond
     /\ UNCHANGED allowances
  \/ \E id \in AskIds, units \in Amounts : FillOfMine(id, units)
  \/ ApproveOfTheirs
=============================================================================
