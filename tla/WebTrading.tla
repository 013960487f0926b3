------------------------------ MODULE WebTrading ------------------------------
(***************************************************************************)
(* Writing from the web app.  Every form has its own useTx hook              *)
(* (lib/use-tx.ts), which simulates a call, asks the wallet to sign it and   *)
(* waits for the receipt; all reads of the page share one query cache.       *)
(*                                                                           *)
(* The forms are those of a bond's page: buying from the issuer              *)
(* (buy-form.tsx), taking an ask, selling and cancelling (asks.tsx, also     *)
(* portfolio.tsx).  A form decides between an approval and the order itself  *)
(* from what the page last read, which the chain may have left behind; its   *)
(* user may enter anything the form lets through.  Wallet and network are    *)
(* those of the active chain, the wallet is associated with USDC and the     *)
(* bond has not matured.                                                     *)
(*                                                                           *)
(* External: the wallet, which signs or refuses, and the network, which      *)
(* mines the transactions of one account in nonce order.                     *)
(***************************************************************************)
EXTENDS Investor

CONSTANTS
  Forms,     \* the forms on screen, each with its hook
  Reads,     \* the queries of the page
  MaxQueue,  \* bound: transactions signed and not mined
  None,      \* no form, or no price shown
  Unread     \* a query without data

VARIABLES
  tx,       \* form -> Quiet or the state of its hook
  queue,    \* signed and not mined; form is None once the form was left
  invalid,  \* queries that are invalidated and not refetched yet
  read,     \* query -> its cached data
  careful   \* history: no form was left with its transaction on its way, and
            \* every sale was entered on current reads

txVars == <<tx, queue, invalid>>
tradingVars == <<txVars, read, careful>>

ASSUME TradingAssumption ==
  /\ Forms = {"fund", "fill", "sell", "cancel"}
  /\ Reads = {"feeBps", "usdcAllowance", "usdcBalance", "supply", "asks", "bondAllowance", "held"}
  /\ MaxQueue \in Nat
  /\ None \notin Forms /\ None \notin Nat
  /\ Unread \notin Nat /\ Unread \notin [AskIds -> Ask \cup {NoAsk}]

-----------------------------------------------------------------------------
(* The hook. *)
Quiet == [at |-> "idle"]

(* The functions a form may call. *)
Ops == {"approveUsdc", "approveUnits", "buyPrimary", "fillAsk", "makeAsk", "cancelAsk"}

TxTypeOK(Call) ==
  /\ tx \in [Forms -> {Quiet} \cup
                      [at: {"sending", "pending"}, call: Call] \cup
                      [at: {"confirmed"}, op: Ops]]
  /\ queue \in Seq([form: Forms \cup {None}, call: Call])
  /\ invalid \subseteq Reads
  \* a form waits for a receipt exactly as long as its transaction is in flight
  /\ \A f \in Forms :
       (tx[f].at = "pending") <=> (\E i \in DOMAIN queue : queue[i].form = f)

TxInit ==
  /\ tx = [f \in Forms |-> Quiet]
  /\ queue = <<>>
  /\ invalid = {}

Busy(f) == tx[f].at \in {"sending", "pending"}

(* send: the call is fixed by the render the button was pressed in. *)
Send(f, call) ==
  /\ ~Busy(f)
  /\ tx' = [tx EXCEPT ![f] = [at |-> "sending", call |-> call]]
  /\ UNCHANGED <<queue, invalid>>

(* simulateContract finds that the call succeeds, the wallet signs it. *)
Sign(f, succeeds) ==
  /\ tx[f].at = "sending"
  /\ succeeds
  /\ Len(queue) < MaxQueue
  /\ tx' = [tx EXCEPT ![f].at = "pending"]
  /\ queue' = Append(queue, [form |-> f, call |-> tx[f].call])
  /\ UNCHANGED invalid

(* The simulation reverts, or the wallet refuses. *)
Fail(f) ==
  /\ tx[f].at = "sending"
  /\ tx' = [tx EXCEPT ![f] = Quiet]
  /\ UNCHANGED <<queue, invalid>>

(* The page is left; what was signed stays on its way. *)
Leave(f) ==
  /\ tx[f].at = "pending"
  /\ tx' = [tx EXCEPT ![f] = Quiet]
  /\ queue' = [i \in DOMAIN queue |->
       IF queue[i].form = f THEN [queue[i] EXCEPT !.form = None] ELSE queue[i]]
  /\ UNCHANGED invalid

(* The next transaction is mined and its receipt seen.  A success invalidates
   every query; a revert ends the wait and leaves no message.  A form that was
   left does neither. *)
Receipt(succeeded) ==
  LET f == Head(queue).form
  IN  /\ queue' = Tail(queue)
      /\ tx' = IF f = None THEN tx
               ELSE [tx EXCEPT ![f] = IF succeeded THEN [at |-> "confirmed", op |-> Head(queue).call.op] ELSE Quiet]
      /\ invalid' = IF f # None /\ succeeded THEN Reads ELSE invalid

-----------------------------------------------------------------------------
(* What the page has read. *)

(* What a refetch of each query answers now. *)
OnChain ==
  [feeBps |-> feeBps, usdcAllowance |-> usdcAllowance, usdcBalance |-> usdc[Me],
   supply |-> totalSupply[Bond], asks |-> asks, bondAllowance |-> bondAllowance,
   held |-> balanceOf[Bond][Me]]

Known(q) == read[q] # Unread
ReadOr(q, default) == IF Known(q) THEN read[q] ELSE default

Calls ==
  [op: {"approveUsdc", "approveUnits"}, amount: Nat]
  \cup [op: {"buyPrimary"}, units: Amounts, shown: Nat \cup {None}, feeBps: Nat]
  \cup [op: {"fillAsk"}, askId: AskIds, units: Amounts, shown: Nat, feeBps: Nat]
  \cup [op: {"makeAsk"}, units: Amounts, priceBps: Prices]
  \cup [op: {"cancelAsk"}, askId: AskIds]

TradingTypeOK ==
  /\ TxTypeOK(Calls)
  /\ DOMAIN read = Reads
  /\ careful \in BOOLEAN

TradingInit ==
  /\ TxInit
  /\ read = [q \in Reads |-> Unread]
  /\ careful = TRUE

-----------------------------------------------------------------------------
(* A query is refetched: on mount, on focus, or because it was invalidated. *)
Refetch(q) ==
  /\ read' = [read EXCEPT ![q] = OnChain[q]]
  /\ invalid' = invalid \ {q}
  /\ UNCHANGED <<tx, queue, careful, chainVars, allowances>>

(* Mutants of FeeShown: rounded down, rounded up even when it divides. *)
FeeShownFloor(cost) == MulDivFloor(cost, ReadOr("feeBps", 0), Bps)
FeeShownAbove(cost) == MulDivFloor(cost, ReadOr("feeBps", 0), Bps) + 1

(* feeOn: the fee a form adds to a cost; none while the fee is not read. *)
FeeShown(cost) == MulDivCeil(cost, ReadOr("feeBps", 0), Bps)

ShownTotal(cost) == cost + FeeShown(cost)

(* needsApprove: an allowance that is not read is taken to suffice. *)
NeedsApprove(q, amount) == Known(q) /\ read[q] < amount

(* An order of a form: the approval it still needs, or the call itself. *)
Order(f, approve, q, amount, call) ==
  Send(f, IF NeedsApprove(q, amount) THEN [op |-> approve, amount |-> amount] ELSE call)

(* BuyForm, submit.  Until primaryCost answered for this amount the total is
   zero and nothing is shown. *)
Fund(units, priced) ==
  LET total == IF priced THEN ShownTotal(PrimaryCost(units)) ELSE 0
  IN  /\ Known("supply") /\ read.supply < Face
      /\ units <= Face - read.supply
      /\ Known("usdcBalance") => total <= read.usdcBalance
      /\ Order("fund", "approveUsdc", "usdcAllowance", total,
               [op |-> "buyPrimary", units |-> units, feeBps |-> ReadOr("feeBps", 0),
                shown |-> IF priced THEN total ELSE None])
      /\ UNCHANGED careful

(* AskRow, act: an ask of someone else. *)
Fill(id, units) ==
  /\ Known("asks") /\ read.asks[id].open
  /\ read.asks[id].maker # Me
  /\ units <= read.asks[id].units
  /\ LET total == ShownTotal(Cost(units, read.asks[id].priceBps))
     IN  Order("fill", "approveUsdc", "usdcAllowance", total,
               [op |-> "fillAsk", askId |-> id, units |-> units, shown |-> total,
                feeBps |-> ReadOr("feeBps", 0)])
  /\ UNCHANGED careful

(* AskRow, act, and the portfolio's AskRow: an own ask. *)
Cancel(id) ==
  /\ Known("asks") /\ read.asks[id].open
  /\ read.asks[id].maker = Me
  /\ Send("cancel", [op |-> "cancelAsk", askId |-> id])
  /\ UNCHANGED careful

(* The units of the wallet's open asks among some asks. *)
OpenUnits(all) ==
  Total([id \in AskIds |->
    IF all[id].open /\ all[id].maker = Me THEN all[id].units ELSE 0])

(* Mutant of Needed: the new ask alone. *)
NeededForNew(units) == units

(* The allowance the market needs: every open ask and the new one. *)
Needed(units) == units + (IF Known("asks") THEN OpenUnits(read.asks) ELSE 0)

(* SellForm, submit. *)
Sell(units, priceBps) ==
  /\ Known("held") /\ units <= read.held
  /\ priceBps \in 1 .. Bps
  /\ Order("sell", "approveUnits", "bondAllowance", Needed(units),
           [op |-> "makeAsk", units |-> units, priceBps |-> priceBps])
  /\ careful' = (careful /\ \A q \in {"asks", "bondAllowance"} : read[q] = OnChain[q])

Press ==
  /\ \/ \E units \in Amounts, priced \in BOOLEAN : Fund(units, priced)
     \/ \E id \in AskIds, units \in Amounts : Fill(id, units)
     \/ \E units \in Amounts, p \in Prices : Sell(units, p)
     \/ \E id \in AskIds : Cancel(id)
  /\ UNCHANGED <<read, chainVars, allowances>>

-----------------------------------------------------------------------------
(* The hooks and the wallet move on. *)
HookStep(f) ==
  /\ \/ /\ \/ tx[f].at = "sending" /\ Sign(f, Succeeds(tx[f].call))
           \/ Fail(f)
        /\ UNCHANGED careful
     \/ Leave(f) /\ careful' = FALSE
  /\ UNCHANGED <<read, chainVars, allowances>>

(* The next transaction of the wallet is mined: it does all it should, or it
   reverts. *)
MineNext ==
  /\ queue # <<>>
  /\ LET call == Head(queue).call
     IN  IF Succeeds(call)
           THEN Execute(call) /\ Receipt(TRUE)
           ELSE UNCHANGED <<chainVars, allowances>> /\ Receipt(FALSE)
  /\ UNCHANGED <<read, careful>>

TradingNext ==
  \/ \E q \in Reads : Refetch(q)
  \/ Press
  \/ \E f \in Forms : HookStep(f)
  \/ MineNext
=============================================================================
