------------------------------- MODULE MCClients -------------------------------
(***************************************************************************)
(* One investor's clients while another investor trades: the forms of a      *)
(* bond's page, and the agent.  Each behaviour has the wallet at one desk,   *)
(* funding from the issuer, taking or cancelling asks, selling, or leaving   *)
(* it all to the agent: what they share is the wallet, and the desks write   *)
(* and read different things.                                                *)
(***************************************************************************)
EXTENDS WebTrading, Agent

CONSTANTS
  ann, bob,
  Cash,      \* what ann may hold when the agent starts
  Rates,     \* discount rates it may find
  Desks,     \* the desks of a run
  MaxMoves   \* bound: what others do

Opening == [a \in {ann, bob} |-> 3]

VARIABLES desk, moves

ASSUME ClientsAssumption ==
  /\ Me = ann /\ Other = bob
  /\ Face >= TheirUnits + 2 /\ 1 <= MaxRateBps /\ MaxAsks >= 2
  /\ Cash \subseteq Nat /\ Rates \subseteq 0 .. MaxRateBps /\ MaxMoves \in Nat
  /\ Desks \subseteq {"funding", "taking", "selling", "agent"}

vars == <<chainVars, allowances, tradingVars, agent, desk, moves>>

FormsAt ==
  [funding |-> {"fund"}, taking |-> {"fill", "cancel"}, selling |-> {"sell"}, agent |-> {}]
ReadAt ==
  [funding |-> {"feeBps", "usdcAllowance", "usdcBalance", "supply"},
   taking |-> {"feeBps", "usdcAllowance", "asks"},
   selling |-> {"asks", "bondAllowance", "held"},
   agent |-> {}]

(* The bond is one unit short of sold out where units are bought by hand. *)
OwnedAt == [funding |-> Face - TheirUnits - 1, taking |-> 2, selling |-> 2, agent |-> 0]
MakersAt == [funding |-> <<>>, taking |-> <<bob, ann>>, selling |-> <<>>, agent |-> <<>>]

Init ==
  /\ desk \in Desks
  /\ \E cash \in IF desk = "agent" THEN Cash ELSE {3},
        rate \in IF desk = "agent" THEN Rates ELSE {1} :
       InvestorInit(OwnedAt[desk], cash, rate, MakersAt[desk])
  /\ TradingInit /\ AgentInit
  /\ desk # "agent" => agent.mode = "dry"
  /\ moves = 0

AtDesk ==
  IF desk = "agent" THEN AgentNext /\ UNCHANGED tradingVars
  ELSE /\ TradingNext /\ UNCHANGED agent
       /\ \A f \in Forms \ FormsAt[desk] : tx'[f] = Quiet
       /\ \A q \in Reads \ ReadAt[desk] : read'[q] = Unread

Others ==
  /\ moves < MaxMoves
  /\ Elsewhere
  /\ UNCHANGED <<tradingVars, agent>>

Next ==
  \/ AtDesk /\ UNCHANGED <<desk, moves>>
  \/ Others /\ moves' = moves + 1 /\ UNCHANGED desk

Spec == Init /\ [][Next]_vars

(* Types; a hook waits for a receipt exactly as long as its transaction is
   in flight. *)
TypeOK == InvestorTypeOK /\ TradingTypeOK /\ AgentTypeOK

(* The market holds no units for an ask: it takes them from the maker when it
   is filled.  A wallet that enters its sales on current reads and waits for each
   has approved the units of all its open asks together, whoever fills what in
   between (asks.tsx, needed). *)
AsksCovered == careful => OpenUnits(asks) <= bondAllowance

(* A purchase takes exactly the total the form showed when it was entered,
   unless the fee was changed since or no price was shown yet. *)
PaysWhatItShowed ==
  [][Len(queue') < Len(queue) /\ usdc'[Me] < usdc[Me] =>
       LET call == Head(queue).call
       IN  \/ usdc[Me] - usdc'[Me] = call.shown
           \/ call.shown = None
           \/ feeBps # call.feeBps]_vars

(* An ask that its maker still stands behind.  Making one locks nothing, and no form
   reads whether it can be filled (InvoiceMarket.sol:197, 213-231). *)
Backed(id, units) ==
  /\ asks[id].open /\ units <= asks[id].units
  /\ units <= balanceOf[Bond][Other] /\ units <= theirAllowance
  /\ Other \notin isFrozen[Bond]

(* What a form sends is what the market accepts: an order whose total was shown
   under the fee that is due, of a wallet that is still allowed, and that allowance,
   balance and what is for sale cover, does not revert (feeOn in market.ts against
   _takeFee). *)
OrdersGoThrough ==
  \A f \in {"fund", "fill"} :
    LET call == tx[f].call
    IN  /\ tx[f].at = "sending"
        /\ call.op \in {"buyPrimary", "fillAsk"}
        /\ call.shown # None /\ call.feeBps = feeBps
        /\ call.shown <= usdcAllowance /\ call.shown <= usdc[Me]
        /\ Me \in isEligible[Bond]
        /\ IF call.op = "buyPrimary" THEN call.units <= Face - totalSupply[Bond]
           ELSE Backed(call.askId, call.units)
        => Succeeds(call)

(* A form that waits for its approval goes on to the order: whatever the wallet
   did to its allowance, the page has refetched it or is about to, unless it
   was left meanwhile (use-tx.ts, the effect on receipt.isSuccess). *)
AllowanceFollows ==
  careful /\ Known("usdcAllowance") /\ "usdcAllowance" \notin invalid
    => read.usdcAllowance = usdcAllowance

(* What the agent orders costs a base unit or two above its balance at most,
   whatever the fee, the rate and the balance (plan.ts, which divides by a unit
   price rounded up, against the total of index.ts, rounded up once more). *)
OverdraftIsDust ==
  agent.at = "approving" => agent.order.total <= agent.order.balance + 2

(* An order of the agent only reverts when someone else moved after its look
   at the chain, or when it does cost more than the balance. *)
AgentFunds ==
  agent.at = "reverted" => moves > 0 \/ agent.order.total > agent.order.balance

(* A run spends what it was told to: nothing with --dry, at most the price of
   the insights until it buys, and the total it printed when it does.  Only a run
   that got as far as its order leaves an approval behind (index.ts:53-56, 73-77,
   118-121, 186-204). *)
SpendsAsTold ==
  desk = "agent" =>
    /\ agent.cash - usdc[Me] <=
         (IF agent.mode = "dry" THEN 0 ELSE Price)
         + (IF agent.at = "funded" THEN agent.order.total ELSE 0)
    /\ usdcAllowance > 0 =>
         /\ agent.mode = "act" /\ agent.at \in {"buying", "funded", "reverted"}
         /\ usdcAllowance <= agent.order.total

(* "The agent never over-funds a bond and never orders more than it can pay
   for" (plan.ts:29). *)
OrdersWithinBalance ==
  agent.at = "approving" => agent.order.total <= agent.order.balance

(* Approvals suffice for what is sent next: an order after its approval, and the
   fills of every ask that is open (use-tx.ts, asks.tsx). *)
ApprovalsSuffice == AsksCovered /\ AllowanceFollows

(* The agent stays within what it was told to spend and has, up to the rounding
   (plan.ts, index.ts). *)
AgentInv == TypeOK /\ OverdraftIsDust /\ SpendsAsTold

(* What a form or the agent worked out is what the chain takes: an order only fails
   because of what others did (the fee, the allowlist, the last units, an ask that is not
   backed), of an allowance or a balance the form had not read, or as an agent's order
   above its balance (market.ts, use-tx.ts, index.ts). *)
OrdersSucceed == OrdersGoThrough /\ AgentFunds
=============================================================================
