------------------------- MODULE MaturitySettlement -------------------------
(***************************************************************************)
(* Repayment escrow and pro-rata claims for matured bonds                   *)
(* (contracts/src/MaturitySettlement.sol), on top of the market.  The owner *)
(* may rotate the settlement contract, so there is a set of them: each has  *)
(* its own repayments and deposits and all pull on the same bonds.          *)
(***************************************************************************)
EXTENDS InvoiceMarket

CONSTANT Grace  \* GRACE: how long after maturity an uncovered bond stays locked

VARIABLES
  repayments,  \* settlement -> invoice -> Repayment
  deposits,    \* settlement -> invoice -> payer -> USDC
  paidOut      \* history: settlement -> invoice -> sum of payouts in Claimed events

settlementVars == <<repayments, deposits, paidOut>>

ASSUME SettlementAssumption == Grace \in Nat

Repayment == [amount: Nat, supplySnapshot: Nat, settled: BOOLEAN]

SettlementTypeOK ==
  /\ repayments \in [Settlements -> [Invoices -> Repayment]]
  /\ deposits \in [Settlements -> [Invoices -> [Accounts -> Nat]]]
  /\ paidOut \in [Settlements -> [Invoices -> Nat]]

SettlementInit ==
  /\ repayments = [s \in Settlements |-> [i \in Invoices |->
       [amount |-> 0, supplySnapshot |-> 0, settled |-> FALSE]]]
  /\ deposits = [s \in Settlements |-> [i \in Invoices |-> [a \in Accounts |-> 0]]]
  /\ paidOut = [s \in Settlements |-> [i \in Invoices |-> 0]]

-----------------------------------------------------------------------------
(* r.amount += amount, or -= *)
Adjusted(r, amount) == [r EXCEPT !.amount = @ + amount]

(* r.supplySnapshot = supply; r.settled = true *)
Snapshotted(r, supply) ==
  [amount |-> r.amount, supplySnapshot |-> supply, settled |-> TRUE]

(* Mutant of RegisterRepayment: still open after settlement. *)
RegisterAnytime(payer, s, i, amount) ==
  /\ i \in invoiceIds
  /\ amount # 0
  /\ CanPay(usdc, payer, s, amount)
  /\ usdc' = Pay(usdc, payer, s, amount)
  /\ repayments' = [repayments EXCEPT ![s][i] = Adjusted(@, amount)]
  /\ deposits' = [deposits EXCEPT ![s][i][payer] = @ + amount]
  /\ UNCHANGED <<tokenVars, oracleVars, marketVars, now, paidOut>>

(* registerRepayment *)
RegisterRepayment(payer, s, i, amount) ==
  /\ i \in invoiceIds
  /\ amount # 0
  /\ ~repayments[s][i].settled
  /\ CanPay(usdc, payer, s, amount)
  /\ usdc' = Pay(usdc, payer, s, amount)
  /\ repayments' = [repayments EXCEPT ![s][i] = Adjusted(@, amount)]
  /\ deposits' = [deposits EXCEPT ![s][i][payer] = @ + amount]
  /\ UNCHANGED <<tokenVars, oracleVars, marketVars, now, paidOut>>

Matured(i) == listings[i].maturity <= now
PastGrace(i) == listings[i].maturity + Grace <= now

(* Mutant of CanSettle: an uncovered bond waits for its issuer for ever. *)
CanSettleNoGrace(caller, s, i) ==
  /\ i \in invoiceIds
  /\ Matured(i)
  /\ ~repayments[s][i].settled
  /\ repayments[s][i].amount # 0
  /\ totalSupply[i] # 0
  /\ totalSupply[i] <= repayments[s][i].amount \/ caller = listings[i].issuer

(* Mutant of CanSettle: settles a bond nobody holds. *)
CanSettleEmpty(caller, s, i) ==
  /\ i \in invoiceIds
  /\ Matured(i)
  /\ ~repayments[s][i].settled
  /\ repayments[s][i].amount # 0
  /\ \/ totalSupply[i] <= repayments[s][i].amount
     \/ PastGrace(i)
     \/ caller = listings[i].issuer

(* settle: when it is open to this caller. *)
CanSettle(caller, s, i) ==
  /\ i \in invoiceIds
  /\ Matured(i)
  /\ ~repayments[s][i].settled
  /\ repayments[s][i].amount # 0
  /\ totalSupply[i] # 0
  /\ \/ totalSupply[i] <= repayments[s][i].amount
     \/ PastGrace(i)
     \/ caller = listings[i].issuer

(* settle *)
Settle(caller, s, i) ==
  /\ CanSettle(caller, s, i)
  /\ repayments' = [repayments EXCEPT ![s][i] = Snapshotted(@, totalSupply[i])]
  /\ UNCHANGED <<tokenVars, oracleVars, marketVars, now, usdc, deposits, paidOut>>

(* withdrawRepayment: when a payer may take a deposit back. *)
CanWithdraw(payer, s, i) ==
  /\ i \in invoiceIds
  /\ ~repayments[s][i].settled
  /\ Matured(i)
  /\ totalSupply[i] = 0
  /\ deposits[s][i][payer] # 0

(* Mutant of WithdrawRepayment: the deposit is not cleared. *)
WithdrawAgain(payer, s, i) ==
  LET amount == deposits[s][i][payer]
  IN  /\ CanWithdraw(payer, s, i)
      /\ CanPay(usdc, s, payer, amount)
      /\ usdc' = Pay(usdc, s, payer, amount)
      /\ repayments' = [repayments EXCEPT ![s][i] = Adjusted(@, -amount)]
      /\ UNCHANGED <<tokenVars, oracleVars, marketVars, now, deposits, paidOut>>

(* withdrawRepayment *)
WithdrawRepayment(payer, s, i) ==
  LET amount == deposits[s][i][payer]
  IN  /\ CanWithdraw(payer, s, i)
      /\ CanPay(usdc, s, payer, amount)
      /\ usdc' = Pay(usdc, s, payer, amount)
      /\ deposits' = [deposits EXCEPT ![s][i][payer] = 0]
      /\ repayments' = [repayments EXCEPT ![s][i] = Adjusted(@, -amount)]
      /\ UNCHANGED <<tokenVars, oracleVars, marketVars, now, paidOut>>

(* Mutants of Share: rounded up; a share of all the contract's USDC. *)
ShareRoundedUp(s, i, units) ==
  MulDivCeil(repayments[s][i].amount, units, repayments[s][i].supplySnapshot)
ShareOfEverything(s, i, units) ==
  MulDivFloor(usdc[s], units, repayments[s][i].supplySnapshot)

(* claim, claimable: the holder's share of the repayment, rounded down. *)
Share(s, i, units) ==
  MulDivFloor(repayments[s][i].amount, units, repayments[s][i].supplySnapshot)

(* claim: burns every unit of the holder and pays its share. *)
Claim(holder, s, i) ==
  LET units == balanceOf[i][holder]
      payout == Share(s, i, units)
  IN  /\ i \in invoiceIds
      /\ repayments[s][i].settled
      /\ units # 0
      /\ Burn(i, s, holder, units)
      /\ CanPay(usdc, s, holder, payout)
      /\ usdc' = Pay(usdc, s, holder, payout)
      /\ paidOut' = [paidOut EXCEPT ![s][i] = @ + payout]
      /\ UNCHANGED <<oracleVars, marketVars, now, repayments, deposits>>

-----------------------------------------------------------------------------
SettlementNext ==
  \E a \in Accounts, s \in Settlements, i \in Invoices :
    \/ \E amount \in Amounts : RegisterRepayment(a, s, i, amount)
    \/ Settle(a, s, i)
    \/ WithdrawRepayment(a, s, i)
    \/ Claim(a, s, i)
=============================================================================
