---------------------------- MODULE OperatorScripts ----------------------------
(***************************************************************************)
(* Two of the operator's scripts.                                           *)
(*                                                                          *)
(* scripts/send-usdc.ts pays a demo wallet from the treasury.  It looks at   *)
(* the balance and at the association before it spends gas, sends, and waits *)
(* for the receipt.  Meanwhile the treasury pays others and the recipient    *)
(* associates itself or breaks its association.                              *)
(*                                                                          *)
(* scripts/verify-claims.ts checks what the repository says is live, one     *)
(* claim after another, and exits with 0 when none failed.  Networks and     *)
(* services go up and down while it runs.                                    *)
(*                                                                          *)
(* External: both chains, the RPC node, the mirror node, the HTS token, the  *)
(* public sites, the operator, who starts a script again where it stopped.   *)
(***************************************************************************)
EXTENDS Integers, Sequences, FiniteSets

CONSTANTS
  Amount,    \* what the operator asks to send
  Funds,     \* what the treasury holds at first
  MaxLost,   \* bound: transfers whose receipt did not come
  MaxTurns   \* bound: what the others do

VARIABLES
  sending,   \* where the script is
  inFlight,  \* transfers sent and not mined
  treasuryHolds, recipientHolds,
  associated,  \* the recipient has a relationship with the token
  said, lost,  \* history: runs that said "sent", and that ended awaiting a receipt
  turns

sendVars ==
  <<sending, inFlight, treasuryHolds, recipientHolds, associated, said, lost, turns>>

ASSUME SendConstants ==
  Amount \in Nat \ {0} /\ Funds \in Nat /\ MaxLost \in Nat /\ MaxTurns \in Nat

SendTypeOK ==
  /\ sending \in {"off", "balance", "association", "transfer", "receipt", "report", "reverted"}
  /\ inFlight \in 0 .. MaxLost + 1 /\ associated \in BOOLEAN
  /\ treasuryHolds \in 0 .. Funds /\ recipientHolds \in 0 .. Funds
  /\ said \in Nat /\ lost \in 0 .. MaxLost /\ turns \in 0 .. MaxTurns

SendInit ==
  /\ sending = "off" /\ inFlight = 0
  /\ treasuryHolds = Funds /\ recipientHolds = 0 /\ associated \in BOOLEAN
  /\ said = 0 /\ lost = 0 /\ turns = 0

Accounts == <<treasuryHolds, recipientHolds, associated, turns>>
SendStep(from, to) ==
  /\ sending = from /\ sending' = to
  /\ UNCHANGED <<inFlight, Accounts, said, lost>>

-----------------------------------------------------------------------------
(* The script is started with an address, an amount and a key; without one of
   them it ends here. *)
StartSending == \E from \in {"off", "reverted"} : SendStep(from, "balance")

CheckBalance == SendStep("balance", IF treasuryHolds < Amount THEN "off" ELSE "association")

(* associated *)
CheckAssociation == SendStep("association", IF associated THEN "transfer" ELSE "off")

SendTransfer ==
  /\ sending = "transfer" /\ sending' = "receipt"
  /\ inFlight' = inFlight + 1
  /\ UNCHANGED <<Accounts, said, lost>>

(* What the script makes of the receipt. *)
Told(accepted) ==
  /\ sending' = IF accepted THEN "report" ELSE "reverted"
  /\ said' = IF accepted THEN said + 1 ELSE said

(* A transfer is mined; the script awaits the last it sent. *)
MineTransfer ==
  LET accepted == associated /\ treasuryHolds >= Amount
  IN  /\ inFlight > 0 /\ inFlight' = inFlight - 1
      /\ treasuryHolds' = IF accepted THEN treasuryHolds - Amount ELSE treasuryHolds
      /\ recipientHolds' = IF accepted THEN recipientHolds + Amount ELSE recipientHolds
      /\ IF sending = "receipt" /\ inFlight = 1 THEN Told(accepted)
         ELSE UNCHANGED <<sending, said>>
      /\ UNCHANGED <<associated, turns, lost>>

ReportBalances == SendStep("report", "off")

(* A read or the transfer itself is refused or not answered: nobody catches it. *)
Unanswered == \E from \in {"balance", "association", "transfer", "report"} : SendStep(from, "off")

(* waitForTransactionReceipt gives up; the transfer may still be mined. *)
ReceiptLost ==
  /\ sending = "receipt" /\ lost < MaxLost
  /\ sending' = "off" /\ lost' = lost + 1
  /\ UNCHANGED <<inFlight, Accounts, said>>

TreasurySpends == treasuryHolds > 0 /\ treasuryHolds' = treasuryHolds - 1 /\ UNCHANGED associated
Associate == associated' = ~associated /\ UNCHANGED treasuryHolds

OthersTurn ==
  /\ turns < MaxTurns /\ turns' = turns + 1
  /\ TreasurySpends \/ Associate
  /\ UNCHANGED <<sending, inFlight, recipientHolds, said, lost>>

SendNext ==
  \/ StartSending \/ CheckBalance \/ CheckAssociation \/ SendTransfer \/ MineTransfer
  \/ ReportBalances \/ Unanswered \/ ReceiptLost \/ OthersTurn

-----------------------------------------------------------------------------
(* "So this checks the association before spending gas": a transfer only reverts
   where another one moved since the script looked, or one that it had given up
   on came through (send-usdc.ts:74-97). *)
RevertsAreRaces == sending = "reverted" => turns > 0 \/ lost > 0

(* "sent" is said of money that arrived, and what arrived beyond that is at most
   one amount for each run that ended before its receipt: running the script
   again after such a run may pay twice (send-usdc.ts:87-102). *)
SentIsThere ==
  /\ said * Amount <= recipientHolds
  /\ recipientHolds <= (said + lost) * Amount

-----------------------------------------------------------------------------
(* verify-claims.ts *)
CONSTANTS
  MaxDown,   \* bound: claims that do not hold at first
  MaxFlaps   \* bound: claims that change while it runs

ASSUME VerifyConstants == {MaxDown, MaxFlaps} \subseteq Nat

(* The checks in the script's order.  Three contracts on each chain are one
   claim here, and so are the two checks of one answer of the paid resource. *)
Order == <<"code", "hederaTx", "arcTx", "supply", "topic", "paid", "surface", "csp">>
Claims == {Order[i] : i \in DOMAIN Order}

VARIABLES
  checking,  \* the index of the claim it is at
  failures,
  ending,    \* how the script ended, if it did
  named,     \* the claims that the documents make
  holds,     \* those that hold now
  wasTrue, wasFalse,  \* history: claims that held, and did not, during the run
  silent,    \* history: a service did not answer
  flaps

verifyVars == <<checking, failures, ending, named, holds, wasTrue, wasFalse, silent, flaps>>

VerifyTypeOK ==
  /\ checking \in DOMAIN Order /\ ending \in {"runs", "threw", "exit0", "exit1"}
  /\ failures \in 0 .. Len(Order)
  /\ named \subseteq Claims /\ holds \subseteq Claims
  /\ wasTrue \cup wasFalse = Claims /\ silent \in BOOLEAN /\ flaps \in 0 .. MaxFlaps

(* The transactions are those that contracts/README.md links, the security the
   first one of the deployments file: there may be none. *)
VerifyInit ==
  /\ checking = 1 /\ failures = 0 /\ ending = "runs"
  /\ named \in {Claims \ none : none \in SUBSET {"hederaTx", "arcTx", "supply"}}
  /\ holds \in {Claims \ down : down \in {d \in SUBSET Claims : Cardinality(d) <= MaxDown}}
  /\ wasTrue = holds /\ wasFalse = Claims \ holds
  /\ silent = FALSE /\ flaps = 0

World == <<named, holds, wasTrue, wasFalse, flaps>>
IsAt(claims) == ending = "runs" /\ Order[checking] \in claims
Go ==
  IF checking < Len(Order) THEN checking' = checking + 1 /\ UNCHANGED ending
  ELSE ending' = (IF failures' = 0 THEN "exit0" ELSE "exit1") /\ UNCHANGED checking

-----------------------------------------------------------------------------
(* check *)
Check(ok) == failures' = (IF ok THEN failures ELSE failures + 1) /\ Go

(* Fetches whose failure is caught where they are made. *)
Caught == {"hederaTx", "arcTx", "surface", "csp"}

(* A claim nobody makes is not checked. *)
SkipClaim ==
  /\ IsAt(Claims \ named)
  /\ failures' = failures /\ Go /\ UNCHANGED <<silent, World>>

(* The answer comes.  txResult asks the mirror node first: for a transaction of
   Arc its answer says nothing, so one that does not come is no matter. *)
Answered ==
  /\ IsAt(named)
  /\ Check(Order[checking] \in holds)
  /\ UNCHANGED <<silent, World>>

(* No answer: a failure of the claim where it is caught, the end of the script
   where it is not. *)
Unreachable ==
  /\ IsAt(named)
  /\ silent' = TRUE
  /\ IF Order[checking] \in Caught THEN Check(FALSE)
     ELSE ending' = "threw" /\ UNCHANGED <<checking, failures>>
  /\ UNCHANGED World

Flap(c) ==
  /\ ending = "runs" /\ flaps < MaxFlaps /\ flaps' = flaps + 1
  /\ holds' = IF c \in holds THEN holds \ {c} ELSE holds \cup {c}
  /\ wasTrue' = wasTrue \cup holds' /\ wasFalse' = wasFalse \cup (Claims \ holds')
  /\ UNCHANGED <<checking, failures, ending, named, silent>>

VerifyNext == SkipClaim \/ Answered \/ Unreachable \/ \E c \in Claims : Flap(c)

-----------------------------------------------------------------------------
(* "It exits non-zero if any claim fails": it exits with 0 only when each claim
   the documents make held at some moment of the run, whichever services were out
   of reach, and with 1 only when one did not or could not be asked
   (verify-claims.ts:30-34, 52-73, 80-166). *)
VerdictIsEarned ==
  /\ ending = "exit0" => named \subseteq wasTrue
  /\ ending = "exit1" => silent \/ named \cap wasFalse # {}
=============================================================================
