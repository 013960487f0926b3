------------------------------- MODULE Visitor -------------------------------
(***************************************************************************)
(* What stands between a visitor and an order: a connected wallet, the right *)
(* network, a place on the allowlist and, on Hedera, an account associated   *)
(* with USDC (components/wallet-button.tsx, buy-form.tsx, asks.tsx,          *)
(* lib/association.ts).  The form knows the last two only from reads it      *)
(* caches per wallet: the allowlist from the chain, the association from a   *)
(* mirror node that lags behind it.  The API takes a wallet off the list     *)
(* again when its review turns out otherwise.                                *)
(***************************************************************************)
EXTENDS Naturals

CONSTANTS
  Visitors,  \* accounts of the visitor's wallet
  NoOne,
  MaxUpsets  \* bound: changes in the wallet, refusals, failed reads and
             \* transactions, revocations

ASSUME VisitorAssumption == NoOne \notin Visitors /\ MaxUpsets \in Nat

VARIABLES
  at,           \* [account, onChain]: what wagmi knows of the wallet
  dialog,       \* the wallet dialog that is open
  allowed,      \* accounts on the bond's allowlist
  associated,   \* accounts associated with USDC
  mirrored,     \* those of them the mirror node lists
  known,        \* cached answers, per account
  reads,        \* answers on their way: [who, of, says]
  associating,  \* the account whose association the form waits for
  overtaken,    \* history: accounts taken off the allowlist since the chain was asked
                \* for the answer in the cache, and for the one on its way
  upsets
visitorVars == <<at, dialog, allowed, associated, mirrored, known, reads, associating, overtaken,
  upsets>>

Gates == {"eligible", "associated"}
Said == {"unknown", "yes", "no"}

VisitorTypeOK ==
  /\ at \in [account : Visitors \cup {NoOne}, onChain : BOOLEAN]
  /\ dialog \in {"none", "connect", "switch"}
  /\ allowed \subseteq Visitors /\ mirrored \subseteq associated /\ associated \subseteq Visitors
  /\ known \in [Visitors -> [Gates -> Said]]
  /\ reads \subseteq [who : Visitors, of : Gates, says : Said]
  /\ overtaken \in [cached : SUBSET Visitors, asked : SUBSET Visitors]
  /\ associating \in Visitors \cup {NoOne} /\ upsets \in 0 .. MaxUpsets

(* The wallet the pages read for: none on another network. *)
Wallet == IF at.onChain THEN at.account ELSE NoOne

(* The header's button; "menu" is the connected wallet's. *)
HeaderButton ==
  IF at.account = NoOne THEN "connect" ELSE IF ~at.onChain THEN "switch" ELSE "menu"

(* The button under the order form.  A read that never came blocks the order
   when it is about the allowlist, and nothing when it is about USDC. *)
OrderButton ==
  IF HeaderButton # "menu" THEN HeaderButton
  ELSE LET said == known[Wallet] IN
       CASE said["eligible"] = "no" -> "verify"
         [] OTHER -> IF said["associated"] = "no" THEN "associate"
                     ELSE IF said["eligible"] = "unknown" THEN "wait" ELSE "order"

(* What the portfolio and the issuer's dashboard show instead of themselves. *)
PortfolioGate == IF HeaderButton = "menu" THEN "page" ELSE HeaderButton
IssuerGate == IF at.account = NoOne THEN "connect" ELSE "page"

(* The button of another holder's ask does not tell another network from no
   wallet. *)
RowButton ==
  IF Wallet = NoOne THEN "connect" ELSE IF known[Wallet]["eligible"] = "no" THEN "verify" ELSE "fill"

VisitorInit ==
  /\ at = [account |-> NoOne, onChain |-> FALSE] /\ dialog = "none"
  /\ allowed = {} /\ associated = {} /\ mirrored = {}
  /\ known = [v \in Visitors |-> [g \in Gates |-> "unknown"]]
  /\ reads = {} /\ associating = NoOne /\ upsets = 0
  /\ overtaken = [cached |-> {}, asked |-> {}]

Upset == upsets < MaxUpsets /\ upsets' = upsets + 1
ledgerOfGates == <<allowed, associated, mirrored>>
formVars == <<known, reads, associating, overtaken>>

(* A connected wallet refuses to connect again: nothing opens. *)
Press(button) ==
  /\ dialog = "none" /\ button \in {"connect", "switch"}
  /\ button \in {HeaderButton, OrderButton, PortfolioGate, IssuerGate, RowButton}
  /\ button = "connect" => at.account = NoOne
  /\ dialog' = button
  /\ UNCHANGED <<at, ledgerOfGates, formVars, upsets>>

Connect(v, onChain) ==
  /\ dialog = "connect" /\ at' = [account |-> v, onChain |-> onChain] /\ dialog' = "none"
  /\ UNCHANGED <<ledgerOfGates, formVars, upsets>>

SwitchChain ==
  /\ dialog = "switch" /\ at' = [at EXCEPT !.onChain = TRUE] /\ dialog' = "none"
  /\ UNCHANGED <<ledgerOfGates, formVars, upsets>>

Decline == Upset /\ dialog # "none" /\ dialog' = "none" /\ UNCHANGED <<at, ledgerOfGates, formVars>>

(* In the wallet itself, or the menu's Disconnect. *)
Disconnect ==
  /\ Upset /\ at.account # NoOne /\ dialog' = "none"
  /\ at' = [account |-> NoOne, onChain |-> FALSE] /\ UNCHANGED <<ledgerOfGates, formVars>>
OtherAccount(v) ==
  /\ Upset /\ at.account \notin {NoOne, v} /\ at' = [at EXCEPT !.account = v]
  /\ UNCHANGED <<dialog, ledgerOfGates, formVars>>
OtherNetwork ==
  /\ Upset /\ at.onChain /\ at' = [at EXCEPT !.onChain = FALSE]
  /\ UNCHANGED <<dialog, ledgerOfGates, formVars>>

(* The wizard the link leads to ends with the allowlist. *)
Verify ==
  /\ OrderButton = "verify" /\ allowed' = allowed \cup {Wallet}
  /\ UNCHANGED <<at, dialog, associated, mirrored, formVars, upsets>>

(* Taken off the list: ensureRevoked, on every bond. *)
Revoke(v) ==
  /\ Upset /\ v \in allowed /\ allowed' = allowed \ {v}
  /\ overtaken' = [cached |-> overtaken.cached \cup {v}, asked |-> overtaken.asked \cup {v}]
  /\ UNCHANGED <<at, dialog, associated, mirrored, known, reads, associating>>

Truth(v, g) ==
  IF v \in (IF g = "eligible" THEN allowed ELSE mirrored) THEN "yes" ELSE "no"

(* The wallet's answer on its way is the latest again. *)
AskedNow(g) == IF g = "eligible" THEN overtaken.asked \ {Wallet} ELSE overtaken.asked

(* Mutant of AskRead: an answer is never asked for again. *)
AskReadOnce(g) ==
  /\ Wallet # NoOne /\ known[Wallet][g] = "unknown"
  /\ ~\E r \in reads : r.who = Wallet /\ r.of = g
  /\ reads' = reads \cup {[who |-> Wallet, of |-> g, says |-> Truth(Wallet, g)]}
  /\ overtaken' = [overtaken EXCEPT !.asked = AskedNow(g)]
  /\ UNCHANGED <<at, dialog, ledgerOfGates, known, associating, upsets>>

(* On mount, when the wallet changes and when the window is looked at again; one
   read per wallet and question is in flight. *)
AskRead(g) ==
  /\ Wallet # NoOne /\ ~\E r \in reads : r.who = Wallet /\ r.of = g
  /\ reads' = reads \cup {[who |-> Wallet, of |-> g, says |-> Truth(Wallet, g)]}
  /\ overtaken' = [overtaken EXCEPT !.asked = AskedNow(g)]
  /\ UNCHANGED <<at, dialog, ledgerOfGates, known, associating, upsets>>

(* The wallet is part of the query's key. *)
FileUnder(r) == r.who

Overtook(r) ==
  IF r.of = "eligible" THEN (overtaken.cached \ {r.who}) \cup ({r.who} \cap overtaken.asked)
  ELSE overtaken.cached

(* A failed read keeps what was known: no answer is invented. *)
AnswerRead(r) ==
  /\ r \in reads /\ reads' = reads \ {r}
  /\ \/ /\ known' = [known EXCEPT ![FileUnder(r)][r.of] = r.says]
        /\ overtaken' = [overtaken EXCEPT !.cached = Overtook(r)] /\ UNCHANGED upsets
     \/ Upset /\ UNCHANGED <<known, overtaken>>
  /\ UNCHANGED <<at, dialog, ledgerOfGates, associating>>

PressAssociate ==
  /\ OrderButton = "associate" /\ associating = NoOne /\ associating' = Wallet
  /\ UNCHANGED <<at, dialog, ledgerOfGates, known, reads, overtaken, upsets>>

(* The receipt invalidates every query: what is in flight is dropped and the
   wallet's reads start over, at a mirror that may not know yet.  Associating
   twice is no error: the token's facade answers a code. *)
AssociateEnds ==
  /\ associating # NoOne /\ associating' = NoOne
  /\ \/ /\ associated' = associated \cup {associating}
        /\ reads' = IF Wallet = NoOne THEN {}
                    ELSE {[who |-> Wallet, of |-> g, says |-> Truth(Wallet, g)] : g \in Gates}
        /\ overtaken' = [overtaken EXCEPT !.asked = @ \ {Wallet}] /\ UNCHANGED upsets
     \/ Upset /\ UNCHANGED <<associated, reads, overtaken>>
  /\ UNCHANGED <<at, dialog, allowed, mirrored, known>>

MirrorCatchesUp ==
  /\ mirrored # associated /\ mirrored' = associated
  /\ UNCHANGED <<at, dialog, allowed, associated, formVars, upsets>>

Pressing == \E b \in {"connect", "switch"} : Press(b)
WalletAnswers == SwitchChain \/ \E v \in Visitors, c \in BOOLEAN : Connect(v, c)
Asking == \E g \in Gates : AskRead(g)
Answering == \E r \in reads : AnswerRead(r)
Revoking == \E v \in Visitors : Revoke(v)
Straying == Decline \/ Disconnect \/ OtherNetwork \/ \E v \in Visitors : OtherAccount(v)

VisitorNext ==
  \/ Pressing \/ WalletAnswers \/ Verify \/ PressAssociate \/ AssociateEnds \/ MirrorCatchesUp
  \/ Asking \/ Answering \/ Straying \/ Revoking

(* An order is offered only to a wallet that was on the allowlist when the chain
   was asked about that very wallet, whichever wallet was connected when the answer
   came; one that was taken off the list since keeps the offer until the form asks
   again, and the contract refuses it (buy-form.tsx:82-91, 218, 240-247). *)
OrdersAreForTheAllowed == OrderButton = "order" => at.account \in allowed \cup overtaken.cached

(* A visitor who presses what the form offers ends up before an order its wallet
   is allowed and associated for, or before the identity check if the wallet is
   not on the allowlist; although the mirror node lags behind the association,
   reads are cached and the list changes (buy-form.tsx:207-248,
   association.ts:44-60, use-tx.ts:37-40). *)
VisitorsGetToOrder ==
  <>[](\/ OrderButton = "order" /\ at.account \in allowed \cap mirrored
       \/ OrderButton = "verify" /\ at.account \notin allowed)
=============================================================================
