------------------------------- MODULE Issuance -------------------------------
(***************************************************************************)
(* The issuer's page (apps/web/src/components/issuer-form.tsx with           *)
(* lib/issuer.ts, requestQuote and attest of lib/api.ts and the useTx hook): *)
(* a form with two files read in the browser, a quote signed for the         *)
(* connected wallet, and a checklist that lists the bond and then anchors    *)
(* the document.                                                             *)
(*                                                                           *)
(* External: the wallet, the network, and the API's answers.                 *)
(***************************************************************************)
EXTENDS Integers, FiniteSets

CONSTANTS
  Issuers,        \* accounts the wallet can connect
  Files,          \* what can be picked
  Nothing,
  MaxPicks,       \* bound: files picked
  MaxMishaps      \* bound: switches, discards, failures, expiries and lost answers

VARIABLES
  account,    \* the connected account
  form,       \* picker -> the file named on screen and the one that was read
  picking,    \* reads of a picked file under way
  quoting,    \* Nothing or the request for a quote
  draft,      \* Nothing or the quoted draft of the checklist
  listTx,     \* the state of the checklist's useTx
  sender,     \* the account whose wallet client the listing was sent with
  sent,       \* listing transactions signed and not mined
  listed,     \* is the invoice listed on chain
  anchoring,  \* the state of the anchor step
  anchors,    \* what reached the topic for this invoice
  overlapped, \* history: a file was picked while another was being read
  mishaps     \* counters against the bounds

issuanceVars == <<account, form, picking, quoting, draft, listTx, sender, sent,
                  listed, anchoring, anchors, overlapped, mishaps>>
pageVars == <<form, picking, quoting, draft, anchoring>>
listingVars == <<listTx, sender>>
ledgerVars == <<sent, listed, anchors>>

Pickers == {"document", "logo"}
EmptyForm == [p \in Pickers |-> [named |-> Nothing, read |-> Nothing]]
Attachments == [document: Files, logo: Files \cup {Nothing}]
Draft == [sends: Attachments, shows: Attachments, issuer: Issuers, expired: BOOLEAN]

ASSUME IssuanceAssumption == Nothing \notin Files \cup Draft

IssuanceTypeOK ==
  /\ account \in Issuers
  /\ form \in [Pickers -> [named: Files \cup {Nothing}, read: Files \cup {Nothing}]]
  /\ picking \subseteq Pickers \X Files
  /\ quoting \in Draft \cup {Nothing} /\ draft \in Draft \cup {Nothing}
  /\ listTx \in {"idle", "sending", "pending", "confirmed"}
  /\ sender \in Issuers /\ sent \in 0 .. 2 /\ listed \in BOOLEAN
  /\ anchoring \in {"idle", "working", "done", "failed", "taken", "disabled"}
  /\ anchors \subseteq Draft
  \* the checklist is worked on only while it is on screen
  /\ draft = Nothing => listTx = "idle" /\ anchoring = "idle"
  /\ anchoring # "idle" => listTx = "confirmed"

IssuanceInit ==
  /\ account \in Issuers
  /\ form = EmptyForm /\ picking = {}
  /\ quoting = Nothing /\ draft = Nothing
  /\ listTx = "idle" /\ sender = account /\ sent = 0 /\ listed = FALSE
  /\ anchoring = "idle" /\ anchors = {}
  /\ overlapped = FALSE
  /\ mishaps = [picks |-> 0, other |-> 0]

Mishap == mishaps.other < MaxMishaps /\ mishaps' = [mishaps EXCEPT !.other = @ + 1]

-----------------------------------------------------------------------------
(* onFile, onLogo: the field is cleared and the file is read. *)
Pick(p, f) ==
  /\ draft = Nothing /\ mishaps.picks < MaxPicks
  /\ form' = [form EXCEPT ![p] = [named |-> f, read |-> Nothing]]
  /\ picking' = picking \cup {<<p, f>>}
  /\ overlapped' = (overlapped \/ \E g \in Files : <<p, g>> \in picking)
  /\ mishaps' = [mishaps EXCEPT !.picks = @ + 1]
  /\ UNCHANGED <<account, quoting, draft, listingVars, ledgerVars, anchoring>>

(* sha256Hex or downscaleLogo is done; a logo may be too detailed. *)
FileRead(p, f) ==
  /\ <<p, f>> \in picking
  /\ picking' = picking \ {<<p, f>>}
  /\ \/ form' = [form EXCEPT ![p].read = f] /\ UNCHANGED mishaps
     \/ p = "logo" /\ UNCHANGED form /\ Mishap
  /\ UNCHANGED <<account, quoting, draft, listingVars, ledgerVars, anchoring, overlapped>>

(* submit: needs the hash and a wallet; the draft is what this render has. *)
SubmitInvoice ==
  /\ draft = Nothing /\ quoting = Nothing
  /\ form["document"].read # Nothing
  /\ quoting' = [sends |-> [p \in Pickers |-> form[p].read],
                 shows |-> [p \in Pickers |-> form[p].named],
                 issuer |-> account, expired |-> FALSE]
  /\ UNCHANGED <<account, form, picking, draft, listingVars, ledgerVars, anchoring, overlapped, mishaps>>

(* The quote replaces the form by the checklist, or the request fails. *)
Quoted ==
  /\ quoting # Nothing
  /\ quoting' = Nothing
  /\ \/ draft' = quoting /\ form' = EmptyForm /\ picking' = {} /\ UNCHANGED mishaps
     \/ UNCHANGED <<draft, form, picking>> /\ Mishap
  /\ UNCHANGED <<account, listingVars, ledgerVars, anchoring, overlapped>>

(* validUntil passes. *)
QuoteExpires ==
  /\ draft # Nothing /\ ~draft.expired /\ Mishap
  /\ draft' = [draft EXCEPT !.expired = TRUE]
  /\ UNCHANGED <<account, form, picking, quoting, listingVars, ledgerVars, anchoring, overlapped>>

SwitchAccount(a) ==
  /\ a # account /\ Mishap
  /\ account' = a
  /\ UNCHANGED <<pageVars, listingVars, ledgerVars, overlapped>>

(* "List on-chain". *)
List ==
  /\ draft # Nothing /\ listTx = "idle" /\ ~draft.expired
  /\ listTx' = "sending" /\ sender' = account
  /\ UNCHANGED <<account, pageVars, ledgerVars, overlapped, mishaps>>

(* listInvoice goes through for the issuer of the quote and a new invoice. *)
ListSucceeds == ~listed /\ ~draft.expired /\ sender = draft.issuer

(* send: simulated and signed, or an error on screen. *)
ListSent ==
  /\ listTx = "sending"
  /\ \/ ListSucceeds /\ sent < 2 /\ listTx' = "pending" /\ sent' = sent + 1 /\ UNCHANGED mishaps
     \/ ~ListSucceeds /\ listTx' = "idle" /\ UNCHANGED <<sent, mishaps>>
     \/ listTx' = "idle" /\ UNCHANGED sent /\ Mishap
  /\ UNCHANGED <<account, pageVars, sender, listed, anchors, overlapped>>

(* The wait for the receipt fails: the hook keeps the hash, is not busy and is
   not confirmed, and the transaction goes its way. *)
ReceiptLost ==
  /\ listTx = "pending" /\ Mishap
  /\ listTx' = "idle"
  /\ UNCHANGED <<account, pageVars, sender, ledgerVars, overlapped>>

(* Step 3 starts by itself as soon as the listing is confirmed. *)
Confirmed(ok) ==
  IF listTx # "pending" THEN UNCHANGED <<listTx, anchoring>>
  ELSE IF ok THEN listTx' = "confirmed" /\ anchoring' = "working"
  ELSE listTx' = "idle" /\ UNCHANGED anchoring

(* The next listing is mined, or reverts behind another or as a quote that ran
   out; the page waits for the last one it sent. *)
Mine ==
  LET Told(ok) == IF sent = 1 THEN Confirmed(ok) ELSE UNCHANGED <<listTx, anchoring>>
  IN  /\ sent > 0 /\ sent' = sent - 1
      /\ \/ ~listed /\ Told(TRUE) /\ listed' = TRUE /\ UNCHANGED mishaps
         \/ listed /\ Told(FALSE) /\ UNCHANGED <<listed, mishaps>>
         \/ ~listed /\ Told(FALSE) /\ UNCHANGED listed /\ Mishap
      /\ UNCHANGED <<account, form, picking, quoting, draft, sender, anchors, overlapped>>

(* attest answers: anchored; pledged elsewhere; no audit trail; or a failure,
   after which the record may be on the topic all the same. *)
Attested ==
  /\ anchoring = "working"
  /\ \/ anchoring' \in {"done"} /\ anchors' = anchors \cup {draft} /\ UNCHANGED mishaps
     \/ anchoring' \in {"taken", "disabled"} /\ UNCHANGED <<anchors, mishaps>>
     \/ anchoring' = "failed" /\ Mishap /\ anchors' \in {anchors, anchors \cup {draft}}
  /\ UNCHANGED <<account, form, picking, quoting, draft, listingVars, sent, listed, overlapped>>

(* Mutant of Retry: only for a document that is pledged. *)
RetryPledged ==
  /\ anchoring = "taken" /\ anchoring' = "working"
  /\ UNCHANGED <<account, form, picking, quoting, draft, listingVars, ledgerVars, overlapped, mishaps>>

(* Retry, for everything but a disabled audit trail. *)
Retry ==
  /\ anchoring \in {"failed", "taken"} /\ anchoring' = "working"
  /\ UNCHANGED <<account, form, picking, quoting, draft, listingVars, ledgerVars, overlapped, mishaps>>

(* "Discard this draft": not while a transaction is waited for, or after it. *)
Discard ==
  /\ draft # Nothing /\ listTx = "idle" /\ Mishap
  /\ draft' = Nothing
  /\ UNCHANGED <<account, form, picking, quoting, listingVars, ledgerVars, anchoring, overlapped>>

(* The page is reloaded: nothing of it is kept, what was sent stays on its way. *)
LeaveIssuer ==
  /\ Mishap
  /\ form' = EmptyForm /\ picking' = {} /\ quoting' = Nothing /\ draft' = Nothing
  /\ listTx' = "idle" /\ anchoring' = "idle"
  /\ anchors' \in {anchors} \cup (IF anchoring = "working" THEN {anchors \cup {draft}} ELSE {})
  /\ UNCHANGED <<account, sender, sent, listed, overlapped>>

-----------------------------------------------------------------------------
IssuerForward ==
  \/ SubmitInvoice \/ Quoted \/ List \/ ListSent \/ Mine \/ Attested
  \/ \E p \in Pickers, f \in Files : FileRead(p, f)
  \/ anchoring = "failed" /\ Retry

IssuanceNext ==
  \/ IssuerForward \/ Retry
  \/ \E p \in Pickers, f \in Files : Pick(p, f)
  \/ QuoteExpires \/ ReceiptLost \/ Discard \/ LeaveIssuer
  \/ \E a \in Issuers : SwitchAccount(a)

-----------------------------------------------------------------------------
(* What is anchored is what the form showed when the quote was asked for: the
   document it named, and its logo or none, unless a file was picked over one
   still being read (issuer-form.tsx:88-108, 143). *)
AnchorsWhatItNamed ==
  overlapped \/ \A d \in anchors :
    d.sends.document = d.shows.document /\ d.sends.logo \in {d.shows.logo, Nothing}

(* Nothing is on the topic for an invoice that is not on chain, whichever
   listings failed, reverted or were lost sight of before
   (issuer-form.tsx:348-355). *)
AnchoredIsListed == anchors # {} => listed

(* A listing the page saw confirmed gets its document anchored, or the page says
   that it is pledged elsewhere or the trail disabled, or is left; a failure in
   between is retried (issuer-form.tsx:339-355, 457-470). *)
ListedGetsAnchored ==
  listTx = "confirmed" ~>
    listTx = "idle" \/ anchoring \in {"taken", "disabled"} \/ anchors # {}
=============================================================================
