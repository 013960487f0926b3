-------------------------------- MODULE AtsTool --------------------------------
(***************************************************************************)
(* apps/ats: the operator's command line for issuing an invoice as a         *)
(* regulated security.  Each command is a process of its own that reads and  *)
(* sends in turn; it may stop between any two steps, with what it sent still *)
(* on its way, and is run again.                                             *)
(*                                                                           *)
(* External: Asset Tokenization Studio - its factory, and securities that    *)
(* refuse to repeat what is done and to issue to whom is not allowed - and   *)
(* the network, which mines the operator's transactions in nonce order.      *)
(***************************************************************************)
EXTENDS Integers, FiniteSets, SequencesExt

CONSTANTS
  References,   \* invoices
  Subjects,     \* accounts the operator allows
  Idle,         \* no command runs
  MaxTokens,    \* bound: securities deployed
  MaxStops,     \* bound: commands that stop early
  MaxExpiries,  \* bound: grants that expire
  IsinBodies    \* identifiers checked, without their check digit

VARIABLES
  command,    \* the command that runs: its next or current call
  wire,       \* transactions sent and not mined, in nonce order
  securities, \* the reference each deployed security was issued for, in order
  atsBonds,   \* the deployments file: reference -> security, 0 without one
  issuers,    \* securities the operator is a credential issuer of
  kyc,        \* pairs of security and account with a grant
  allowlist,  \* pairs on the control list
  held,       \* pairs that units were issued to
  spoilt      \* counters: stops, expiries, and transactions of allow that reverted

atsVars == <<command, wire, securities, atsBonds, issuers, kyc, allowlist, held, spoilt>>
tokenVars == <<issuers, kyc, allowlist, held>>

Tokens == 1 .. MaxTokens
Pairs == Tokens \X Subjects
AllowCalls == {"addIssuer", "grantKyc", "addToControlList"}
Call == [op: {"deployBond"}, ref: References]
        \cup [op: AllowCalls \cup {"mint"}, pair: Pairs]
Commands == [call: Call, sent: BOOLEAN] \cup [record: Tokens]

ASSUME AtsAssumption == Idle \notin Commands /\ MaxTokens \in Nat

AtsTypeOK ==
  /\ command \in Commands \cup {Idle}
  /\ wire \in Seq(Call)
  /\ securities \in Seq(References) /\ Len(securities) <= MaxTokens
  /\ \A r \in References : atsBonds[r] # 0 => securities[atsBonds[r]] = r
  /\ issuers \subseteq DOMAIN securities
  /\ kyc \cup allowlist \cup held \subseteq issuers \X Subjects

AtsInit ==
  /\ command = Idle /\ wire = <<>> /\ securities = <<>>
  /\ atsBonds = [r \in References |-> 0]
  /\ issuers = {} /\ kyc = {} /\ allowlist = {} /\ held = {}
  /\ spoilt = [stops |-> 0, expiries |-> 0, reverts |-> 0]

To(op, p) == [call |-> [op |-> op, pair |-> p], sent |-> FALSE]
Allowed == kyc \cap allowlist

-----------------------------------------------------------------------------
(* The operator starts a command: issue for an invoice without a security on
   record, record for one that was left out, allow, or mint. *)
StartIssue(r) ==
  /\ command = Idle /\ atsBonds[r] = 0 /\ Len(securities) + Len(wire) < MaxTokens
  /\ command' = [call |-> [op |-> "deployBond", ref |-> r], sent |-> FALSE]
  /\ UNCHANGED <<wire, securities, atsBonds, tokenVars, spoilt>>

StartRecord(t) ==
  /\ command = Idle /\ atsBonds[securities[t]] = 0
  /\ command' = [record |-> t]
  /\ UNCHANGED <<wire, securities, atsBonds, tokenVars, spoilt>>

StartAllow(p) ==
  /\ command = Idle /\ p[1] \in DOMAIN securities
  /\ command' = To("addIssuer", p)
  /\ UNCHANGED <<wire, securities, atsBonds, tokenVars, spoilt>>

StartMint(p) ==
  /\ command = Idle /\ p \in Allowed \ held
  /\ command' = To("mint", p)
  /\ UNCHANGED <<wire, securities, atsBonds, tokenVars, spoilt>>

-----------------------------------------------------------------------------
(* Mutant of AlreadyDone: the operator registers itself for every account. *)
AlreadyDoneButIssuer(call) ==
  \/ call.op = "grantKyc" /\ call.pair \in kyc
  \/ call.op = "addToControlList" /\ call.pair \in allowlist

(* What allow reads before each call. *)
AlreadyDone(call) ==
  \/ call.op = "addIssuer" /\ call.pair[1] \in issuers
  \/ call.op = "grantKyc" /\ call.pair \in kyc
  \/ call.op = "addToControlList" /\ call.pair \in allowlist

(* The command once a call is done or skipped. *)
Following(call) ==
  CASE call.op = "addIssuer" -> To("grantKyc", call.pair)
    [] call.op = "grantKyc" -> To("addToControlList", call.pair)
    [] OTHER -> Idle

(* A step of allow that is done is skipped; any other call is sent. *)
Proceed ==
  /\ command # Idle /\ "call" \in DOMAIN command /\ ~command.sent
  /\ IF AlreadyDone(command.call)
       THEN command' = Following(command.call) /\ UNCHANGED wire
       ELSE command' = [command EXCEPT !.sent = TRUE] /\ wire' = Append(wire, command.call)
  /\ UNCHANGED <<securities, atsBonds, tokenVars, spoilt>>

(* The security takes the call. *)
Accepted(call) ==
  CASE call.op = "deployBond" -> TRUE
    [] call.op = "addIssuer" -> call.pair[1] \notin issuers
    [] call.op = "grantKyc" -> call.pair[1] \in issuers /\ call.pair \notin kyc
    [] call.op = "addToControlList" -> call.pair \notin allowlist
    [] call.op = "mint" -> call.pair \in Allowed

Effect(call) ==
  /\ securities' = IF call.op = "deployBond" THEN Append(securities, call.ref) ELSE securities
  /\ issuers' = IF call.op = "addIssuer" THEN issuers \cup {call.pair[1]} ELSE issuers
  /\ kyc' = IF call.op = "grantKyc" THEN kyc \cup {call.pair} ELSE kyc
  /\ allowlist' = IF call.op = "addToControlList" THEN allowlist \cup {call.pair} ELSE allowlist
  /\ held' = IF call.op = "mint" THEN held \cup {call.pair} ELSE held

(* The next transaction is mined.  A command waits for the last one that was
   sent; a revert ends it. *)
MineCall ==
  /\ wire # <<>> /\ wire' = Tail(wire)
  /\ LET call == Head(wire)
         awaited == Len(wire) = 1 /\ command = [call |-> call, sent |-> TRUE]
     IN  IF Accepted(call)
           THEN /\ Effect(call) /\ UNCHANGED spoilt
                /\ command' = IF ~awaited THEN command
                              ELSE IF call.op = "deployBond" THEN [record |-> Len(securities) + 1]
                              ELSE Following(call)
           ELSE /\ spoilt' = [spoilt EXCEPT !.reverts = @ + (IF call.op \in AllowCalls THEN 1 ELSE 0)]
                /\ command' = IF awaited THEN Idle ELSE command
                /\ UNCHANGED <<securities, tokenVars>>
  /\ UNCHANGED atsBonds

(* recordAtsBond *)
recordAtsBond ==
  /\ command # Idle /\ "record" \in DOMAIN command
  /\ atsBonds' = [atsBonds EXCEPT ![securities[command.record]] = command.record]
  /\ command' = Idle
  /\ UNCHANGED <<wire, securities, tokenVars, spoilt>>

(* A read or a wait fails, or the process is killed. *)
CommandStops ==
  /\ command # Idle /\ spoilt.stops < MaxStops
  /\ command' = Idle /\ spoilt' = [spoilt EXCEPT !.stops = @ + 1]
  /\ UNCHANGED <<wire, securities, atsBonds, tokenVars>>

(* A year later. *)
GrantExpires(p) ==
  /\ p \in kyc /\ spoilt.expiries < MaxExpiries
  /\ kyc' = kyc \ {p} /\ spoilt' = [spoilt EXCEPT !.expiries = @ + 1]
  /\ UNCHANGED <<command, wire, securities, atsBonds, issuers, allowlist, held>>

AtsNext ==
  \/ Proceed \/ MineCall \/ recordAtsBond \/ CommandStops
  \/ \E r \in References : StartIssue(r)
  \/ \E t \in DOMAIN securities : StartRecord(t)
  \/ \E p \in Pairs : StartAllow(p) \/ StartMint(p) \/ GrantExpires(p)

(* A command goes on, transactions are mined, and the operator runs allow again
   and again for whom it wants to allow. *)
AtsFairness ==
  /\ WF_atsVars(Proceed \/ recordAtsBond) /\ WF_atsVars(MineCall)
  /\ \A p \in Pairs : SF_atsVars(p \notin Allowed /\ StartAllow(p))

-----------------------------------------------------------------------------
(* A security that no page shows is owed to a command that stopped before it
   recorded it, one per stop; running issue again deploys another one for the
   same invoice (index.ts:43-67, record.ts:22-33). *)
StrayAreStops ==
  Cardinality({t \in DOMAIN securities : \A r \in References : atsBonds[r] # t})
    <= spoilt.stops + (IF command # Idle /\ "record" \in DOMAIN command THEN 1 ELSE 0)

(* "Each step is skipped when already done, so this is safe to re-run"
   (ats.ts:128-132): allow reverts only behind a call that an earlier run gave
   up waiting for, once per run that stopped. *)
ReRunIsSafe == spoilt.reverts <= spoilt.stops

(* An account the operator keeps allowing comes to be allowed, whichever runs
   stopped half way, whatever was mined late, and again after its grant expired
   (ats.ts:133-185). *)
AllowComesThrough ==
  \A p \in Pairs : p[1] \in DOMAIN securities ~> p \in Allowed

------------------------------------------------------------------------------
(* The check digit of a security's identifier (isin.ts).  A character is its
   value, 0 to 35; the identifiers checked are short ones, as the rule does not
   depend on the length. *)

(* expand: letters become their two digits. *)
expand(body) ==
  FlattenSeq([i \in DOMAIN body |->
    IF body[i] < 10 THEN <<body[i]>> ELSE <<body[i] \div 10, body[i] % 10>>])

Doubled(d) == IF 2 * d > 9 THEN 2 * d - 9 ELSE 2 * d

(* checkDigit: every second digit from the right is doubled. *)
checkDigit(body) ==
  LET ds == expand(body)
      n == Len(ds)
      sum == FoldLeftDomain(LAMBDA s, i :
               s + (IF (n - i) % 2 = 0 THEN Doubled(ds[i]) ELSE ds[i]), 0, ds)
  IN  (10 - (sum % 10)) % 10

isValidIsin(isin) == checkDigit(SubSeq(isin, 1, Len(isin) - 1)) = isin[Len(isin)]

(* The standard's rule: 17 digits' worth of weights, 1 for the check digit and
   then 2 and 1 in turn, and digit sums that are a multiple of ten. *)
Luhn(digits) ==
  LET Weighted(i) == digits[i] * (1 + ((Len(digits) - i) % 2))
      sum == FoldLeftDomain(LAMBDA s, i : s + (Weighted(i) \div 10) + (Weighted(i) % 10), 0, digits)
  IN  sum % 10 = 0

(* Every identifier the tool derives passes the standard's rule, and no other
   check digit does; the factory rejects the rest (isin.ts:1-57). *)
DerivedIsinsAreValid ==
  \A body \in IsinBodies : \A d \in 0 .. 9 :
    /\ Luhn(expand(body \o <<d>>)) <=> d = checkDigit(body)
    /\ isValidIsin(body \o <<d>>) <=> d = checkDigit(body)
=============================================================================
