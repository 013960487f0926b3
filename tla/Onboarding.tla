------------------------------ MODULE Onboarding ------------------------------
(***************************************************************************)
(* The onboarding wizard of the web app (components/kyc-wizard.tsx with      *)
(* selfie-check-step.tsx, sumsub-websdk.tsx, lib/kyc.ts and lib/use-kyc.ts): *)
(* one page whose card follows the connected wallet, the answer to its       *)
(* status read and what the visitor has done so far.  Signatures, status     *)
(* reads and submissions are promises: they resolve later, into the page as  *)
(* it is then, also when the wallet was switched or the card is gone.        *)
(*                                                                           *)
(* External: the wallet (which account is connected, what it signs), the     *)
(* Sumsub widget and the review.  The API is reduced to its answers.         *)
(***************************************************************************)
EXTENDS Integers, FiniteSets

CONSTANTS
  Holders,      \* wallet addresses of the visitor
  None,
  Verdicts,     \* what a review comes to: KycStates
  MaxSwitches,  \* bound: connects, disconnects and switches
  MaxTrouble,   \* bound: failures, refusals, expiries, retries and reloads
  MaxDetours,   \* bound: steps back
  MaxCalls,     \* bound: signatures and submissions in flight
  MaxReads      \* bound: status reads in flight

VARIABLES
  ui,        \* React state of the page: wallet, override, auth, profile, widget, sdk
  cache,     \* query cache: wallet -> its status, None before the first answer
  failed,    \* wallets whose last status read failed
  reading,   \* answers of status reads on their way
  calls,     \* signatures and submissions in flight, and refusals on screen
  file,      \* the API: wallet -> its KycState
  docs,      \* wallets whose documents reached Sumsub
  selfieCheck,  \* is World access configured in this deployment
  late,      \* history: a promise resolved after its card or its wallet was left,
             \* or a status read was overtaken by a submission
  spent      \* counters against the bounds

onboardingVars == <<ui, cache, failed, reading, calls, file, docs, selfieCheck, late, spent>>
apiVars == <<file, docs, selfieCheck>>

Steps == {"welcome", "signin", "selfie", "profile", "declarations", "identity", "status"}
States == {"none", "pending", "held", "blocked", "granting", "granted"}
Auth == [of: Holders, by: Holders, fresh: BOOLEAN]

ASSUME OnboardingAssumption ==
  /\ None \notin Holders \cup Steps \cup States \cup Auth
  /\ Verdicts \subseteq States \ {"none"}

Landing(w) == [wallet |-> w, override |-> None, auth |-> None, profile |-> None,
               widget |-> "idle", sdk |-> "absent"]

OnboardingTypeOK ==
  /\ ui \in [wallet: Holders \cup {None}, override: Steps \cup {None},
             auth: Auth \cup {None}, profile: Holders \cup {None},
             widget: {"idle", "asked", "token", "open", "error"},
             sdk: {"absent", "ready", "dead"}]
  /\ cache \in [Holders -> States \cup {None}] /\ failed \subseteq Holders
  /\ reading \subseteq [of: Holders, status: States]
  /\ file \in [Holders -> States] /\ docs \subseteq Holders
  \* at most one promise keeps a button busy
  /\ \A x, y \in calls : x.on /\ y.on => x = y
  /\ calls \subseteq
       [kind: {"challenge"}, of: Holders, ahead: BOOLEAN, on: BOOLEAN]
       \cup [kind: {"prompt"}, of: Holders, by: Holders, ahead: BOOLEAN, on: BOOLEAN]
       \cup [kind: {"submit"}, auth: Auth, profile: Holders, of: Holders, on: BOOLEAN]
       \cup [kind: {"accepted"}, status: States, of: Holders, on: BOOLEAN]
       \cup [kind: {"refused"}, expired: BOOLEAN, on: {TRUE}]

OnboardingInit ==
  /\ ui = Landing(None)
  /\ cache = [w \in Holders |-> None] /\ failed = {}
  /\ reading = {}
  /\ calls = {}
  /\ file = [w \in Holders |-> "none"] /\ docs = {}
  /\ selfieCheck \in BOOLEAN
  /\ late = FALSE
  /\ spent = [switches |-> 0, trouble |-> 0, detours |-> 0]

Spend(what, bound) == spent[what] < bound /\ spent' = [spent EXCEPT ![what] = @ + 1]

-----------------------------------------------------------------------------
(* nextStep, for the steps the page goes on from. *)
After(s) ==
  CASE s = "signin" -> IF selfieCheck THEN "selfie" ELSE "profile"
    [] s = "selfie" -> "profile"
    [] s = "profile" -> "declarations"
    [] s = "declarations" -> "identity"
    [] s = "identity" -> "status"

InitialStep(state) == IF state = "none" THEN "welcome" ELSE "status"

Open(u, c) == u.wallet # None /\ c[u.wallet] \notin {None, "none"}

(* The current step; None while the status is read for the first time. *)
StepOf(u, c) ==
  IF u.override # None THEN u.override
  ELSE IF u.wallet = None THEN "welcome"
  ELSE IF c[u.wallet] = None THEN None
  ELSE InitialStep(c[u.wallet])

(* card(): what the active card of the wizard shows. *)
CardOf(u, c, f) ==
  LET step == StepOf(u, c)
  IN  IF u.wallet \in f THEN "unavailable"
      ELSE CASE step = None -> "loading"
             [] step \in {"welcome", "signin"} -> "welcome"
             [] step = "status" /\ u.wallet # None -> "status"
             [] OTHER -> IF None \in {u.wallet, u.auth} THEN "welcome"
                         ELSE IF step = "declarations" /\ u.profile = None THEN "profile"
                         ELSE step

(* GROUPS: the stepper's entry that is active; React keeps a card's state as
   long as the same card stays under the same entry. *)
GroupOf(u, c) ==
  LET step == StepOf(u, c)
  IN  CASE step \in {None, "signin"} -> "welcome"
        [] step = "status" -> "identity"
        [] OTHER -> step

ScreenOf(u, c, f) == <<GroupOf(u, c), CardOf(u, c, f)>>

Card == CardOf(ui, cache, failed)

(* Mutant of Started: the page stays where the other wallet had brought it. *)
StartedInPlace(u) ==
  IF ui.wallet # None /\ u.wallet # ui.wallet THEN [u EXCEPT !.profile = None] ELSE u

(* Switching wallets starts over. *)
Started(u) ==
  IF ui.wallet # None /\ u.wallet # ui.wallet
    THEN [u EXCEPT !.override = None, !.auth = None, !.profile = None] ELSE u

(* A wallet with a file open does not start from the front. *)
Resumed(u, c) ==
  IF Open(u, c) /\ StepOf(u, c) \in {"welcome", "signin"}
    THEN [u EXCEPT !.override = "status"] ELSE u

(* A card that is gone takes its refusals along, and what it was waiting for no
   longer keeps a button busy. *)
Unmounted(k) == {[x EXCEPT !.on = FALSE] : x \in {y \in k : y.kind # "refused"}}

(* A render with its effects. *)
Commit(u, c, f, k) ==
  \E next \in {Resumed(Started(u), c)} :
    /\ IF ScreenOf(next, c, f) = ScreenOf(ui, cache, failed)
         THEN ui' = next /\ calls' = k
         ELSE ui' = [next EXCEPT !.widget = "idle"] /\ calls' = Unmounted(k)
    /\ cache' = c /\ failed' = f

Render(u, k) == Commit(u, cache, failed, k) /\ UNCHANGED reading
Go(step) == Render([ui EXCEPT !.override = step], calls)
Lateness(x) == late' = (late \/ ~x.on \/ x.of # ui.wallet)

-----------------------------------------------------------------------------
(* The wallet connects, disconnects or switches accounts. *)
Switch(w) ==
  /\ w # ui.wallet
  /\ Spend("switches", MaxSwitches)
  /\ Render([ui EXCEPT !.wallet = w], calls)
  /\ UNCHANGED <<apiVars, late>>

(* The page is reloaded: the wallet reconnects, everything else starts over. *)
Reload ==
  /\ Spend("trouble", MaxTrouble)
  /\ ui' = Landing(ui.wallet)
  /\ cache' = [w \in Holders |-> None]
  /\ failed' = {} /\ calls' = {} /\ reading' = {}
  /\ UNCHANGED <<apiVars, late>>

(* useKycStatus reads the status of the connected wallet: when the wallet
   connects, every 5 s while StatusStep is shown, and when the window gets the
   focus.  The answer is given now and seen later. *)
Ask ==
  /\ ui.wallet # None /\ ~\E r \in reading : r.of = ui.wallet
  /\ Cardinality(reading) < MaxReads
  /\ reading' = reading \cup {[of |-> ui.wallet, status |-> file[ui.wallet]]}
  /\ UNCHANGED <<ui, cache, failed, calls, apiVars, late, spent>>

Answered(r) ==
  /\ reading' = reading \ {r}
  /\ \/ /\ Commit(ui, [cache EXCEPT ![r.of] = r.status], failed \ {r.of}, calls)
        /\ UNCHANGED spent
     \/ /\ Commit(ui, cache, failed \cup {r.of}, calls)
        /\ Spend("trouble", MaxTrouble)
  /\ late' = (late \/ (r.status = "none" /\ cache[r.of] \notin {None, "none"}))
  /\ UNCHANGED apiVars

(* Welcome, sign: fetches the challenge of the wallet it was rendered for. *)
Sign ==
  /\ Card = "welcome" /\ ui.wallet # None
  /\ ~\E x \in calls : x.kind \in {"challenge", "prompt"} /\ x.on
  /\ Cardinality(calls) < MaxCalls
  /\ Render(ui, calls \cup {[kind |-> "challenge", of |-> ui.wallet, on |-> TRUE,
                           ahead |-> StepOf(ui, cache) \in {"welcome", "signin"}]})
  /\ UNCHANGED <<apiVars, late, spent>>

(* Welcome, sign: the challenge is here and the account connected now is asked
   to sign it; without one the promise fails. *)
Prompt(x) ==
  /\ x.kind = "challenge"
  /\ Render(ui, (calls \ {x}) \cup
       (IF ui.wallet = None THEN {}
        ELSE {[kind |-> "prompt", of |-> x.of, by |-> ui.wallet, ahead |-> x.ahead, on |-> x.on]}))
  /\ UNCHANGED <<apiVars, late, spent>>

(* onSigned, as the render in which the button was pressed had it. *)
Signed(x) ==
  /\ x.kind = "prompt"
  /\ Render([ui EXCEPT !.auth = [of |-> x.of, by |-> x.by, fresh |-> TRUE],
                     !.override = IF x.ahead THEN After("signin") ELSE @], calls \ {x})
  /\ Lateness(x)
  /\ UNCHANGED <<apiVars, spent>>

(* The visitor refuses to sign. *)
Refuse(x) ==
  /\ x.kind = "prompt" /\ Spend("trouble", MaxTrouble)
  /\ Render(ui, calls \ {x})
  /\ UNCHANGED <<apiVars, late>>

(* A challenge is valid for one hour. *)
Expire ==
  /\ ui.auth # None /\ ui.auth.fresh /\ Spend("trouble", MaxTrouble)
  /\ Render([ui EXCEPT !.auth.fresh = FALSE], calls)
  /\ UNCHANGED <<apiVars, late>>

(* SelfieCheckStep: verified or skipped, it goes on. *)
PassSelfie ==
  /\ Card = "selfie" /\ Go(After("selfie"))
  /\ UNCHANGED <<apiVars, late, spent>>

(* ProfileStep, with either onDone: the declarations follow. *)
FillProfile ==
  /\ Card = "profile"
  /\ Render([ui EXCEPT !.profile = ui.wallet, !.override = "declarations"], calls)
  /\ UNCHANGED <<apiVars, late, spent>>

(* Declarations, submit: sends the signature and the profile of this render.
   Trying again after a refusal is trouble. *)
Submit ==
  LET refusals == {x \in calls : x.kind = "refused"}
  IN  /\ Card = "declarations"
      /\ ~\E x \in calls : x.kind \in {"submit", "accepted"} /\ x.on
      /\ Cardinality(calls \ refusals) < MaxCalls
      /\ IF refusals = {} THEN UNCHANGED spent ELSE Spend("trouble", MaxTrouble)
      /\ Render(ui, (calls \ refusals) \cup
           {[kind |-> "submit", auth |-> ui.auth, profile |-> ui.profile,
             of |-> ui.wallet, on |-> TRUE]})
      /\ UNCHANGED <<apiVars, late>>

(* verify: the message named the wallet, and the wallet signed it in time. *)
Valid(auth) == auth.fresh /\ auth.of = auth.by

Reviewed(w) == file[w] \notin {"none", "pending"}

(* kycProfile: 401 for the signature, 409 for a file that was reviewed, 202
   with the status; a card that is gone shows no refusal. *)
File(x) ==
  LET w == x.auth.of
  IN  /\ x.kind = "submit"
      /\ \/ /\ Valid(x.auth) /\ ~Reviewed(w)
            /\ file' = [file EXCEPT ![w] = "pending"]
            /\ Render(ui, (calls \ {x}) \cup
                 {[kind |-> "accepted", status |-> "pending", of |-> x.of, on |-> x.on]})
         \/ /\ ~Valid(x.auth) \/ Reviewed(w)
            /\ Render(ui, (calls \ {x}) \cup
                 (IF x.on THEN {[kind |-> "refused", expired |-> ~Valid(x.auth), on |-> TRUE]} ELSE {}))
            /\ UNCHANGED file
      /\ UNCHANGED <<docs, selfieCheck, late, spent>>

(* onDone: the status goes to the cache of the wallet the form was rendered
   for, the page goes on to the identity check. *)
Filed(x) ==
  /\ x.kind = "accepted"
  /\ Commit([ui EXCEPT !.override = After("declarations")],
            [cache EXCEPT ![x.of] = x.status], failed \ {x.of}, calls \ {x})
  /\ Lateness(x)
  /\ UNCHANGED <<reading, apiVars, spent>>

(* "Sign in again", next to a 401. *)
SignInAgain ==
  /\ \E x \in calls : x.kind = "refused" /\ x.expired
  /\ Go("signin")
  /\ UNCHANGED <<apiVars, late, spent>>

(* Identity, start and Retry: asks for a WebSDK token. *)
StartKyc ==
  /\ Card = "identity"
  /\ \/ ui.widget = "idle" /\ UNCHANGED spent
     \/ ui.widget = "error" /\ Spend("trouble", MaxTrouble)
  /\ Render([ui EXCEPT !.widget = "asked"], calls)
  /\ UNCHANGED <<apiVars, late>>

(* createSession answers with a token, or 401. *)
Session ==
  /\ ui.widget = "asked"
  /\ Render([ui EXCEPT !.widget = IF Valid(ui.auth) THEN "token" ELSE "error"], calls)
  /\ UNCHANGED <<apiVars, late, spent>>

(* loadSdk and launch: the widget opens the applicant's file.  A script that
   loads and does not initialise leaves a rejected promise behind for good. *)
Launch ==
  /\ ui.widget = "token"
  /\ \/ /\ ui.sdk # "dead"
        /\ Render([ui EXCEPT !.widget = "open", !.sdk = "ready"], calls)
        /\ file' = [file EXCEPT ![ui.auth.of] = IF @ = "none" THEN "pending" ELSE @]
        /\ UNCHANGED spent
     \/ /\ ui.sdk = "absent" /\ Spend("trouble", MaxTrouble)
        /\ \E s \in {"absent", "dead"} : Render([ui EXCEPT !.widget = "error", !.sdk = s], calls)
        /\ UNCHANGED file
     \/ /\ ui.sdk = "dead"
        /\ Render([ui EXCEPT !.widget = "error"], calls)
        /\ UNCHANGED <<file, spent>>
  /\ UNCHANGED <<docs, selfieCheck, late>>

(* Mutant of Finish: only the widget moves the page on. *)
FinishFromWidget ==
  /\ Card = "identity" /\ ui.widget = "open"
  /\ Go(After("identity"))
  /\ docs' = docs \cup {ui.auth.of}
  /\ UNCHANGED <<file, selfieCheck, late, spent>>

(* The widget reports the documents submitted, or the visitor has finished. *)
Finish ==
  /\ Card = "identity" /\ ui.widget # "idle"
  /\ Go(After("identity"))
  /\ docs' = IF ui.widget = "open" THEN docs \cup {ui.auth.of} ELSE docs
  /\ UNCHANGED <<file, selfieCheck, late, spent>>

(* StatusStep: "Start verification" for a wallet without a file. *)
Restart ==
  /\ Card = "status" /\ cache[ui.wallet] = "none"
  /\ Spend("detours", MaxDetours)
  /\ Go("welcome")
  /\ UNCHANGED <<apiVars, late>>

(* StatusStep: "Start Selfie Check". *)
SelfieFromStatus ==
  /\ Card = "status" /\ selfieCheck
  /\ cache[ui.wallet] \notin {None, "none", "blocked"}
  /\ Spend("detours", MaxDetours)
  /\ Go("selfie")
  /\ UNCHANGED <<apiVars, late>>

(* onBack, and CollapsedStep's Edit of an earlier form while no file is open. *)
Back ==
  /\ \/ Card = "declarations" /\ Go("profile")
     \/ Card = "identity" /\ ui.widget = "idle" /\ Go("declarations")
     \/ /\ GroupOf(ui, cache) \in {"declarations", "identity"}
        /\ ~Open(ui, cache)
        /\ \/ Go("profile")
           \/ GroupOf(ui, cache) = "identity" /\ Go("declarations")
  /\ Spend("detours", MaxDetours)
  /\ UNCHANGED <<apiVars, late>>

(* Sumsub reviews documents; the API grants what qualifies. *)
Review(w) ==
  /\ \/ file[w] = "pending" /\ w \in docs
        /\ \E verdict \in Verdicts : file' = [file EXCEPT ![w] = verdict]
     \/ file[w] = "granting" /\ file' = [file EXCEPT ![w] = "granted"]
  /\ UNCHANGED <<ui, cache, failed, reading, calls, docs, selfieCheck, late, spent>>

-----------------------------------------------------------------------------
Forward ==
  \/ Sign \/ PassSelfie \/ FillProfile \/ Submit \/ SignInAgain
  \/ StartKyc \/ Session \/ Launch \/ Finish
  \/ \E x \in calls : Prompt(x) \/ Signed(x) \/ File(x) \/ Filed(x)

OnboardingNext ==
  \/ Forward \/ Reload \/ Ask \/ Expire \/ Restart \/ SelfieFromStatus \/ Back
  \/ \E w \in Holders \cup {None} : Switch(w)
  \/ \E r \in reading : Answered(r)
  \/ \E w \in Holders : Review(w)
  \/ \E x \in calls : Refuse(x)

-----------------------------------------------------------------------------
(* What is filed for a wallet was typed under that wallet, whatever switches,
   reloads, expired signatures and late answers come in between, as long as no
   answer came too late for the card and the wallet it was meant for (kyc-wizard.tsx:281-290, 631-649). *)
FiledByItsOwner ==
  [][\A x \in calls \ calls' :
       x.kind = "submit" /\ Valid(x.auth) /\ ~late => x.profile = x.auth.of]_onboardingVars

(* The identity check is reached with a file to attach it to: no path leads
   there around an accepted submission (kyc-wizard.tsx:366-385). *)
IdentityHasAFile ==
  Card = "identity" /\ ~late => file[ui.auth.of] # "none"

(* A visitor that stays with a wallet and goes on without a step back ends at
   its status and sees what became of its file, whatever failed, expired or was
   reloaded on the way: it does not end at a form the API refuses, at a widget
   that cannot load or at an answer of before it filed
   (kyc-wizard.tsx:292-298, 366-385, 740-848, 860-871). *)
ArrivesAtStatus ==
  [](spent.detours = 0 /\ ~late) =>
    \A w \in Holders :
      <>[](ui.wallet = w)
        => <>[](Card = "status" /\ cache[w] = file[w] /\ file[w] # "none")
=============================================================================
