------------------------------ MODULE Site_proofs ------------------------------
(***************************************************************************)
(* What the pages of the web app and the landing page promise, for every set  *)
(* of wallets, files, records, bonds and holdings: each page has an inductive *)
(* invariant of its own (OnboardingIInv to LandingIInv), SiteIInv is all of   *)
(* them, and what MCSite.tla checks follows from it.                          *)
(***************************************************************************)
EXTENDS MCSite, Totals_proofs

-----------------------------------------------------------------------------
(* The onboarding wizard.  *)
Ui ==
  [wallet: Holders \cup {None}, override: Steps \cup {None},
   auth: Auth \cup {None}, profile: Holders \cup {None},
   widget: {"idle", "asked", "token", "open", "error"}, sdk: {"absent", "ready", "dead"}]
Caches == [Holders -> States \cup {None}]
Challenges == [kind: {"challenge"}, of: Holders, ahead: BOOLEAN, on: BOOLEAN]
Prompts == [kind: {"prompt"}, of: Holders, by: Holders, ahead: BOOLEAN, on: BOOLEAN]
Submits == [kind: {"submit"}, auth: Auth, profile: Holders, of: Holders, on: BOOLEAN]
Accepts == [kind: {"accepted"}, status: States, of: Holders, on: BOOLEAN]
Refusals == [kind: {"refused"}, expired: BOOLEAN, on: {TRUE}]
CallsOf == Challenges \cup Prompts \cup Submits \cup Accepts \cup Refusals

OnboardingTyped ==
  /\ ui \in Ui /\ cache \in Caches /\ failed \subseteq Holders
  /\ reading \subseteq [of: Holders, status: States]
  /\ file \in [Holders -> States] /\ docs \subseteq Holders /\ late \in BOOLEAN
  /\ calls \subseteq CallsOf

(* A call that keeps a button busy is one of the card on screen, and no other
   does. *)
OfCard(k, card) ==
  /\ \A x \in k : x.on => IF x.kind \in {"challenge", "prompt"} THEN card = "welcome"
                          ELSE card = "declarations"
  /\ \A x, y \in k : x.on /\ y.on => x = y

(* As long as no answer came too late, a form and what is filed are those of
   the wallet they were opened for, and who was accepted has a file. *)
OfWallet(u) ==
  /\ u.auth # None => u.auth.of = u.wallet
  /\ u.profile # None => u.profile = u.wallet
OwnForms(k) == \A x \in k : x.kind = "submit" => x.profile = x.of /\ x.auth.of = x.of
HasFile(u, f) == u.override = "identity" => u.auth # None /\ f[u.wallet] # "none"
OwnFiles(k, f) == \A x \in k : x.kind = "accepted" => f[x.of] # "none"
Timely(u, k, f) == OfWallet(u) /\ OwnForms(k) /\ HasFile(u, f) /\ OwnFiles(k, f)

OnboardingIInv == OnboardingTyped /\ OfCard(calls, Card) /\ (~late => Timely(ui, calls, file))

-----------------------------------------------------------------------------
LEMMA NoneIsNoOther ==
  /\ None \notin Holders /\ None \notin Steps /\ None \notin States /\ None \notin Auth
BY OnboardingAssumption

LEMMA OnboardingTypes == OnboardingIInv => OnboardingTypeOK
BY DEF OnboardingIInv, OnboardingTyped, OnboardingTypeOK, OfCard, Ui, Caches, CallsOf,
  Challenges, Prompts, Submits, Accepts, Refusals

(* What a call of a kind carries. *)
LEMMA CallFields ==
  ASSUME NEW x \in CallsOf
  PROVE  /\ x.on \in BOOLEAN
         /\ x.kind \in {"challenge", "prompt", "submit", "accepted", "refused"}
         /\ x.kind = "challenge" => x \in Challenges /\ x.of \in Holders /\ x.ahead \in BOOLEAN
         /\ x.kind = "prompt" => x \in Prompts /\ x.of \in Holders /\ x.by \in Holders /\ x.ahead \in BOOLEAN
         /\ x.kind = "submit" =>
              x \in Submits /\ x.of \in Holders /\ x.auth \in Auth /\ x.profile \in Holders
         /\ x.kind = "accepted" => x \in Accepts /\ x.of \in Holders /\ x.status \in States
         /\ x.kind = "refused" => x \in Refusals /\ x.on = TRUE
BY DEF CallsOf, Challenges, Prompts, Submits, Accepts, Refusals

(* Leaving a card changes of a call only that it keeps no button busy. *)
LEMMA UnmountedKeeps ==
  ASSUME NEW k \in SUBSET CallsOf
  PROVE  /\ Unmounted(k) \in SUBSET CallsOf
         /\ \A y \in Unmounted(k) : y.on = FALSE
         /\ \A y \in Unmounted(k) : \E x \in k :
              /\ y.kind = x.kind
              /\ x.kind = "submit" => y.of = x.of /\ y.auth = x.auth /\ y.profile = x.profile
              /\ x.kind = "accepted" => y.of = x.of
<1>1. ASSUME NEW y \in Unmounted(k)
      PROVE  /\ y \in CallsOf /\ y.on = FALSE
             /\ \E x \in k :
                  /\ y.kind = x.kind
                  /\ x.kind = "submit" => y.of = x.of /\ y.auth = x.auth /\ y.profile = x.profile
                  /\ x.kind = "accepted" => y.of = x.of
  <2>1. PICK x \in k : x.kind # "refused" /\ y = [x EXCEPT !.on = FALSE]
    BY DEF Unmounted
  <2>2. x \in CallsOf
    OBVIOUS
  <2>3. CASE x \in Challenges
    BY <2>1, <2>3 DEF CallsOf, Challenges
  <2>4. CASE x \in Prompts
    BY <2>1, <2>4 DEF CallsOf, Prompts
  <2>5. CASE x \in Submits
    BY <2>1, <2>5 DEF CallsOf, Submits
  <2>6. CASE x \in Accepts
    BY <2>1, <2>6 DEF CallsOf, Accepts
  <2> QED
    BY <2>1, <2>2, <2>3, <2>4, <2>5, <2>6, CallFields
<1> QED
  BY <1>1

(* What the cards that act on something have in hand. *)
LEMMA CardHas ==
  ASSUME NEW u \in Ui, NEW c \in Caches, NEW f
  PROVE  /\ CardOf(u, c, f) = "identity" => u.override = "identity" /\ u.wallet # None /\ u.auth # None
         /\ CardOf(u, c, f) = "declarations" =>
              u.wallet # None /\ u.auth # None /\ u.profile # None /\ u.override = "declarations"
         /\ CardOf(u, c, f) = "profile" => u.wallet # None /\ u.auth # None
<1>1. u.override \in Steps \cup {None} /\ u.wallet \in Holders \cup {None}
  BY DEF Ui
<1>2. u.override = None => StepOf(u, c) \in {"welcome", "status", None}
  BY <1>1, NoneIsNoOther DEF StepOf, InitialStep
<1>3. u.override # None => StepOf(u, c) = u.override
  BY DEF StepOf
<1>4. None \notin {"welcome", "signin", "selfie", "profile", "declarations", "identity", "status"}
  BY NoneIsNoOther DEF Steps
<1>5. StepOf(u, c) = None => CardOf(u, c, f) \in {"unavailable", "loading"}
  BY <1>4 DEF CardOf
<1>6. StepOf(u, c) \in {"welcome", "signin"} => CardOf(u, c, f) \in {"unavailable", "welcome"}
  BY <1>4 DEF CardOf
<1>7. StepOf(u, c) \notin {None, "welcome", "signin"} =>
        \/ CardOf(u, c, f) \in {"unavailable", "welcome", "status"}
        \/ /\ u.wallet # None /\ u.auth # None
           /\ CardOf(u, c, f) = IF StepOf(u, c) = "declarations" /\ u.profile = None THEN "profile"
                                ELSE StepOf(u, c)
  BY <1>4 DEF CardOf
<1> QED
  BY <1>1, <1>2, <1>3, <1>4, <1>5, <1>6, <1>7 DEF Steps

(* A render keeps the wallet it is given; the rest of the page starts over when
   that is another one, and may go on to the status. *)
LEMMA CommitKeeps ==
  ASSUME ui \in Ui, NEW u \in Ui, NEW c \in Caches, NEW f \in SUBSET Holders, NEW k,
         Commit(u, c, f, k)
  PROVE  /\ ui' \in Ui /\ cache' = c /\ failed' = f /\ ui'.wallet = u.wallet
         /\ (calls' = k /\ Card' = Card) \/ calls' = Unmounted(k)
         /\ IF ui.wallet # None /\ u.wallet # ui.wallet
              THEN ui'.auth = None /\ ui'.profile = None /\ ui'.override \in {None, "status"}
              ELSE ui'.auth = u.auth /\ ui'.profile = u.profile /\ ui'.override \in {u.override, "status"}
<1> DEFINE s == Started(u)
           n == Resumed(s, c)
<1>1. /\ s \in Ui /\ s.wallet = u.wallet
      /\ IF ui.wallet # None /\ u.wallet # ui.wallet
           THEN s.auth = None /\ s.profile = None /\ s.override = None
           ELSE s = u
  BY DEF Started, Ui
<1>2. n = s \/ n = [s EXCEPT !.override = "status"]
  BY DEF Resumed
<1>3. /\ n \in Ui /\ n.wallet = s.wallet /\ n.auth = s.auth /\ n.profile = s.profile
      /\ n.override \in {s.override, "status"}
  <2> HIDE DEF n, s
  <2> QED
    BY <1>1, <1>2 DEF Ui, Steps
<1>4. /\ cache' = c /\ failed' = f
      /\ \/ ScreenOf(n, c, f) = ScreenOf(ui, cache, failed) /\ ui' = n /\ calls' = k
         \/ ui' = [n EXCEPT !.widget = "idle"] /\ calls' = Unmounted(k)
  BY DEF Commit
<1>5. ui' = n \/ ui' = [n EXCEPT !.widget = "idle"]
  BY <1>4
<1>6. /\ ui' \in Ui /\ ui'.wallet = n.wallet /\ ui'.auth = n.auth /\ ui'.profile = n.profile
      /\ ui'.override = n.override
  <2> HIDE DEF n
  <2> QED
    BY <1>3, <1>5 DEF Ui
<1>7. ScreenOf(n, c, f) = ScreenOf(ui, cache, failed) /\ ui' = n => Card' = Card
  <2> HIDE DEF n
  <2> QED
    BY <1>4 DEF ScreenOf, Card
<1> HIDE DEF n, s
<1> QED
  BY <1>1, <1>3, <1>4, <1>6, <1>7

LEMMA FewerCalls ==
  ASSUME NEW k, NEW card, OfCard(k, card), NEW j \in SUBSET k
  PROVE  OfCard(j, card)
BY DEF OfCard

(* An answer takes the place of what it answers, or joins a card that waits for
   nothing. *)
LEMMA AnotherCall ==
  ASSUME NEW k, NEW card, OfCard(k, card), NEW x, NEW y,
         y.on => IF y.kind \in {"challenge", "prompt"} THEN card = "welcome" ELSE card = "declarations",
         y.on => \A z \in k \ {x} : ~z.on
  PROVE  OfCard((k \ {x}) \cup {y}, card)
BY DEF OfCard

(* What a render keeps of the invariant. *)
LEMMA RenderKeeps ==
  ASSUME OnboardingIInv, NEW u \in Ui, NEW c \in Caches, NEW f \in SUBSET Holders,
         NEW k \in SUBSET CallsOf, Commit(u, c, f, k), OfCard(k, Card)
  PROVE  /\ ui' \in Ui /\ cache' \in Caches /\ failed' \subseteq Holders
         /\ calls' \subseteq CallsOf /\ OfCard(calls', Card')
         /\ \A g : /\ (ui.wallet # None /\ u.wallet # ui.wallet) \/ (OfWallet(u) /\ HasFile(u, g))
                   /\ OwnForms(k) /\ OwnFiles(k, g)
                   => Timely(ui', calls', g)
<1>1. ui \in Ui
  BY DEF OnboardingIInv, OnboardingTyped
<1>2. /\ ui' \in Ui /\ cache' = c /\ failed' = f /\ ui'.wallet = u.wallet
      /\ (calls' = k /\ Card' = Card) \/ calls' = Unmounted(k)
      /\ IF ui.wallet # None /\ u.wallet # ui.wallet
           THEN ui'.auth = None /\ ui'.profile = None /\ ui'.override \in {None, "status"}
           ELSE ui'.auth = u.auth /\ ui'.profile = u.profile /\ ui'.override \in {u.override, "status"}
  BY <1>1, CommitKeeps
<1>3. /\ Unmounted(k) \in SUBSET CallsOf
      /\ \A y \in Unmounted(k) : y.on = FALSE
      /\ \A y \in Unmounted(k) : \E x \in k :
           /\ y.kind = x.kind
           /\ x.kind = "submit" => y.of = x.of /\ y.auth = x.auth /\ y.profile = x.profile
           /\ x.kind = "accepted" => y.of = x.of
  BY UnmountedKeeps
<1>4. calls' \subseteq CallsOf /\ OfCard(calls', Card')
  <2>1. CASE calls' = k /\ Card' = Card
    BY <2>1
  <2>2. CASE calls' = Unmounted(k)
    BY <2>2, <1>3 DEF OfCard
  <2> QED
    BY <1>2, <2>1, <2>2
<1>5. ASSUME NEW g, (ui.wallet # None /\ u.wallet # ui.wallet) \/ (OfWallet(u) /\ HasFile(u, g)),
             OwnForms(k), OwnFiles(k, g)
      PROVE  Timely(ui', calls', g)
  <2>1. OwnForms(calls')
    BY <1>2, <1>3, <1>5 DEF OwnForms
  <2>2. OwnFiles(calls', g)
    BY <1>2, <1>3, <1>5 DEF OwnFiles
  <2>3. None # "identity"
    BY NoneIsNoOther DEF Steps
  <2>4. OfWallet(ui') /\ HasFile(ui', g)
    BY <1>2, <1>5, <2>3 DEF OfWallet, HasFile
  <2> QED
    BY <2>1, <2>2, <2>4 DEF Timely
<1> QED
  BY <1>2, <1>4, <1>5

LEMMA OnboardingStarts == OnboardingInit => OnboardingIInv
<1> SUFFICES ASSUME OnboardingInit PROVE OnboardingIInv
  OBVIOUS
<1> USE DEF OnboardingInit
<1>1. ui \in Ui
  BY DEF Landing, Ui
<1>2. OnboardingTyped
  BY <1>1 DEF OnboardingTyped, Caches, States
<1>3. OfCard(calls, Card)
  BY DEF OfCard
<1>4. None # "identity"
  BY NoneIsNoOther DEF Steps
<1>5. Timely(ui, calls, file)
  BY <1>4 DEF Landing, Timely, OfWallet, OwnForms, HasFile, OwnFiles
<1> QED
  BY <1>2, <1>3, <1>5 DEF OnboardingIInv

(* What the step lemmas have in hand. *)
LEMMA OnboardingHas ==
  ASSUME OnboardingIInv
  PROVE  /\ ui \in Ui /\ cache \in Caches /\ failed \in SUBSET Holders /\ calls \in SUBSET CallsOf
         /\ reading \in SUBSET [of: Holders, status: States]
         /\ file \in [Holders -> States] /\ docs \subseteq Holders /\ late \in BOOLEAN
         /\ OfCard(calls, Card)
         /\ ~late => /\ OfWallet(ui) /\ OwnForms(calls) /\ HasFile(ui, file) /\ OwnFiles(calls, file)
BY DEF OnboardingIInv, OnboardingTyped, Timely

(* A step that renders. *)
LEMMA StepKeeps ==
  ASSUME OnboardingIInv, NEW u \in Ui, NEW c \in Caches, NEW f \in SUBSET Holders,
         NEW k \in SUBSET CallsOf, Commit(u, c, f, k), OfCard(k, Card),
         reading' \subseteq [of: Holders, status: States],
         file' \in [Holders -> States], docs' \subseteq Holders, late' \in BOOLEAN,
         ~late' => /\ (ui.wallet # None /\ u.wallet # ui.wallet) \/ (OfWallet(u) /\ HasFile(u, file'))
                   /\ OwnForms(k) /\ OwnFiles(k, file')
  PROVE  OnboardingIInv'
<1>1. /\ ui' \in Ui /\ cache' \in Caches /\ failed' \subseteq Holders
      /\ calls' \subseteq CallsOf /\ OfCard(calls', Card')
      /\ ~late' => Timely(ui', calls', file')
  BY RenderKeeps
<1>2. OnboardingTyped'
  BY <1>1 DEF OnboardingTyped
<1> QED
  BY <1>1, <1>2 DEF OnboardingIInv

(* A render under which the wallet, the calls and the files stay what they are. *)
LEMMA QuietRender ==
  ASSUME OnboardingIInv, NEW u \in Ui, Render(u, calls), file' = file, docs' \subseteq Holders,
         late' = late, ~late => OfWallet(u) /\ HasFile(u, file)
  PROVE  OnboardingIInv'
BY OnboardingHas, StepKeeps DEF Render

LEMMA SwitchKeeps == OnboardingIInv /\ (\E w \in Holders \cup {None} : Switch(w)) => OnboardingIInv'
<1> SUFFICES ASSUME OnboardingIInv, NEW w \in Holders \cup {None}, Switch(w) PROVE OnboardingIInv'
  OBVIOUS
<1> USE OnboardingHas
<1> DEFINE u == [ui EXCEPT !.wallet = w]
<1>1. /\ w # ui.wallet /\ Commit(u, cache, failed, calls) /\ reading' = reading
      /\ file' = file /\ docs' = docs /\ late' = late
  BY DEF Switch, Render, apiVars
<1>2. /\ u \in Ui /\ u.wallet = w /\ u.auth = ui.auth /\ u.profile = ui.profile
      /\ u.override = ui.override
  BY DEF Ui
<1> HIDE DEF u
<1>3. ASSUME ~late, ui.wallet = None PROVE OfWallet(u) /\ HasFile(u, file)
  <2>1. ui.auth \in Auth \cup {None} /\ ui.profile \in Holders \cup {None}
    BY DEF Ui
  <2>2. ui.auth = None
    BY <1>3, <2>1, NoneIsNoOther DEF OfWallet, Auth
  <2>3. ui.profile = None
    BY <1>3, <2>1, NoneIsNoOther DEF OfWallet
  <2>4. ui.override # "identity"
    BY <1>3, <2>2 DEF HasFile
  <2> QED
    BY <1>2, <2>2, <2>3, <2>4 DEF OfWallet, HasFile
<1> QED
  BY <1>1, <1>2, <1>3, StepKeeps

LEMMA ReloadKeeps == OnboardingIInv /\ Reload => OnboardingIInv'
<1> SUFFICES ASSUME OnboardingIInv, Reload PROVE OnboardingIInv'
  OBVIOUS
<1> USE OnboardingHas
<1>1. /\ ui' = Landing(ui.wallet) /\ cache' = [w \in Holders |-> None] /\ failed' = {}
      /\ calls' = {} /\ reading' = {} /\ file' = file /\ docs' = docs /\ late' = late
  BY DEF Reload, apiVars
<1>2. ui' \in Ui
  BY <1>1 DEF Landing, Ui
<1>3. OnboardingTyped'
  BY <1>1, <1>2 DEF OnboardingTyped, Caches
<1>4. OfCard(calls', Card')
  BY <1>1 DEF OfCard
<1>5. None # "identity"
  BY NoneIsNoOther DEF Steps
<1>6. Timely(ui', calls', file')
  BY <1>1, <1>5 DEF Landing, Timely, OfWallet, OwnForms, HasFile, OwnFiles
<1> QED
  BY <1>3, <1>4, <1>6 DEF OnboardingIInv

LEMMA AskKeeps == OnboardingIInv /\ Ask => OnboardingIInv'
<1> SUFFICES ASSUME OnboardingIInv, Ask PROVE OnboardingIInv'
  OBVIOUS
<1> USE OnboardingHas
<1>1. /\ reading' = reading \cup {[of |-> ui.wallet, status |-> file[ui.wallet]]}
      /\ ui' = ui /\ cache' = cache /\ failed' = failed /\ calls' = calls
      /\ file' = file /\ docs' = docs /\ late' = late /\ ui.wallet # None
  BY DEF Ask, apiVars
<1>2. ui.wallet \in Holders
  BY <1>1 DEF Ui
<1>3. OnboardingTyped'
  BY <1>1, <1>2 DEF OnboardingTyped
<1>4. Card' = Card
  BY <1>1 DEF Card
<1> QED
  BY <1>1, <1>3, <1>4 DEF OnboardingIInv

LEMMA AnsweredKeeps == OnboardingIInv /\ (\E r \in reading : Answered(r)) => OnboardingIInv'
<1> SUFFICES ASSUME OnboardingIInv, NEW r \in reading, Answered(r) PROVE OnboardingIInv'
  OBVIOUS
<1> USE OnboardingHas
<1>1. /\ reading' = reading \ {r} /\ file' = file /\ docs' = docs
      /\ late' = (late \/ (r.status = "none" /\ cache[r.of] \notin {None, "none"}))
  BY DEF Answered, apiVars
<1>2. r.of \in Holders /\ r.status \in States
  OBVIOUS
<1>3. /\ [cache EXCEPT ![r.of] = r.status] \in Caches
      /\ failed \ {r.of} \in SUBSET Holders /\ failed \cup {r.of} \in SUBSET Holders
  BY <1>2 DEF Caches
<1>4. PICK c \in Caches, f \in SUBSET Holders : Commit(ui, c, f, calls)
  BY <1>3 DEF Answered
<1> QED
  BY <1>1, <1>4, StepKeeps

LEMMA SignKeeps == OnboardingIInv /\ Sign => OnboardingIInv'
<1> SUFFICES ASSUME OnboardingIInv, Sign PROVE OnboardingIInv'
  OBVIOUS
<1> USE OnboardingHas
<1> DEFINE x == [kind |-> "challenge", of |-> ui.wallet, on |-> TRUE,
                 ahead |-> StepOf(ui, cache) \in {"welcome", "signin"}]
           k == calls \cup {x}
<1>1. /\ Card = "welcome" /\ ui.wallet # None
      /\ \A y \in calls : y.kind \in {"challenge", "prompt"} => ~y.on
      /\ Commit(ui, cache, failed, k) /\ reading' = reading /\ file' = file /\ docs' = docs
      /\ late' = late
  BY CallFields DEF Sign, Render, apiVars
<1>2. x \in CallsOf /\ x.kind = "challenge" /\ x.on = TRUE
  BY <1>1 DEF Ui, CallsOf, Challenges
<1> HIDE DEF x
<1>3. k \in SUBSET CallsOf
  BY <1>2
<1>4. OfCard(k, Card)
  <2>1. \A y \in calls : ~y.on
    BY <1>1, CallFields DEF OfCard
  <2> QED
    BY <1>1, <1>2, <2>1 DEF OfCard
<1>5. /\ OwnForms(calls) => OwnForms(k)
      /\ OwnFiles(calls, file) => OwnFiles(k, file)
  BY <1>2 DEF OwnForms, OwnFiles
<1> HIDE DEF k
<1> QED
  BY <1>1, <1>3, <1>4, <1>5, StepKeeps

(* Taking a call off the list. *)
LEMMA CallTaken ==
  ASSUME OnboardingIInv, NEW x
  PROVE  /\ calls \ {x} \in SUBSET CallsOf /\ OfCard(calls \ {x}, Card)
         /\ ~late => OwnForms(calls \ {x}) /\ OwnFiles(calls \ {x}, file)
<1>1. OfCard(calls \ {x}, Card)
  BY OnboardingHas, FewerCalls
<1>2. ~late => OwnForms(calls \ {x}) /\ OwnFiles(calls \ {x}, file)
  BY OnboardingHas DEF OwnForms, OwnFiles
<1> QED
  BY <1>1, <1>2, OnboardingHas

LEMMA PromptKeeps == OnboardingIInv /\ (\E x \in calls : Prompt(x)) => OnboardingIInv'
<1> SUFFICES ASSUME OnboardingIInv, NEW x \in calls, Prompt(x) PROVE OnboardingIInv'
  OBVIOUS
<1> USE OnboardingHas
<1> DEFINE y == [kind |-> "prompt", of |-> x.of, by |-> ui.wallet, ahead |-> x.ahead, on |-> x.on]
<1>1. /\ x.kind = "challenge" /\ reading' = reading
      /\ file' = file /\ docs' = docs /\ late' = late
      /\ IF ui.wallet = None THEN Commit(ui, cache, failed, calls \ {x})
         ELSE Commit(ui, cache, failed, (calls \ {x}) \cup {y})
  BY DEF Prompt, Render, apiVars
<1>2. x \in CallsOf
  OBVIOUS
<1>3. CASE ui.wallet = None
  BY <1>1, <1>3, CallTaken, StepKeeps
<1>4. CASE ui.wallet # None
  <2>1. /\ x.of \in Holders /\ x.ahead \in BOOLEAN /\ x.on \in BOOLEAN
        /\ x.on => Card = "welcome"
    BY <1>1, <1>2, CallFields DEF OfCard
  <2>2. y \in CallsOf /\ y.kind = "prompt" /\ y.on = x.on
    BY <1>4, <2>1 DEF Ui, CallsOf, Prompts
  <2> HIDE DEF y
  <2>3. OfCard((calls \ {x}) \cup {y}, Card)
    <3>1. x.on => \A z \in calls \ {x} : ~z.on
      BY <1>2, CallFields DEF OfCard
    <3> QED
      BY <2>1, <2>2, <3>1, AnotherCall
  <2>4. /\ OwnForms(calls) => OwnForms((calls \ {x}) \cup {y})
        /\ OwnFiles(calls, file) => OwnFiles((calls \ {x}) \cup {y}, file)
    BY <2>2 DEF OwnForms, OwnFiles
  <2> QED
    BY <1>1, <1>4, <2>2, <2>3, <2>4, StepKeeps
<1> QED
  BY <1>3, <1>4

LEMMA SignedKeeps == OnboardingIInv /\ (\E x \in calls : Signed(x)) => OnboardingIInv'
<1> SUFFICES ASSUME OnboardingIInv, NEW x \in calls, Signed(x) PROVE OnboardingIInv'
  OBVIOUS
<1> USE OnboardingHas
<1> DEFINE o == IF x.ahead THEN After("signin") ELSE ui.override
           u == [ui EXCEPT !.auth = [of |-> x.of, by |-> x.by, fresh |-> TRUE], !.override = o]
<1>1. /\ x.kind = "prompt" /\ Commit(u, cache, failed, calls \ {x}) /\ reading' = reading
      /\ file' = file /\ docs' = docs /\ late' = (late \/ ~x.on \/ x.of # ui.wallet)
  BY DEF Signed, Render, Lateness, apiVars
<1>2. x \in CallsOf
  OBVIOUS
<1>3. x.of \in Holders /\ x.by \in Holders
  BY <1>1, <1>2, CallFields
<1>4. After("signin") \in {"selfie", "profile"}
  BY DEF After
<1>5. o \in Steps \cup {None} /\ (o = "identity" => ui.override = "identity")
  BY <1>4 DEF Steps, Ui
<1> HIDE DEF o
<1>6. /\ u \in Ui /\ u.wallet = ui.wallet /\ u.profile = ui.profile /\ u.override = o
      /\ u.auth = [of |-> x.of, by |-> x.by, fresh |-> TRUE]
      /\ u.auth \in Auth
  BY <1>3, <1>5 DEF Ui, Auth
<1> HIDE DEF u
<1>7. ~late' => ~late /\ x.of = ui.wallet
  BY <1>1, Zenon
<1>8. ASSUME ~late, x.of = ui.wallet PROVE OfWallet(u) /\ HasFile(u, file)
  <2>1. u.auth # None
    BY <1>6, NoneIsNoOther, Zenon
  <2>2. u.auth.of = u.wallet
    BY <1>6, <1>8
  <2> QED
    BY <1>5, <1>6, <1>8, <2>1, <2>2 DEF OfWallet, HasFile
<1>9. late' \in BOOLEAN
  BY <1>1, Zenon
<1>10. ~late' => (OfWallet(u) /\ HasFile(u, file)) /\ ~late
  BY <1>7, <1>8, Zenon
<1> QED
  BY <1>1, <1>6, <1>9, <1>10, CallTaken, StepKeeps

LEMMA RefuseKeeps == OnboardingIInv /\ (\E x \in calls : Refuse(x)) => OnboardingIInv'
<1> SUFFICES ASSUME OnboardingIInv, NEW x \in calls, Refuse(x) PROVE OnboardingIInv'
  OBVIOUS
<1>1. /\ Commit(ui, cache, failed, calls \ {x}) /\ reading' = reading
      /\ file' = file /\ docs' = docs /\ late' = late
  BY DEF Refuse, Render, apiVars
<1> QED
  BY <1>1, OnboardingHas, CallTaken, StepKeeps

LEMMA ExpireKeeps == OnboardingIInv /\ Expire => OnboardingIInv'
<1> SUFFICES ASSUME OnboardingIInv, Expire PROVE OnboardingIInv'
  OBVIOUS
<1> USE OnboardingHas
<1> DEFINE u == [ui EXCEPT !.auth.fresh = FALSE]
<1>1. /\ Render(u, calls) /\ file' = file /\ docs' = docs /\ late' = late /\ ui.auth # None
  BY DEF Expire, apiVars
<1>2. ui.auth \in Auth
  BY <1>1 DEF Ui
<1>3. [ui.auth EXCEPT !.fresh = FALSE] \in Auth /\ [ui.auth EXCEPT !.fresh = FALSE].of = ui.auth.of
  BY <1>2 DEF Auth
<1>4. /\ u \in Ui /\ u.wallet = ui.wallet /\ u.profile = ui.profile /\ u.override = ui.override
      /\ u.auth \in Auth /\ u.auth.of = ui.auth.of
  BY <1>3 DEF Ui
<1> HIDE DEF u
<1>5. ~late => OfWallet(u) /\ HasFile(u, file)
  BY <1>1, <1>4, NoneIsNoOther DEF OfWallet, HasFile
<1> QED
  BY <1>1, <1>4, <1>5, QuietRender

(* The page goes to another step than the identity check. *)
LEMMA GoKeeps ==
  ASSUME OnboardingIInv, NEW step \in Steps, Go(step), step # "identity",
         file' = file, docs' \subseteq Holders, late' = late
  PROVE  OnboardingIInv'
<1> USE OnboardingHas
<1> DEFINE u == [ui EXCEPT !.override = step]
<1>1. Render(u, calls)
  BY DEF Go
<1>2. /\ u \in Ui /\ u.wallet = ui.wallet /\ u.auth = ui.auth /\ u.profile = ui.profile
      /\ u.override = step
  BY DEF Ui
<1> HIDE DEF u
<1>3. ~late => OfWallet(u) /\ HasFile(u, file)
  BY <1>2 DEF OfWallet, HasFile
<1> QED
  BY <1>1, <1>2, <1>3, QuietRender

LEMMA PassSelfieKeeps == OnboardingIInv /\ PassSelfie => OnboardingIInv'
<1>1. After("selfie") = "profile"
  BY DEF After
<1> QED
  BY <1>1, GoKeeps, OnboardingHas DEF PassSelfie, apiVars, Steps

LEMMA SignInAgainKeeps == OnboardingIInv /\ SignInAgain => OnboardingIInv'
BY GoKeeps, OnboardingHas DEF SignInAgain, apiVars, Steps

LEMMA FillProfileKeeps == OnboardingIInv /\ FillProfile => OnboardingIInv'
<1> SUFFICES ASSUME OnboardingIInv, FillProfile PROVE OnboardingIInv'
  OBVIOUS
<1> USE OnboardingHas
<1> DEFINE u == [ui EXCEPT !.profile = ui.wallet, !.override = "declarations"]
<1>1. /\ Card = "profile" /\ Render(u, calls) /\ file' = file /\ docs' = docs /\ late' = late
  BY DEF FillProfile, apiVars
<1>2. /\ u \in Ui /\ u.wallet = ui.wallet /\ u.auth = ui.auth /\ u.profile = ui.wallet
      /\ u.override = "declarations"
  BY DEF Ui, Steps
<1> HIDE DEF u
<1>3. ~late => OfWallet(u) /\ HasFile(u, file)
  BY <1>2 DEF OfWallet, HasFile
<1> QED
  BY <1>1, <1>2, <1>3, QuietRender

LEMMA SubmitKeeps == OnboardingIInv /\ Submit => OnboardingIInv'
<1> SUFFICES ASSUME OnboardingIInv, Submit PROVE OnboardingIInv'
  OBVIOUS
<1> USE OnboardingHas
<1> DEFINE rest == calls \ {x \in calls : x.kind = "refused"}
           x == [kind |-> "submit", auth |-> ui.auth, profile |-> ui.profile,
                 of |-> ui.wallet, on |-> TRUE]
           k == rest \cup {x}
<1>1. /\ Card = "declarations"
      /\ \A y \in calls : y.kind \in {"submit", "accepted"} => ~y.on
      /\ Commit(ui, cache, failed, k) /\ reading' = reading
      /\ file' = file /\ docs' = docs /\ late' = late
  BY CallFields DEF Submit, Render, apiVars
<1>2. ui.wallet # None /\ ui.auth # None /\ ui.profile # None
  BY <1>1, CardHas DEF Card
<1>3. /\ x \in CallsOf /\ x.kind = "submit" /\ x.on = TRUE
      /\ x.of = ui.wallet /\ x.auth = ui.auth /\ x.profile = ui.profile
  BY <1>2 DEF Ui, CallsOf, Submits
<1> HIDE DEF x
<1>4. k \in SUBSET CallsOf
  BY <1>3
<1>5. \A y \in rest : ~y.on
  BY <1>1, CallFields DEF OfCard
<1>6. OfCard(k, Card)
  BY <1>1, <1>3, <1>5 DEF OfCard
<1>7. ~late => OwnForms(k) /\ OwnFiles(k, file)
  BY <1>2, <1>3 DEF OwnForms, OwnFiles, OfWallet
<1> QED
  BY <1>1, <1>4, <1>6, <1>7, StepKeeps

LEMMA FileKeeps == OnboardingIInv /\ (\E x \in calls : File(x)) => OnboardingIInv'
<1> SUFFICES ASSUME OnboardingIInv, NEW x \in calls, File(x) PROVE OnboardingIInv'
  OBVIOUS
<1> USE OnboardingHas
<1>1. /\ x.kind = "submit" /\ reading' = reading /\ docs' = docs /\ late' = late
  BY DEF File, Render
<1>2. x \in CallsOf
  OBVIOUS
<1>3. x.of \in Holders /\ x.auth.of \in Holders /\ x.on \in BOOLEAN
  BY <1>1, <1>2, CallFields DEF Auth
<1>4. x.on => Card = "declarations" /\ \A z \in calls \ {x} : ~z.on
  BY <1>1, <1>2, CallFields DEF OfCard
<1>5. CASE Valid(x.auth) /\ ~Reviewed(x.auth.of)
  <2> DEFINE y == [kind |-> "accepted", status |-> "pending", of |-> x.of, on |-> x.on]
  <2>1. file' = [file EXCEPT ![x.auth.of] = "pending"] /\ Commit(ui, cache, failed, (calls \ {x}) \cup {y})
    BY <1>5 DEF File, Render
  <2>2. file' \in [Holders -> States] /\ file'[x.auth.of] = "pending"
    BY <1>3, <2>1 DEF States
  <2>3. \A w \in Holders : file[w] # "none" => file'[w] # "none"
    BY <2>1
  <2>4. y \in CallsOf /\ y.kind = "accepted" /\ y.on = x.on /\ y.of = x.of
    BY <1>3 DEF CallsOf, Accepts, States
  <2> HIDE DEF y
  <2>5. OfCard((calls \ {x}) \cup {y}, Card)
    BY <1>4, <2>4, AnotherCall
  <2>6. ASSUME ~late
        PROVE  OwnForms((calls \ {x}) \cup {y}) /\ OwnFiles((calls \ {x}) \cup {y}, file')
    <3>1. OwnForms((calls \ {x}) \cup {y})
      BY <2>4, <2>6 DEF OwnForms
    <3>2. x.auth.of = x.of
      BY <1>1, <2>6 DEF OwnForms
    <3>3. \A z \in calls : z.kind = "accepted" => z.of \in Holders
      BY CallFields
    <3> QED
      BY <2>2, <2>3, <2>4, <2>6, <3>1, <3>2, <3>3 DEF OwnFiles
  <2>7. ~late => HasFile(ui, file')
    <3>1. ~late /\ ui.override = "identity" => ui.wallet \in Holders
      BY DEF HasFile, OfWallet, Ui, Auth
    <3> QED
      BY <2>3, <3>1 DEF HasFile
  <2> QED
    BY <1>1, <2>1, <2>2, <2>4, <2>5, <2>6, <2>7, StepKeeps
<1>6. CASE ~(Valid(x.auth) /\ ~Reviewed(x.auth.of))
  <2> DEFINE y == [kind |-> "refused", expired |-> ~Valid(x.auth), on |-> TRUE]
  <2>1. /\ file' = file
        /\ IF x.on THEN Commit(ui, cache, failed, (calls \ {x}) \cup {y})
           ELSE Commit(ui, cache, failed, calls \ {x})
    BY <1>6 DEF File, Render
  <2>2. CASE ~x.on
    BY <1>1, <2>1, <2>2, CallTaken, StepKeeps
  <2>3. CASE x.on
    <3>1. y \in CallsOf /\ y.kind = "refused" /\ y.on = TRUE
      BY DEF CallsOf, Refusals, Valid
    <3> HIDE DEF y
    <3>2. OfCard((calls \ {x}) \cup {y}, Card)
      BY <1>4, <2>3, <3>1, AnotherCall
    <3>3. /\ OwnForms(calls) => OwnForms((calls \ {x}) \cup {y})
          /\ OwnFiles(calls, file) => OwnFiles((calls \ {x}) \cup {y}, file)
      BY <3>1 DEF OwnForms, OwnFiles
    <3> QED
      BY <1>1, <2>1, <2>3, <3>1, <3>2, <3>3, StepKeeps
  <2> QED
    BY <2>2, <2>3
<1> QED
  BY <1>5, <1>6

LEMMA FiledKeeps == OnboardingIInv /\ (\E x \in calls : Filed(x)) => OnboardingIInv'
<1> SUFFICES ASSUME OnboardingIInv, NEW x \in calls, Filed(x) PROVE OnboardingIInv'
  OBVIOUS
<1> USE OnboardingHas
<1> DEFINE u == [ui EXCEPT !.override = After("declarations")]
           c == [cache EXCEPT ![x.of] = x.status]
<1>1. /\ x.kind = "accepted" /\ Commit(u, c, failed \ {x.of}, calls \ {x}) /\ reading' = reading
      /\ file' = file /\ docs' = docs /\ late' = (late \/ ~x.on \/ x.of # ui.wallet)
  BY DEF Filed, Lateness, apiVars
<1>2. x \in CallsOf
  OBVIOUS
<1>3. x.of \in Holders /\ x.status \in States
  BY <1>1, <1>2, CallFields
<1>4. After("declarations") = "identity"
  BY DEF After
<1>5. /\ u \in Ui /\ u.wallet = ui.wallet /\ u.auth = ui.auth /\ u.profile = ui.profile
      /\ u.override = "identity"
  BY <1>4 DEF Ui, Steps
<1>6. c \in Caches /\ failed \ {x.of} \in SUBSET Holders
  BY <1>3 DEF Caches
<1> HIDE DEF u, c
<1>7. ~late' => ~late /\ x.on /\ x.of = ui.wallet
  BY <1>1, Zenon
<1>8. ASSUME ~late, x.on, x.of = ui.wallet PROVE OfWallet(u) /\ HasFile(u, file)
  <2>1. OfWallet(u)
    BY <1>5, <1>8 DEF OfWallet
  <2>2. file[ui.wallet] # "none"
    BY <1>1, <1>8 DEF OwnFiles
  <2>3. Card = "declarations"
    BY <1>1, <1>2, <1>8, CallFields DEF OfCard
  <2>4. ui.auth # None
    BY <2>3, CardHas DEF Card
  <2> QED
    BY <1>5, <2>1, <2>2, <2>4 DEF HasFile
<1>9. late' \in BOOLEAN
  BY <1>1, Zenon
<1>10. ~late' => (OfWallet(u) /\ HasFile(u, file)) /\ ~late
  BY <1>7, <1>8, Zenon
<1> QED
  BY <1>1, <1>5, <1>6, <1>9, <1>10, CallTaken, StepKeeps

(* Of the identity card only the widget changes. *)
LEMMA WidgetKeeps ==
  ASSUME OnboardingIInv, NEW g \in {"idle", "asked", "token", "open", "error"},
         NEW s \in {"absent", "ready", "dead"},
         Render([ui EXCEPT !.widget = g, !.sdk = s], calls),
         file' \in [Holders -> States], \A w \in Holders : file[w] # "none" => file'[w] # "none",
         docs' \subseteq Holders, late' = late
  PROVE  OnboardingIInv'
<1> USE OnboardingHas
<1> DEFINE u == [ui EXCEPT !.widget = g, !.sdk = s]
<1>1. Commit(u, cache, failed, calls) /\ reading' = reading
  BY DEF Render
<1>2. /\ u \in Ui /\ u.wallet = ui.wallet /\ u.auth = ui.auth /\ u.profile = ui.profile
      /\ u.override = ui.override
  <2>1. ui \in Ui
    OBVIOUS
  <2>2. u \in Ui
    BY ONLY <2>1, g \in {"idle", "asked", "token", "open", "error"}, s \in {"absent", "ready", "dead"} DEF Ui, u
  <2>3. /\ u.wallet = ui.wallet /\ u.auth = ui.auth /\ u.profile = ui.profile
        /\ u.override = ui.override
    BY ONLY <2>1 DEF Ui, u
  <2> QED
    BY ONLY <2>2, <2>3
<1> HIDE DEF u
<1>3. ~late => OfWallet(u)
  BY <1>2 DEF OfWallet
<1>4. ~late => HasFile(u, file')
  <2>1. ~late /\ ui.override = "identity" => ui.wallet \in Holders
    BY DEF HasFile, OfWallet, Ui, Auth
  <2> QED
    BY <1>2, <2>1 DEF HasFile
<1>5. ~late => OwnFiles(calls, file')
  BY CallFields DEF OwnFiles
<1> QED
  BY <1>1, <1>2, <1>3, <1>4, <1>5, StepKeeps

LEMMA StartKycKeeps == OnboardingIInv /\ StartKyc => OnboardingIInv'
<1> SUFFICES ASSUME OnboardingIInv, StartKyc PROVE OnboardingIInv'
  OBVIOUS
<1>1. /\ Render([ui EXCEPT !.widget = "asked"], calls) /\ file' = file /\ docs' = docs /\ late' = late
  BY DEF StartKyc, apiVars
<1>2. [ui EXCEPT !.widget = "asked"] = [ui EXCEPT !.widget = "asked", !.sdk = ui.sdk]
      /\ ui.sdk \in {"absent", "ready", "dead"}
  BY OnboardingHas DEF Ui
<1> QED
  BY <1>1, <1>2, OnboardingHas, WidgetKeeps

LEMMA SessionKeeps == OnboardingIInv /\ Session => OnboardingIInv'
<1> SUFFICES ASSUME OnboardingIInv, Session PROVE OnboardingIInv'
  OBVIOUS
<1>1. PICK g \in {"token", "error"} : Render([ui EXCEPT !.widget = g], calls)
  BY DEF Session
<1>2. file' = file /\ docs' = docs /\ late' = late
  BY DEF Session, apiVars
<1>3. [ui EXCEPT !.widget = g] = [ui EXCEPT !.widget = g, !.sdk = ui.sdk]
      /\ ui.sdk \in {"absent", "ready", "dead"}
  BY OnboardingHas DEF Ui
<1> QED
  BY <1>1, <1>2, <1>3, OnboardingHas, WidgetKeeps

LEMMA LaunchKeeps == OnboardingIInv /\ Launch => OnboardingIInv'
<1> SUFFICES ASSUME OnboardingIInv, Launch PROVE OnboardingIInv'
  OBVIOUS
<1> USE OnboardingHas
<1>1. docs' = docs /\ late' = late
  BY DEF Launch
<1>2. PICK g \in {"open", "error"}, s \in {"absent", "ready", "dead"} :
        Render([ui EXCEPT !.widget = g, !.sdk = s], calls)
  <2>1. [ui EXCEPT !.widget = "error"] = [ui EXCEPT !.widget = "error", !.sdk = ui.sdk]
        /\ ui.sdk \in {"absent", "ready", "dead"}
    BY DEF Ui
  <2> QED
    BY <2>1 DEF Launch
<1>3. /\ file' \in [Holders -> States]
      /\ \A w \in Holders : file[w] # "none" => file'[w] # "none"
  <2>1. file' = file \/ file' = [file EXCEPT ![ui.auth.of] = IF @ = "none" THEN "pending" ELSE @]
    BY DEF Launch
  <2>2. CASE file' = [file EXCEPT ![ui.auth.of] = IF @ = "none" THEN "pending" ELSE @]
    <3>1. \A w \in Holders : file'[w] = IF w = ui.auth.of /\ file[w] = "none" THEN "pending" ELSE file[w]
      BY <2>2
    <3> QED
      BY <2>2, <3>1 DEF States
  <2> QED
    BY <2>1, <2>2
<1> QED
  BY <1>1, <1>2, <1>3, WidgetKeeps

LEMMA FinishKeeps == OnboardingIInv /\ Finish => OnboardingIInv'
<1> SUFFICES ASSUME OnboardingIInv, Finish PROVE OnboardingIInv'
  OBVIOUS
<1> USE OnboardingHas
<1>1. Card = "identity" /\ Go(After("identity")) /\ file' = file /\ late' = late
  BY DEF Finish
<1>2. After("identity") = "status"
  BY DEF After
<1>3. ui.auth # None
  BY <1>1, CardHas DEF Card
<1>4. ui.auth.of \in Holders
  BY <1>3 DEF Ui, Auth
<1>5. docs' \subseteq Holders
  BY <1>4 DEF Finish
<1> QED
  BY <1>1, <1>2, <1>5, GoKeeps DEF Steps

LEMMA RestartKeeps == OnboardingIInv /\ Restart => OnboardingIInv'
BY GoKeeps, OnboardingHas DEF Restart, apiVars, Steps

LEMMA SelfieFromStatusKeeps == OnboardingIInv /\ SelfieFromStatus => OnboardingIInv'
BY GoKeeps, OnboardingHas DEF SelfieFromStatus, apiVars, Steps

LEMMA BackKeeps == OnboardingIInv /\ Back => OnboardingIInv'
BY GoKeeps, OnboardingHas DEF Back, apiVars, Steps

LEMMA ReviewKeeps == OnboardingIInv /\ (\E w \in Holders : Review(w)) => OnboardingIInv'
<1> SUFFICES ASSUME OnboardingIInv, NEW w \in Holders, Review(w) PROVE OnboardingIInv'
  OBVIOUS
<1> USE OnboardingHas
<1>1. /\ ui' = ui /\ cache' = cache /\ failed' = failed /\ calls' = calls /\ reading' = reading
      /\ docs' = docs /\ late' = late
  BY DEF Review
<1>2. PICK v \in States \ {"none"} : file' = [file EXCEPT ![w] = v]
  BY OnboardingAssumption DEF Review, States
<1>3. /\ file' \in [Holders -> States] /\ \A h \in Holders : file[h] # "none" => file'[h] # "none"
  BY <1>2
<1>4. OnboardingTyped'
  BY <1>1, <1>3 DEF OnboardingTyped
<1>5. Card' = Card
  BY <1>1 DEF Card
<1>6. ~late => HasFile(ui, file')
  <2>1. ~late /\ ui.override = "identity" => ui.wallet \in Holders
    BY DEF HasFile, OfWallet, Ui, Auth
  <2> QED
    BY <1>3, <2>1 DEF HasFile
<1>7. ~late => OwnFiles(calls, file')
  BY <1>3, CallFields DEF OwnFiles
<1> QED
  BY <1>1, <1>4, <1>5, <1>6, <1>7 DEF OnboardingIInv, Timely

(* Every step of the wizard. *)
LEMMA OnboardingSteps == OnboardingIInv /\ OnboardingNext => OnboardingIInv'
<1> SUFFICES ASSUME OnboardingIInv, OnboardingNext PROVE OnboardingIInv'
  OBVIOUS
<1>1. CASE Forward
  <2>1. CASE \E x \in calls : Prompt(x) \/ Signed(x) \/ File(x) \/ Filed(x)
    BY <2>1, PromptKeeps, SignedKeeps, FileKeeps, FiledKeeps
  <2>2. CASE Sign \/ PassSelfie \/ FillProfile \/ Submit \/ SignInAgain
    BY <2>2, SignKeeps, PassSelfieKeeps, FillProfileKeeps, SubmitKeeps, SignInAgainKeeps
  <2>3. CASE StartKyc \/ Session \/ Launch \/ Finish
    BY <2>3, StartKycKeeps, SessionKeeps, LaunchKeeps, FinishKeeps
  <2> QED
    BY <1>1, <2>1, <2>2, <2>3 DEF Forward
<1>2. CASE Reload \/ Ask \/ Expire \/ Restart \/ SelfieFromStatus \/ Back
  BY <1>2, ReloadKeeps, AskKeeps, ExpireKeeps, RestartKeeps, SelfieFromStatusKeeps, BackKeeps
<1>3. CASE \E w \in Holders \cup {None} : Switch(w)
  BY <1>3, SwitchKeeps
<1>4. CASE \E r \in reading : Answered(r)
  BY <1>4, AnsweredKeeps
<1>5. CASE \E w \in Holders : Review(w)
  BY <1>5, ReviewKeeps
<1>6. CASE \E x \in calls : Refuse(x)
  BY <1>6, RefuseKeeps
<1> QED
  BY <1>1, <1>2, <1>3, <1>4, <1>5, <1>6 DEF OnboardingNext

LEMMA OnboardingRests == OnboardingIInv /\ UNCHANGED onboardingVars => OnboardingIInv'
<1> SUFFICES ASSUME OnboardingIInv, UNCHANGED onboardingVars PROVE OnboardingIInv'
  OBVIOUS
<1>1. /\ ui' = ui /\ cache' = cache /\ failed' = failed /\ calls' = calls /\ reading' = reading
      /\ file' = file /\ docs' = docs /\ late' = late
  BY DEF onboardingVars
<1> QED
  BY <1>1 DEF OnboardingIInv, OnboardingTyped, Card

(* The identity check has a file to go into. *)
LEMMA IdentityCheckHasAFile == OnboardingIInv => IdentityHasAFile
<1> SUFFICES ASSUME OnboardingIInv, Card = "identity", ~late PROVE file[ui.auth.of] # "none"
  BY DEF IdentityHasAFile
<1>1. ui.override = "identity" /\ ui.auth # None
  BY OnboardingHas, CardHas DEF Card
<1> QED
  BY <1>1, OnboardingHas DEF OfWallet, HasFile

LEMMA StepsFileOwnForms ==
  OnboardingIInv =>
    \A x \in calls \ calls' :
      x.kind = "submit" /\ Valid(x.auth) /\ ~late => x.profile = x.auth.of
BY OnboardingHas DEF OwnForms

-----------------------------------------------------------------------------
(* The issuer's page.  As long as no file was picked over one still being read,
   what a picker has read is what it names, and so is what was sent. *)
NamesAreRead ==
  \A p \in Pickers :
    /\ form[p].read \in {form[p].named, Nothing}
    /\ \A f \in Files : <<p, f>> \in picking => form[p].named = f
WhatIsReadHasAName ==
  \A p \in Pickers :
    form[p].read # Nothing \/ (\E f \in Files : <<p, f>> \in picking) => form[p].named # Nothing
Named(d) == d.sends.document = d.shows.document /\ d.sends.logo \in {d.shows.logo, Nothing}
Requests == ({quoting, draft} \ {Nothing}) \cup anchors

IssuanceIInv ==
  /\ IssuanceTypeOK /\ overlapped \in BOOLEAN
  /\ WhatIsReadHasAName
  /\ ~overlapped => NamesAreRead /\ \A d \in Requests : Named(d)
  /\ listTx = "confirmed" => listed
  /\ AnchoredIsListed

LEMMA IssuanceStarts == IssuanceInit => IssuanceIInv
<1> SUFFICES ASSUME IssuanceInit PROVE IssuanceIInv
  OBVIOUS
<1> USE DEF IssuanceInit
<1>1. form \in [Pickers -> [named: Files \cup {Nothing}, read: Files \cup {Nothing}]]
  BY DEF EmptyForm
<1>2. IssuanceTypeOK
  <2>1. quoting \in Draft \cup {Nothing} /\ draft \in Draft \cup {Nothing}
    OBVIOUS
  <2>2. sent \in 0 .. 2
    OBVIOUS
  <2>3. listed \in BOOLEAN
    BY Zenon
  <2> QED
    BY <1>1, <2>1, <2>2, <2>3 DEF IssuanceTypeOK
<1>3. NamesAreRead /\ WhatIsReadHasAName
  BY DEF NamesAreRead, WhatIsReadHasAName, EmptyForm
<1> QED
  BY <1>2, <1>3 DEF IssuanceIInv, Requests, AnchoredIsListed

(* The pickers and the requests of one state. *)
LEMMA PickKeeps ==
  ASSUME IssuanceIInv, NEW p \in Pickers, NEW f \in Files, Pick(p, f)
  PROVE  IssuanceIInv'
<1>1. /\ draft = Nothing
      /\ form' = [form EXCEPT ![p] = [named |-> f, read |-> Nothing]]
      /\ picking' = picking \cup {<<p, f>>}
      /\ overlapped' = (overlapped \/ \E g \in Files : <<p, g>> \in picking)
      /\ account' = account /\ quoting' = quoting /\ draft' = draft /\ listTx' = listTx
      /\ sender' = sender /\ sent' = sent /\ listed' = listed /\ anchors' = anchors
      /\ anchoring' = anchoring
  BY DEF Pick, listingVars, ledgerVars
<1>2. IssuanceTypeOK /\ overlapped \in BOOLEAN
  BY DEF IssuanceIInv
<1>3. IssuanceTypeOK'
  <2>1. form' \in [Pickers -> [named: Files \cup {Nothing}, read: Files \cup {Nothing}]]
    BY <1>1, <1>2 DEF IssuanceTypeOK
  <2> QED
    BY <1>1, <1>2, <2>1 DEF IssuanceTypeOK
<1>4. ASSUME ~overlapped' PROVE NamesAreRead' /\ \A d \in Requests' : Named(d)
  <2>1. ~overlapped /\ \A g \in Files : <<p, g>> \notin picking
    BY <1>1, <1>4
  <2>2. NamesAreRead /\ \A d \in Requests : Named(d)
    BY <2>1 DEF IssuanceIInv
  <2>3. \A q \in Pickers : form'[q] = IF q = p THEN [named |-> f, read |-> Nothing] ELSE form[q]
    BY <1>1, <1>2 DEF IssuanceTypeOK
  <2>4. NamesAreRead'
    BY <1>1, <2>1, <2>2, <2>3 DEF NamesAreRead
  <2> QED
    BY <1>1, <2>2, <2>4 DEF Requests
<1>5. overlapped' \in BOOLEAN
  BY <1>1, Zenon
<1>6. WhatIsReadHasAName'
  <2>1. \A q \in Pickers : form'[q] = IF q = p THEN [named |-> f, read |-> Nothing] ELSE form[q]
    BY <1>1, <1>2 DEF IssuanceTypeOK
  <2>2. f # Nothing
    BY IssuanceAssumption
  <2> QED
    BY <1>1, <2>1, <2>2 DEF IssuanceIInv, WhatIsReadHasAName
<1> QED
  BY <1>1, <1>3, <1>4, <1>5, <1>6 DEF IssuanceIInv, AnchoredIsListed

LEMMA FileReadKeeps ==
  ASSUME IssuanceIInv, NEW p \in Pickers, NEW f \in Files, FileRead(p, f)
  PROVE  IssuanceIInv'
<1>1. /\ <<p, f>> \in picking /\ picking' = picking \ {<<p, f>>}
      /\ form' = [form EXCEPT ![p].read = f] \/ form' = form
      /\ account' = account /\ quoting' = quoting /\ draft' = draft /\ listTx' = listTx
      /\ sender' = sender /\ sent' = sent /\ listed' = listed /\ anchors' = anchors
      /\ anchoring' = anchoring /\ overlapped' = overlapped
  BY DEF FileRead, listingVars, ledgerVars
<1>2. IssuanceTypeOK
  BY DEF IssuanceIInv
<1>3. \/ form' = form
      \/ form' = [form EXCEPT ![p] = [named |-> form[p].named, read |-> f]]
  BY <1>1, <1>2 DEF IssuanceTypeOK
<1>4. IssuanceTypeOK'
  <2>1. form' \in [Pickers -> [named: Files \cup {Nothing}, read: Files \cup {Nothing}]]
    BY <1>2, <1>3 DEF IssuanceTypeOK
  <2> QED
    BY <1>1, <1>2, <2>1 DEF IssuanceTypeOK
<1>5. ASSUME ~overlapped, NamesAreRead PROVE NamesAreRead'
  <2>1. form[p].named = f
    BY <1>1, <1>5 DEF NamesAreRead
  <2>2. \A q \in Pickers : form'[q] \in {form[q]} \cup (IF q = p THEN {[named |-> f, read |-> f]} ELSE {})
    BY <1>2, <1>3, <2>1 DEF IssuanceTypeOK
  <2> QED
    BY <1>1, <1>5, <2>1, <2>2 DEF NamesAreRead
<1>6. WhatIsReadHasAName'
  <2>1. \A q \in Pickers : form'[q].named = form[q].named /\ (q # p => form'[q].read = form[q].read)
    BY <1>2, <1>3 DEF IssuanceTypeOK
  <2> QED
    BY <1>1, <2>1 DEF IssuanceIInv, WhatIsReadHasAName
<1>7. ~overlapped => NamesAreRead' /\ \A d \in Requests' : Named(d)
  BY <1>1, <1>5 DEF IssuanceIInv, Requests
<1> QED
  BY <1>1, <1>4, <1>6, <1>7 DEF IssuanceIInv, Requests, AnchoredIsListed

(* A step that leaves the form alone, sends nothing the page had not sent and
   takes no listing back. *)
LEMMA FormRests ==
  ASSUME IssuanceIInv, IssuanceTypeOK', form' = form, picking' = picking, overlapped' = overlapped,
         Requests' \subseteq Requests, listTx' = "confirmed" => listed', AnchoredIsListed'
  PROVE  IssuanceIInv'
<1>1. NamesAreRead' = NamesAreRead /\ WhatIsReadHasAName' = WhatIsReadHasAName
  BY DEF NamesAreRead, WhatIsReadHasAName
<1> QED
  BY <1>1 DEF IssuanceIInv

LEMMA SubmitInvoiceKeeps == IssuanceIInv /\ SubmitInvoice => IssuanceIInv'
<1> SUFFICES ASSUME IssuanceIInv, SubmitInvoice PROVE IssuanceIInv'
  OBVIOUS
<1> DEFINE q == [sends |-> [p \in Pickers |-> form[p].read], shows |-> [p \in Pickers |-> form[p].named],
                 issuer |-> account, expired |-> FALSE]
<1>1. /\ form["document"].read # Nothing /\ quoting' = q
      /\ picking' = picking /\ form' = form
      /\ account' = account /\ draft' = draft /\ listTx' = listTx
      /\ sender' = sender /\ sent' = sent /\ listed' = listed /\ anchors' = anchors
      /\ anchoring' = anchoring /\ overlapped' = overlapped
  BY DEF SubmitInvoice, listingVars, ledgerVars
<1>2. IssuanceTypeOK /\ overlapped \in BOOLEAN
  BY DEF IssuanceIInv
<1>3. /\ form["document"].read \in Files /\ form["document"].named \in Files
      /\ form["logo"].read \in Files \cup {Nothing} /\ form["logo"].named \in Files \cup {Nothing}
  BY <1>1, <1>2 DEF IssuanceIInv, WhatIsReadHasAName, IssuanceTypeOK, Pickers
<1>4. q \in Draft
  <2>1. q.sends \in Attachments /\ q.shows \in Attachments
    BY <1>3 DEF Attachments, Pickers
  <2> QED
    BY <1>2, <2>1 DEF Draft, IssuanceTypeOK
<1>5. NamesAreRead => Named(q)
  BY <1>3, IssuanceAssumption DEF NamesAreRead, Named, Pickers
<1> HIDE DEF q
<1>6. IssuanceTypeOK'
  BY <1>1, <1>2, <1>4 DEF IssuanceTypeOK
<1>7. NamesAreRead' = NamesAreRead /\ WhatIsReadHasAName' = WhatIsReadHasAName
  BY <1>1 DEF NamesAreRead, WhatIsReadHasAName
<1>8. ~overlapped => \A d \in Requests' : Named(d)
  BY <1>1, <1>5 DEF IssuanceIInv, Requests
<1> QED
  BY <1>1, <1>6, <1>7, <1>8 DEF IssuanceIInv, AnchoredIsListed

LEMMA QuotedKeeps == IssuanceIInv /\ Quoted => IssuanceIInv'
<1> SUFFICES ASSUME IssuanceIInv, Quoted PROVE IssuanceIInv'
  OBVIOUS
<1>1. /\ quoting # Nothing /\ quoting' = Nothing
      /\ account' = account /\ listTx' = listTx
      /\ sender' = sender /\ sent' = sent /\ listed' = listed /\ anchors' = anchors
      /\ anchoring' = anchoring /\ overlapped' = overlapped
  BY DEF Quoted, listingVars, ledgerVars
<1>2. IssuanceTypeOK /\ AnchoredIsListed /\ (listTx = "confirmed" => listed)
  BY DEF IssuanceIInv
<1>3. CASE draft' = quoting /\ form' = EmptyForm /\ picking' = {}
  <2>1. form' \in [Pickers -> [named: Files \cup {Nothing}, read: Files \cup {Nothing}]]
    BY <1>3 DEF EmptyForm
  <2>2. IssuanceTypeOK'
    BY <1>1, <1>2, <1>3, <2>1 DEF IssuanceTypeOK
  <2>3. NamesAreRead' /\ WhatIsReadHasAName'
    BY <1>3 DEF NamesAreRead, WhatIsReadHasAName, EmptyForm
  <2>4. Requests' \subseteq Requests
    BY <1>1, <1>3 DEF Requests
  <2> QED
    BY <1>1, <1>2, <2>2, <2>3, <2>4 DEF IssuanceIInv, AnchoredIsListed
<1>4. CASE UNCHANGED <<draft, form, picking>>
  <2>1. IssuanceTypeOK'
    BY <1>1, <1>2, <1>4 DEF IssuanceTypeOK
  <2> QED
    BY <1>1, <1>2, <1>4, <2>1, FormRests DEF Requests, AnchoredIsListed
<1> QED
  BY <1>3, <1>4 DEF Quoted

LEMMA QuoteExpiresKeeps == IssuanceIInv /\ QuoteExpires => IssuanceIInv'
<1> SUFFICES ASSUME IssuanceIInv, QuoteExpires PROVE IssuanceIInv'
  OBVIOUS
<1>1. /\ draft # Nothing /\ draft' = [draft EXCEPT !.expired = TRUE]
      /\ form' = form /\ picking' = picking /\ quoting' = quoting
      /\ account' = account /\ listTx' = listTx
      /\ sender' = sender /\ sent' = sent /\ listed' = listed /\ anchors' = anchors
      /\ anchoring' = anchoring /\ overlapped' = overlapped
  BY DEF QuoteExpires, listingVars, ledgerVars
<1>2. IssuanceTypeOK
  BY DEF IssuanceIInv
<1>3. draft \in Draft
  BY <1>1, <1>2 DEF IssuanceTypeOK
<1>4. draft' \in Draft /\ draft'.sends = draft.sends /\ draft'.shows = draft.shows
  <2> DEFINE d == [draft EXCEPT !.expired = TRUE]
  <2>1. d \in Draft /\ d.sends = draft.sends /\ d.shows = draft.shows
    BY <1>3 DEF Draft
  <2> QED
    BY <1>1, <2>1
<1>5. IssuanceTypeOK'
  <2>1. draft' # Nothing
    BY <1>4, IssuanceAssumption
  <2> QED
    BY <1>1, <1>2, <1>4, <2>1 DEF IssuanceTypeOK
<1>6. NamesAreRead' = NamesAreRead /\ WhatIsReadHasAName' = WhatIsReadHasAName
  BY <1>1 DEF NamesAreRead, WhatIsReadHasAName
<1>7. (\A d \in Requests : Named(d)) => \A d \in Requests' : Named(d)
  <2>1. Named(draft) => Named(draft')
    BY <1>4 DEF Named
  <2>2. draft \in Requests /\ Requests' \subseteq Requests \cup {draft'}
    BY <1>1 DEF Requests
  <2> QED
    BY <2>1, <2>2
<1> QED
  BY <1>1, <1>5, <1>6, <1>7 DEF IssuanceIInv, AnchoredIsListed

LEMMA ListingKeeps ==
  IssuanceIInv /\ ((\E a \in Issuers : SwitchAccount(a)) \/ List \/ ListSent \/ ReceiptLost) => IssuanceIInv'
<1> SUFFICES ASSUME IssuanceIInv, (\E a \in Issuers : SwitchAccount(a)) \/ List \/ ListSent \/ ReceiptLost
             PROVE  IssuanceIInv'
  OBVIOUS
<1>1. IssuanceTypeOK /\ AnchoredIsListed
  BY DEF IssuanceIInv
<1>2. /\ form' = form /\ picking' = picking /\ quoting' = quoting /\ draft' = draft
      /\ anchoring' = anchoring /\ overlapped' = overlapped /\ listed' = listed /\ anchors' = anchors
      /\ account' \in Issuers /\ sender' \in Issuers /\ sent' \in 0 .. 2
      /\ \/ listTx' = listTx
         \/ listTx' = "sending" /\ listTx = "idle" /\ draft # Nothing
         \/ listTx' \in {"idle", "pending"} /\ listTx \in {"sending", "pending"}
  BY <1>1 DEF SwitchAccount, List, ListSent, ReceiptLost, IssuanceTypeOK, pageVars, listingVars, ledgerVars
<1>3. IssuanceTypeOK'
  BY <1>1, <1>2 DEF IssuanceTypeOK
<1> QED
  BY <1>1, <1>2, <1>3, FormRests DEF Requests, AnchoredIsListed, IssuanceIInv

LEMMA MineKeeps == IssuanceIInv /\ Mine => IssuanceIInv'
<1> SUFFICES ASSUME IssuanceIInv, Mine PROVE IssuanceIInv'
  OBVIOUS
<1>1. IssuanceTypeOK /\ AnchoredIsListed /\ (listTx = "confirmed" => listed)
  BY DEF IssuanceIInv
<1>2. /\ form' = form /\ picking' = picking /\ quoting' = quoting /\ draft' = draft
      /\ overlapped' = overlapped /\ anchors' = anchors /\ account' = account /\ sender' = sender
      /\ sent > 0 /\ sent' = sent - 1
  BY DEF Mine
<1>3. listed' = TRUE \/ listed' = listed
  BY DEF Mine
<1>4. \/ listTx' = listTx /\ anchoring' = anchoring
      \/ listTx = "pending" /\ listTx' = "idle" /\ anchoring' = anchoring
      \/ listTx = "pending" /\ listTx' = "confirmed" /\ anchoring' = "working" /\ listed' = TRUE
  BY DEF Mine, Confirmed
<1>5. sent' \in 0 .. 2
  BY <1>1, <1>2 DEF IssuanceTypeOK
<1>6. listed' \in BOOLEAN
  BY <1>1, <1>3, Zenon DEF IssuanceTypeOK
<1>7. IssuanceTypeOK'
  BY <1>1, <1>2, <1>4, <1>5, <1>6 DEF IssuanceTypeOK
<1>8. AnchoredIsListed' /\ (listTx' = "confirmed" => listed')
  BY <1>1, <1>2, <1>3, <1>4 DEF AnchoredIsListed
<1> QED
  BY <1>1, <1>2, <1>7, <1>8, FormRests DEF Requests

LEMMA AnchoringKeeps == IssuanceIInv /\ (Attested \/ Retry) => IssuanceIInv'
<1> SUFFICES ASSUME IssuanceIInv, Attested \/ Retry PROVE IssuanceIInv'
  OBVIOUS
<1>1. IssuanceTypeOK /\ AnchoredIsListed /\ (listTx = "confirmed" => listed)
  BY DEF IssuanceIInv
<1>2. /\ form' = form /\ picking' = picking /\ quoting' = quoting /\ draft' = draft
      /\ overlapped' = overlapped /\ account' = account /\ sender' = sender
      /\ sent' = sent /\ listTx' = listTx /\ listed' = listed
      /\ anchoring \in {"working", "failed", "taken"}
      /\ anchoring' \in {"done", "taken", "disabled", "failed", "working"}
      /\ anchors' \in {anchors, anchors \cup {draft}}
  BY DEF Attested, Retry, listingVars, ledgerVars
<1>3. draft # Nothing /\ listTx = "confirmed" /\ listed
  BY <1>1, <1>2 DEF IssuanceTypeOK
<1>4. IssuanceTypeOK'
  BY <1>1, <1>2, <1>3 DEF IssuanceTypeOK
<1> QED
  BY <1>1, <1>2, <1>3, <1>4, FormRests DEF Requests, AnchoredIsListed

LEMMA LeavingKeeps == IssuanceIInv /\ (Discard \/ LeaveIssuer) => IssuanceIInv'
<1> SUFFICES ASSUME IssuanceIInv, Discard \/ LeaveIssuer PROVE IssuanceIInv'
  OBVIOUS
<1>1. IssuanceTypeOK /\ AnchoredIsListed /\ (listTx = "confirmed" => listed)
  BY DEF IssuanceIInv
<1>2. CASE Discard
  <2>1. /\ form' = form /\ picking' = picking /\ quoting' = quoting /\ draft' = Nothing
        /\ overlapped' = overlapped /\ account' = account /\ sender' = sender
        /\ sent' = sent /\ listTx' = listTx /\ listTx = "idle" /\ listed' = listed
        /\ anchoring' = anchoring /\ anchors' = anchors
    BY <1>2 DEF Discard, listingVars, ledgerVars
  <2>2. IssuanceTypeOK'
    BY <1>1, <2>1 DEF IssuanceTypeOK
  <2> QED
    BY <1>1, <2>1, <2>2, FormRests DEF Requests, AnchoredIsListed
<1>3. CASE LeaveIssuer
  <2>1. /\ form' = EmptyForm /\ picking' = {} /\ quoting' = Nothing /\ draft' = Nothing
        /\ overlapped' = overlapped /\ account' = account /\ sender' = sender
        /\ sent' = sent /\ listTx' = "idle" /\ listed' = listed /\ anchoring' = "idle"
        /\ (anchors' = anchors \/ (anchoring = "working" /\ anchors' = anchors \cup {draft}))
    <3>1. anchors' = anchors \/ (anchoring = "working" /\ anchors' = anchors \cup {draft})
      BY <1>3 DEF LeaveIssuer
    <3> QED
      BY <1>3, <3>1 DEF LeaveIssuer
  <2>2. form' \in [Pickers -> [named: Files \cup {Nothing}, read: Files \cup {Nothing}]]
    BY <2>1 DEF EmptyForm
  <2>3. anchoring = "working" => draft \in Draft /\ draft # Nothing /\ listed
    BY <1>1 DEF IssuanceTypeOK
  <2>4. IssuanceTypeOK'
    BY <1>1, <2>1, <2>2, <2>3 DEF IssuanceTypeOK
  <2>5. NamesAreRead' /\ WhatIsReadHasAName'
    BY <2>1 DEF NamesAreRead, WhatIsReadHasAName, EmptyForm
  <2>6. Requests' \subseteq Requests
    BY <2>1, <2>3 DEF Requests
  <2>7. AnchoredIsListed'
    BY <1>1, <2>1, <2>3 DEF AnchoredIsListed
  <2> QED
    BY <1>1, <2>1, <2>4, <2>5, <2>6, <2>7 DEF IssuanceIInv
<1> QED
  BY <1>2, <1>3

LEMMA IssuanceSteps == IssuanceIInv /\ IssuanceNext => IssuanceIInv'
BY PickKeeps, FileReadKeeps, SubmitInvoiceKeeps, QuotedKeeps, QuoteExpiresKeeps, ListingKeeps,
  MineKeeps, AnchoringKeeps, LeavingKeeps DEF IssuanceNext, IssuerForward

LEMMA IssuanceRests == IssuanceIInv /\ UNCHANGED issuanceVars => IssuanceIInv'
<1> SUFFICES ASSUME IssuanceIInv, UNCHANGED issuanceVars PROVE IssuanceIInv'
  OBVIOUS
<1>1. /\ account' = account /\ form' = form /\ picking' = picking /\ quoting' = quoting
      /\ draft' = draft /\ listTx' = listTx /\ sender' = sender /\ sent' = sent /\ listed' = listed
      /\ anchoring' = anchoring /\ anchors' = anchors /\ overlapped' = overlapped
  BY DEF issuanceVars
<1>2. IssuanceTypeOK'
  BY <1>1 DEF IssuanceIInv, IssuanceTypeOK
<1> QED
  BY <1>1, <1>2, FormRests DEF IssuanceIInv, Requests, AnchoredIsListed

LEMMA AnchorsAreNamed == IssuanceIInv => IssuanceTypeOK /\ AnchorsWhatItNamed /\ AnchoredIsListed
BY DEF IssuanceIInv, AnchorsWhatItNamed, Requests, Named

-----------------------------------------------------------------------------
(* The visitor. *)
(* Whoever was told to be on the allowlist is on it, or was taken off since the
   chain was asked. *)
VisitorIInv ==
  /\ VisitorTypeOK
  /\ \A v \in Visitors : known[v]["eligible"] = "yes" => v \in allowed \cup overtaken.cached
  /\ \A r \in reads : r.of = "eligible" /\ r.says = "yes" => r.who \in allowed \cup overtaken.asked

LEMMA VisitorStarts == VisitorInit \/ (h1 \in Visitors /\ Arrived) => VisitorIInv
<1>1. ASSUME VisitorInit PROVE VisitorIInv
  BY <1>1, VisitorAssumption DEF VisitorInit, VisitorIInv, VisitorTypeOK, Gates, Said
<1>2. ASSUME h1 \in Visitors, Arrived PROVE VisitorIInv
  BY <1>2, VisitorAssumption DEF Arrived, VisitorIInv, VisitorTypeOK, Gates, Said
<1> QED
  BY <1>1, <1>2

(* A read asked for now tells the truth. *)
LEMMA TruthIsTold ==
  ASSUME VisitorIInv, NEW v \in Visitors, NEW g \in Gates
  PROVE  LET r == [who |-> v, of |-> g, says |-> Truth(v, g)]
         IN  /\ r \in [who : Visitors, of : Gates, says : Said]
             /\ r.of = "eligible" /\ r.says = "yes" => r.who \in allowed
BY DEF Truth, Said, Gates

LEMMA WalletIsAVisitor == VisitorIInv => Wallet \in Visitors \cup {NoOne}
BY DEF VisitorIInv, VisitorTypeOK, Wallet

LEMMA VisitorSteps == VisitorIInv /\ VisitorNext => VisitorIInv'
<1> SUFFICES ASSUME VisitorIInv, VisitorNext PROVE VisitorIInv'
  OBVIOUS
<1>1. VisitorTypeOK /\ Wallet \in Visitors \cup {NoOne}
  BY WalletIsAVisitor DEF VisitorIInv
<1> USE VisitorAssumption
<1>2. CASE Pressing \/ WalletAnswers \/ Straying
  <2>1. /\ at' \in [account : Visitors \cup {NoOne}, onChain : BOOLEAN]
        /\ dialog' \in {"none", "connect", "switch"} /\ upsets' \in 0 .. MaxUpsets
        /\ UNCHANGED <<ledgerOfGates, formVars>>
    <3> DEFINE S == [account : Visitors \cup {NoOne}, onChain : BOOLEAN]
    <3>1. at \in S
      BY <1>1 DEF VisitorTypeOK
    <3>2. /\ [at EXCEPT !.onChain = TRUE] \in S /\ [at EXCEPT !.onChain = FALSE] \in S
          /\ \A v \in Visitors : [at EXCEPT !.account = v] \in S
      BY <3>1
    <3>3. at' \in S
      <4>1. CASE Pressing \/ Decline
        BY <3>1, <4>1 DEF Pressing, Press, Decline
      <4>2. CASE \E v \in Visitors, c \in BOOLEAN : Connect(v, c)
        BY <4>2 DEF Connect
      <4>3. CASE SwitchChain \/ OtherNetwork
        BY <3>2, <4>3 DEF SwitchChain, OtherNetwork
      <4>4. CASE Disconnect
        BY <4>4 DEF Disconnect
      <4>5. CASE \E v \in Visitors : OtherAccount(v)
        BY <3>2, <4>5 DEF OtherAccount
      <4> QED
        BY <1>2, <4>1, <4>2, <4>3, <4>4, <4>5 DEF WalletAnswers, Straying
    <3>4. upsets' \in {upsets} \/ Upset
      BY <1>2 DEF Pressing, Press, WalletAnswers, SwitchChain, Connect, Straying, Decline, Disconnect,
        OtherNetwork, OtherAccount
    <3>5. upsets' \in 0 .. MaxUpsets
      BY <1>1, <3>4 DEF Upset, VisitorTypeOK
    <3>6. dialog' \in {"none", "connect", "switch"} /\ UNCHANGED <<ledgerOfGates, formVars>>
      BY <1>1, <1>2 DEF Pressing, Press, WalletAnswers, SwitchChain, Connect, Straying, Decline, Disconnect,
        OtherNetwork, OtherAccount, VisitorTypeOK
    <3> QED
      BY <3>3, <3>5, <3>6
  <2> QED
    BY <1>1, <2>1 DEF VisitorIInv, VisitorTypeOK, ledgerOfGates, formVars
<1>3. CASE Verify
  <2>1. /\ allowed' = allowed \cup {Wallet} /\ Wallet # NoOne
        /\ at' = at /\ dialog' = dialog /\ associated' = associated /\ mirrored' = mirrored
        /\ known' = known /\ reads' = reads /\ associating' = associating /\ upsets' = upsets
        /\ overtaken' = overtaken
    BY <1>3 DEF Verify, OrderButton, HeaderButton, Wallet, formVars
  <2> QED
    BY <1>1, <2>1 DEF VisitorIInv, VisitorTypeOK
<1>4. CASE PressAssociate
  BY <1>1, <1>4 DEF PressAssociate, VisitorIInv, VisitorTypeOK, ledgerOfGates
<1>5. CASE AssociateEnds
  <2>1. /\ associating # NoOne /\ associating' = NoOne
        /\ at' = at /\ dialog' = dialog /\ allowed' = allowed /\ mirrored' = mirrored
        /\ known' = known /\ associated' \in {associated, associated \cup {associating}}
        /\ upsets' \in 0 .. MaxUpsets
        /\ overtaken' \in {overtaken, [overtaken EXCEPT !.asked = @ \ {Wallet}]}
    BY <1>1, <1>5 DEF AssociateEnds, Upset, VisitorTypeOK
  <2>2. /\ overtaken' \in [cached : SUBSET Visitors, asked : SUBSET Visitors]
        /\ overtaken'.cached = overtaken.cached
    BY <1>1, <2>1 DEF VisitorTypeOK
  <2>3. /\ reads' \subseteq [who : Visitors, of : Gates, says : Said]
        /\ \A r \in reads' : r.of = "eligible" /\ r.says = "yes" => r.who \in allowed \cup overtaken'.asked
    <3>1. CASE reads' = reads /\ overtaken' = overtaken
      BY <1>1, <3>1 DEF VisitorIInv, VisitorTypeOK
    <3>2. CASE reads' = {}
      BY <3>2
    <3>3. CASE Wallet \in Visitors /\ reads' = {[who |-> Wallet, of |-> g, says |-> Truth(Wallet, g)] : g \in Gates}
      BY <3>3, TruthIsTold
    <3> QED
      BY <1>1, <1>5, <3>1, <3>2, <3>3 DEF AssociateEnds
  <2> QED
    BY <1>1, <2>1, <2>2, <2>3 DEF VisitorIInv, VisitorTypeOK
<1>6. CASE MirrorCatchesUp
  BY <1>1, <1>6 DEF MirrorCatchesUp, VisitorIInv, VisitorTypeOK, formVars
<1>7. CASE Asking
  <2>1. PICK g \in Gates : AskRead(g)
    BY <1>7 DEF Asking
  <2>2. /\ Wallet \in Visitors /\ reads' = reads \cup {[who |-> Wallet, of |-> g, says |-> Truth(Wallet, g)]}
        /\ at' = at /\ dialog' = dialog /\ allowed' = allowed /\ mirrored' = mirrored
        /\ associated' = associated /\ known' = known /\ associating' = associating /\ upsets' = upsets
        /\ overtaken' = [overtaken EXCEPT !.asked = AskedNow(g)]
        /\ ~\E r \in reads : r.who = Wallet /\ r.of = g
    BY <1>1, <2>1 DEF AskRead, ledgerOfGates
  <2>3. /\ overtaken' \in [cached : SUBSET Visitors, asked : SUBSET Visitors]
        /\ overtaken'.cached = overtaken.cached /\ overtaken'.asked = AskedNow(g)
    BY <1>1, <2>2 DEF VisitorTypeOK, AskedNow
  <2>4. \A r \in reads : r.of = "eligible" /\ r.says = "yes" => r.who \in allowed \cup AskedNow(g)
    BY <2>2 DEF VisitorIInv, AskedNow
  <2> QED
    BY <1>1, <2>2, <2>3, <2>4, TruthIsTold DEF VisitorIInv, VisitorTypeOK
<1>8. CASE Answering
  <2>1. PICK r \in reads : AnswerRead(r)
    BY <1>8 DEF Answering
  <2>2. /\ reads' = reads \ {r}
        /\ at' = at /\ dialog' = dialog /\ allowed' = allowed /\ mirrored' = mirrored
        /\ associated' = associated /\ associating' = associating
        /\ upsets' \in 0 .. MaxUpsets
        /\ \/ known' = known /\ overtaken' = overtaken
           \/ /\ known' = [known EXCEPT ![r.who][r.of] = r.says]
              /\ overtaken' = [overtaken EXCEPT !.cached = Overtook(r)]
    BY <1>1, <2>1 DEF AnswerRead, FileUnder, Upset, ledgerOfGates, VisitorTypeOK
  <2>3. r.who \in Visitors /\ r.of \in Gates /\ r.says \in Said
    BY <1>1 DEF VisitorTypeOK
  <2>4. known' \in [Visitors -> [Gates -> Said]]
    <3>1. known \in [Visitors -> [Gates -> Said]]
      BY <1>1 DEF VisitorTypeOK
    <3>2. [known EXCEPT ![r.who][r.of] = r.says] \in [Visitors -> [Gates -> Said]]
      BY ONLY <3>1, <2>3
    <3> QED
      BY <2>2, <3>1, <3>2
  <2>5. /\ overtaken' \in [cached : SUBSET Visitors, asked : SUBSET Visitors]
        /\ overtaken'.asked = overtaken.asked
    <3> DEFINE S == [cached : SUBSET Visitors, asked : SUBSET Visitors]
    <3>1. overtaken \in S
      BY <1>1 DEF VisitorTypeOK
    <3>2. Overtook(r) \in SUBSET Visitors
      BY <2>3, <3>1 DEF Overtook
    <3>3. \A c \in SUBSET Visitors :
            [overtaken EXCEPT !.cached = c] \in S /\ [overtaken EXCEPT !.cached = c].asked = overtaken.asked
      BY <3>1
    <3> QED
      BY <2>2, <3>1, <3>2, <3>3
  <2>6. \A v \in Visitors : known'[v]["eligible"] = "yes" => v \in allowed \cup overtaken'.cached
    <3>1. CASE known' = known /\ overtaken' = overtaken
      BY <3>1 DEF VisitorIInv
    <3>2. CASE /\ known' = [known EXCEPT ![r.who][r.of] = r.says]
               /\ overtaken' = [overtaken EXCEPT !.cached = Overtook(r)]
      <4>1. overtaken'.cached = Overtook(r)
        BY <1>1, <3>2 DEF VisitorTypeOK
      <4>2. CASE r.of = "eligible"
        <5>1. \A v \in Visitors : known'[v]["eligible"] = IF v = r.who THEN r.says ELSE known[v]["eligible"]
          BY <1>1, <2>3, <3>2, <4>2 DEF VisitorTypeOK
        <5>2. r.says = "yes" => r.who \in allowed \cup overtaken.asked
          BY <4>2 DEF VisitorIInv
        <5>3. Overtook(r) = (overtaken.cached \ {r.who}) \cup ({r.who} \cap overtaken.asked)
          BY <4>2 DEF Overtook
        <5> QED
          BY <4>1, <5>1, <5>2, <5>3 DEF VisitorIInv
      <4>3. CASE r.of # "eligible"
        <5>1. \A v \in Visitors : known'[v]["eligible"] = known[v]["eligible"]
          BY <1>1, <2>3, <3>2, <4>3 DEF VisitorTypeOK, Gates
        <5>2. Overtook(r) = overtaken.cached
          BY <4>3 DEF Overtook
        <5> QED
          BY <4>1, <5>1, <5>2 DEF VisitorIInv
      <4> QED
        BY <4>2, <4>3
    <3> QED
      BY <2>2, <3>1, <3>2
  <2> QED
    BY <1>1, <2>2, <2>4, <2>5, <2>6 DEF VisitorIInv, VisitorTypeOK
<1>9. CASE Revoking
  <2>1. PICK v \in Visitors : Revoke(v)
    BY <1>9 DEF Revoking
  <2>2. /\ allowed' = allowed \ {v} /\ at' = at /\ dialog' = dialog /\ mirrored' = mirrored
        /\ associated' = associated /\ associating' = associating /\ known' = known /\ reads' = reads
        /\ overtaken' = [cached |-> overtaken.cached \cup {v}, asked |-> overtaken.asked \cup {v}]
        /\ upsets' \in 0 .. MaxUpsets
    BY <1>1, <2>1 DEF Revoke, Upset, VisitorTypeOK
  <2>3. /\ overtaken' \in [cached : SUBSET Visitors, asked : SUBSET Visitors]
        /\ overtaken'.cached = overtaken.cached \cup {v} /\ overtaken'.asked = overtaken.asked \cup {v}
    BY <1>1, <2>2 DEF VisitorTypeOK
  <2> QED
    BY <1>1, <2>2, <2>3 DEF VisitorIInv, VisitorTypeOK
<1> QED
  BY <1>2, <1>3, <1>4, <1>5, <1>6, <1>7, <1>8, <1>9 DEF VisitorNext

LEMMA VisitorRests == VisitorIInv /\ UNCHANGED visitorVars => VisitorIInv'
BY DEF VisitorIInv, VisitorTypeOK, visitorVars

LEMMA OrdersAreAllowed == VisitorIInv => VisitorTypeOK /\ OrdersAreForTheAllowed
<1> SUFFICES ASSUME VisitorIInv, OrderButton = "order" PROVE at.account \in allowed \cup overtaken.cached
  BY DEF VisitorIInv, OrdersAreForTheAllowed
<1>1. HeaderButton = "menu" /\ Wallet = at.account /\ at.account # NoOne
  BY DEF OrderButton, HeaderButton, Wallet
<1>2. known[Wallet]["eligible"] \notin {"no", "unknown"}
  BY <1>1 DEF OrderButton
<1>3. at.account \in Visitors /\ known[at.account]["eligible"] \in Said
  BY <1>1 DEF VisitorIInv, VisitorTypeOK, Gates
<1> QED
  BY <1>1, <1>2, <1>3 DEF VisitorIInv, Said

-----------------------------------------------------------------------------
(* The wallet's holdings. *)
(* An answer that is kept or on its way is filed under the wallet it was read
   for, calls repaid only what is, and lists what that wallet held; and of a
   settled bond whose units rest, both calls tell the same. *)
ReadsOfBonds == [key: {BondsKey}, count: 0 .. MaxListings]
ReadsOfPositions ==
  [key: Keys, of: Accounts, known: Read, first: {"none"} \cup Calls, seen: SUBSET Bonds]

LeadsNowhere == (repaid \ paying) \cup movedOn

OwnRows(rows, a) ==
  \A r \in rows : /\ r \in Row /\ r.bond \in everOwned[a]
                  /\ r.settled /\ ~r.claimable => r.bond \in LeadsNowhere

Telling(x) ==
  /\ x.of = x.key.of /\ x.known.settled \subseteq repaid
  /\ x.first = "held" => /\ x.seen \subseteq everOwned[x.of]
                         /\ \A b \in x.seen \cap x.known.settled : owner[b] = x.of \/ b \in movedOn
  /\ x.first = "claims" => \A b \in x.known.settled \cap Claims(x.of) : b \in x.seen \/ b \in movedOn

HoldingsIInv ==
  /\ HoldingsTypeOK
  /\ DOMAIN positions = Keys
  /\ inFlight \subseteq ReadsOfBonds \cup ReadsOfPositions
  /\ bondsRead # Unread => bondsRead.settled \subseteq repaid
  /\ \A b \in Bonds : owner[b] # Nobody => b \in everOwned[owner[b]]
  /\ \A x \in inFlight : x.key # BondsKey => Telling(x)
  /\ \A k \in Keys : positions[k] # Unread => OwnRows(positions[k], k.of)

LEMMA BondsKeyIsItsOwn == BondsKey \notin Keys
BY HoldingsAssumption DEF BondsKey, Keys

LEMMA HoldingsStarts == HoldingsInit => HoldingsIInv
<1> SUFFICES ASSUME HoldingsInit PROVE HoldingsIInv
  OBVIOUS
<1>1. /\ listings = 1 /\ owner \in [Bonds -> Accounts \cup {Nobody}] /\ repaid = {}
      /\ visit \in [page: Readers \cup {"other"}, account: {CHOOSE a \in Accounts : TRUE}]
      /\ bondsRead = Unread /\ positions = [k \in Keys |-> Unread] /\ inFlight = {}
      /\ everOwned = [a \in Accounts |-> {b \in Bonds : owner[b] = a}]
  BY DEF HoldingsInit
<1>2. (CHOOSE a \in Accounts : TRUE) \in Accounts
  BY HoldingsAssumption
<1>3. listings \in 0 .. MaxListings
  BY <1>1, HoldingsAssumption
<1>4. visit \in [page: Readers \cup {"other"}, account: Accounts]
  BY <1>1, <1>2
<1>5. HoldingsTypeOK
  BY <1>1, <1>3, <1>4 DEF HoldingsTypeOK, HoldingsInit
<1>6. \A b \in Bonds : owner[b] # Nobody => b \in everOwned[owner[b]]
  BY <1>1
<1> QED
  BY <1>1, <1>5, <1>6 DEF HoldingsIInv

(* The page's key, and what it reads its rows from. *)
LEMMA PageReads ==
  ASSUME HoldingsIInv
  PROVE  /\ visit.account \in Accounts /\ PositionsKey \in Keys /\ PositionsKey.of = visit.account
         /\ Known # Unread => Known \in Read /\ Known.settled \subseteq repaid
         /\ OnChain \in Read /\ OnChain.settled = repaid
<1>1. /\ visit \in [page: Readers \cup {"other"}, account: Accounts]
      /\ bondsRead \in Read \cup {Unread} /\ listings \in 0 .. MaxListings /\ repaid \subseteq 1 .. listings
      /\ bondsRead # Unread => bondsRead.settled \subseteq repaid
  BY DEF HoldingsIInv, HoldingsTypeOK
<1>2. MaxListings \in Nat
  BY HoldingsAssumption
<1>3. bondsRead # Unread => bondsRead.count \in 0 .. MaxListings /\ bondsRead \in Read
  BY <1>1 DEF Read
<1>4. repaid \subseteq Bonds
  BY <1>1, <1>2 DEF Bonds
<1>5. PositionsKey \in Keys /\ PositionsKey.of = visit.account /\ visit.account \in Accounts
  BY <1>1, <1>2, <1>3 DEF PositionsKey, Keys
<1>6. [count |-> 0, settled |-> {}] \in Read
  BY <1>2 DEF Read
<1>7. Known # Unread => Known \in Read /\ Known.settled \subseteq repaid
  BY <1>1, <1>3, <1>6 DEF Known
<1>8. OnChain \in Read /\ OnChain.settled = repaid
  BY <1>1, <1>4 DEF OnChain, Read
<1> QED
  BY <1>5, <1>7, <1>8

(* A wallet's holdings are some it ever held. *)
LEMMA HeldIsOwned ==
  ASSUME HoldingsIInv, NEW a \in Accounts
  PROVE  Held(a) \subseteq everOwned[a] /\ Held(a) \subseteq Bonds
BY HoldingsAssumption DEF HoldingsIInv, Held

(* Rows as they are delivered, whichever call was answered first. *)
LEMMA RowsDelivered ==
  ASSUME HoldingsIInv, NEW a \in Accounts, NEW seen \in Read, NEW held, NEW claims,
         held \subseteq everOwned[a], seen.settled \subseteq repaid,
         \A b \in held \cap seen.settled : b \in claims \/ b \in LeadsNowhere
  PROVE  OwnRows(RowsOf(seen, held, claims), a) /\ RowsOf(seen, held, claims) # Unread
<1>1. \A b \in 1 .. seen.count : b \in Bonds
  BY HoldingsAssumption DEF Read, Bonds
<1>2. ASSUME NEW b \in held \cap 1 .. seen.count
      PROVE  LET r == [bond |-> b, settled |-> b \in seen.settled, claimable |-> b \in claims]
             IN  /\ r \in Row /\ r.bond \in everOwned[a]
                 /\ r.settled /\ ~r.claimable => r.bond \in LeadsNowhere
  <2> DEFINE r == [bond |-> b, settled |-> b \in seen.settled, claimable |-> b \in claims]
  <2>1. b \in Bonds
    BY <1>1
  <2>2. r \in Row
    BY <2>1 DEF Row
  <2>3. r.bond = b /\ (r.settled <=> b \in seen.settled) /\ (r.claimable <=> b \in claims)
    OBVIOUS
  <2> HIDE DEF r
  <2>4. r.settled /\ ~r.claimable => r.bond \in LeadsNowhere
    BY <2>3
  <2>5. r.bond \in everOwned[a]
    BY <2>3
  <2> QED
    BY <2>2, <2>4, <2>5 DEF r
<1>3. OwnRows(RowsOf(seen, held, claims), a)
  BY <1>2 DEF RowsOf, OwnRows
<1>4. RowsOf(seen, held, claims) \in SUBSET Row
  BY <1>3 DEF OwnRows
<1> QED
  BY <1>3, <1>4, HoldingsAssumption

(* The chain moves on: nothing it moves makes an answer that was true untrue. *)
LEMMA ChainKeeps ==
  ASSUME HoldingsIInv, UNCHANGED pageState,
         listings' \in 0 .. MaxListings, owner' \in [Bonds -> Accounts \cup {Nobody}],
         repaid' \subseteq 1 .. listings', everOwned' \in [Accounts -> SUBSET Bonds],
         repaid \subseteq repaid', \A a \in Accounts : everOwned[a] \subseteq everOwned'[a],
         paying' \subseteq repaid', movedOn' \subseteq repaid', movedOn \subseteq movedOn',
         \A b \in repaid \ movedOn' : owner'[b] = owner[b] /\ (b \in paying' <=> b \in paying),
         \A b \in Bonds : owner'[b] # Nobody => b \in everOwned'[owner'[b]]
  PROVE  HoldingsIInv'
<1>1. visit' = visit /\ bondsRead' = bondsRead /\ positions' = positions /\ inFlight' = inFlight
  BY DEF pageState
<1>2. HoldingsTypeOK'
  BY <1>1 DEF HoldingsIInv, HoldingsTypeOK
<1>3. \A k \in Keys : k.of \in Accounts
  BY DEF Keys
<1>4. LeadsNowhere \subseteq LeadsNowhere'
  BY DEF LeadsNowhere
<1>5. \A k \in Keys : positions'[k] # Unread => OwnRows(positions[k], k.of)'
  BY <1>1, <1>3, <1>4 DEF HoldingsIInv, OwnRows
<1>6. ASSUME NEW x \in inFlight, x.key # BondsKey PROVE Telling(x)'
  <2>1. Telling(x) /\ x \in ReadsOfPositions
    BY <1>6 DEF HoldingsIInv, ReadsOfBonds
  <2>2. x.of \in Accounts /\ x.known.settled \subseteq repaid /\ repaid \subseteq Bonds
    <3>1. 1 .. listings \subseteq Bonds
      BY HoldingsAssumption DEF HoldingsIInv, HoldingsTypeOK, Bonds
    <3> QED
      BY <2>1, <3>1 DEF Telling, ReadsOfPositions, HoldingsIInv, HoldingsTypeOK
  <2>3. \A b \in x.known.settled \ movedOn' : /\ b \in repaid \ movedOn' /\ b \in Bonds /\ b \notin movedOn
                                             /\ owner'[b] = owner[b] /\ (b \in paying' <=> b \in paying)
    BY <2>2
  <2>4. x.first = "held" => /\ x.seen \subseteq everOwned'[x.of]
                            /\ \A b \in x.seen \cap x.known.settled : owner'[b] = x.of \/ b \in movedOn'
    BY <2>1, <2>2, <2>3 DEF Telling
  <2>5. x.first = "claims" => \A b \in x.known.settled \cap Claims(x.of)' : b \in x.seen \/ b \in movedOn'
    BY <2>1, <2>3 DEF Telling, Claims, Held
  <2> QED
    BY <2>1, <2>2, <2>4, <2>5 DEF Telling
<1> QED
  BY <1>1, <1>2, <1>5, <1>6 DEF HoldingsIInv

(* A read starts. *)
LEMMA ReadStarts ==
  ASSUME HoldingsIInv, NEW x, x \in ReadsOfBonds \cup ReadsOfPositions, x.key # BondsKey => Telling(x),
         inFlight' = inFlight \cup {x}, \A y \in inFlight : y.key # x.key,
         UNCHANGED <<bookVars, bondsRead, positions, visit>>
  PROVE  HoldingsIInv'
<1>1. HoldingsTypeOK'
  BY DEF HoldingsIInv, HoldingsTypeOK, bookVars
<1>2. ASSUME NEW y \in inFlight', y.key # BondsKey PROVE Telling(y)'
  <2>1. Telling(y)
    BY <1>2 DEF HoldingsIInv
  <2> QED
    BY <2>1 DEF Telling, Claims, Held, bookVars
<1> QED
  BY <1>1, <1>2 DEF HoldingsIInv, OwnRows, LeadsNowhere, bookVars

(* The first call of a read of positions is answered. *)
LEMMA CallAnswered ==
  ASSUME HoldingsIInv, NEW x \in inFlight, NEW call \in Calls, Called(x, call)
  PROVE  HoldingsIInv'
<1> DEFINE y == [x EXCEPT !.first = call, !.seen = AnswerTo(call, x.of)]
<1>1. /\ x.key # BondsKey /\ inFlight' = (inFlight \ {x}) \cup {y} /\ UNCHANGED bookVars
      /\ visit' = visit /\ bondsRead' = bondsRead /\ positions' = positions
  BY DEF Called
<1>2. x \in ReadsOfPositions /\ Telling(x)
  BY <1>1 DEF HoldingsIInv, ReadsOfBonds
<1>3. /\ y.key = x.key /\ y.of = x.of /\ y.known = x.known /\ y.first = call
      /\ y.seen = AnswerTo(call, x.of)
  BY <1>2 DEF ReadsOfPositions
<1>4. /\ AnswerTo(call, x.of) \subseteq Bonds
      /\ call = "held" => /\ AnswerTo(call, x.of) \subseteq everOwned[x.of]
                          /\ \A b \in AnswerTo(call, x.of) : owner[b] = x.of
      /\ call = "claims" => AnswerTo(call, x.of) = Claims(x.of)
  BY <1>2, HeldIsOwned DEF AnswerTo, Claims, Held, ReadsOfPositions
<1>5. y \in ReadsOfPositions
  BY <1>2, <1>4 DEF ReadsOfPositions
<1> HIDE DEF y
<1>6. Telling(y)
  BY <1>2, <1>3, <1>4 DEF Telling
<1>7. HoldingsTypeOK'
  BY <1>1, <1>3 DEF HoldingsIInv, HoldingsTypeOK, bookVars
<1>8. ASSUME NEW z \in inFlight', z.key # BondsKey PROVE Telling(z)'
  <2>1. Telling(z)
    BY <1>1, <1>6, <1>8 DEF HoldingsIInv
  <2> QED
    BY <1>1, <2>1 DEF Telling, Claims, Held, bookVars
<1> QED
  BY <1>1, <1>5, <1>7, <1>8 DEF HoldingsIInv, OwnRows, LeadsNowhere, bookVars

(* The answer is in. *)
LEMMA AnswerDelivered ==
  ASSUME HoldingsIInv, NEW x \in inFlight, Delivered(x)
  PROVE  HoldingsIInv'
<1>1. HoldingsTypeOK /\ repaid \subseteq 1 .. listings /\ 1 .. listings \subseteq Bonds
  BY HoldingsAssumption DEF HoldingsIInv, HoldingsTypeOK, Bonds
<1>2. inFlight' = inFlight \ {x} /\ visit' = visit /\ UNCHANGED bookVars
  BY DEF Delivered
<1>3. ASSUME NEW y \in inFlight', y.key # BondsKey PROVE Telling(y)'
  <2>1. Telling(y)
    BY <1>2, <1>3 DEF HoldingsIInv
  <2> QED
    BY <1>2, <2>1 DEF Telling, Claims, Held, bookVars
<1>4. CASE x.key = BondsKey
  <2> DEFINE answer == [count |-> x.count, settled |-> repaid \cap 1 .. x.count]
  <2>1. bondsRead' = answer /\ positions' = positions
    BY <1>4 DEF Delivered
  <2>2. x \in ReadsOfBonds
    BY <1>4, BondsKeyIsItsOwn DEF HoldingsIInv, ReadsOfPositions
  <2>3. answer \in Read /\ answer.settled \subseteq repaid
    BY <1>1, <2>2 DEF ReadsOfBonds, Read
  <2> HIDE DEF answer
  <2>4. HoldingsTypeOK'
    BY <1>1, <1>2, <2>1, <2>3 DEF HoldingsTypeOK, bookVars
  <2> QED
    BY <1>2, <1>3, <2>1, <2>3, <2>4 DEF HoldingsIInv, OwnRows, LeadsNowhere, bookVars
<1>5. CASE x.key # BondsKey
  <2>1. x \in ReadsOfPositions /\ Telling(x)
    BY <1>5 DEF HoldingsIInv, ReadsOfBonds
  <2>2. x.key \in Keys /\ x.of \in Accounts /\ x.known \in Read
    BY <2>1 DEF ReadsOfPositions
  <2>3. PICK rows : /\ positions' = [positions EXCEPT ![x.key] = rows] /\ bondsRead' = bondsRead
                    /\ OwnRows(rows, x.of) /\ rows # Unread
    <3>1. CASE x.first = "held"
      <4>1. positions' = [positions EXCEPT ![x.key] = RowsOf(x.known, x.seen, Claims(x.of))] /\ bondsRead' = bondsRead
        BY <1>5, <3>1 DEF Delivered
      <4>2. x.seen \subseteq everOwned[x.of] /\ x.known.settled \subseteq repaid
        BY <2>1, <3>1 DEF Telling
      <4>3. \A b \in x.seen \cap x.known.settled : b \in Claims(x.of) \/ b \in LeadsNowhere
        <5>1. x.seen \subseteq Bonds
          BY <2>1 DEF ReadsOfPositions
        <5> QED
          BY <2>1, <3>1, <5>1 DEF Telling, Claims, Held, LeadsNowhere
      <4> QED
        BY <2>2, <4>1, <4>2, <4>3, RowsDelivered
    <3>2. CASE x.first = "claims"
      <4>1. positions' = [positions EXCEPT ![x.key] = RowsOf(x.known, Held(x.of), x.seen)] /\ bondsRead' = bondsRead
        BY <1>5, <3>2 DEF Delivered
      <4>2. Held(x.of) \subseteq everOwned[x.of] /\ x.known.settled \subseteq repaid
        BY <2>1, <2>2, HeldIsOwned DEF Telling
      <4>3. \A b \in Held(x.of) \cap x.known.settled : b \in x.seen \/ b \in LeadsNowhere
        BY <2>1, <3>2 DEF Telling, Claims, LeadsNowhere
      <4> QED
        BY <2>2, <4>1, <4>2, <4>3, RowsDelivered
    <3> QED
      BY <1>5, <3>1, <3>2 DEF Delivered
  <2>4. DOMAIN positions' = Keys
    BY <2>3 DEF HoldingsIInv
  <2>5. \A k \in Keys : positions'[k] = IF k = x.key THEN rows ELSE positions[k]
    BY <2>3 DEF HoldingsIInv
  <2>6. \A k \in Keys : positions'[k] # Unread => OwnRows(positions'[k], k.of)
    BY <2>1, <2>3, <2>5 DEF HoldingsIInv, Telling
  <2>7. \A k \in Keys : (positions[k] # Unread => OwnRows(positions[k], k.of))'
    BY <1>2, <2>6 DEF OwnRows, LeadsNowhere, bookVars
  <2>8. HoldingsTypeOK'
    BY <1>1, <1>2, <2>3, <2>6 DEF HoldingsTypeOK, OwnRows, bookVars
  <2> QED
    BY <1>2, <1>3, <2>3, <2>4, <2>7, <2>8 DEF HoldingsIInv, bookVars
<1> QED
  BY <1>4, <1>5

LEMMA HoldingsSteps == HoldingsIInv /\ HoldingsNext => HoldingsIInv'
<1> SUFFICES ASSUME HoldingsIInv, HoldingsNext PROVE HoldingsIInv'
  OBVIOUS
<1>1. HoldingsTypeOK
  BY DEF HoldingsIInv
<1>2. MaxListings \in Nat /\ MaxListings > 0 /\ Nobody \notin Accounts
  BY HoldingsAssumption
<1>3. /\ listings \in 0 .. MaxListings /\ owner \in [Bonds -> Accounts \cup {Nobody}]
      /\ repaid \subseteq 1 .. listings /\ everOwned \in [Accounts -> SUBSET Bonds]
      /\ \A b \in Bonds : owner[b] # Nobody => b \in everOwned[owner[b]]
      /\ 1 .. listings \subseteq Bonds /\ paying \subseteq repaid /\ movedOn \subseteq repaid
  BY <1>1, <1>2 DEF HoldingsIInv, HoldingsTypeOK, Bonds
<1>4. CASE ListAnother
  <2>1. listings' = listings + 1 /\ listings < MaxListings
    BY <1>4 DEF ListAnother
  <2>2. listings' \in 0 .. MaxListings /\ repaid \subseteq 1 .. listings'
    BY <1>2, <1>3, <2>1
  <2> QED
    BY <1>3, <1>4, <2>2, ChainKeeps DEF ListAnother
<1>5. CASE \E b \in Bonds : Repaid(b) \/ Claimed(b) \/ \E a \in Accounts : Trade(b, a)
  <2>1. PICK b \in Bonds : Repaid(b) \/ Claimed(b) \/ \E a \in Accounts : Trade(b, a)
    BY <1>5
  <2>2. CASE Repaid(b)
    <3>1. /\ b \notin repaid /\ repaid' = repaid \cup {b} /\ paying' \in {paying, paying \cup {b}}
          /\ b \in 1 .. listings /\ listings' = listings /\ owner' = owner /\ everOwned' = everOwned
          /\ movedOn' = movedOn /\ UNCHANGED pageState
      BY <2>2 DEF Repaid
    <3> QED
      BY <1>3, <3>1, ChainKeeps
  <2>3. CASE Claimed(b)
    <3>1. /\ owner' = [owner EXCEPT ![b] = Nobody] /\ movedOn' = movedOn \cup {b} /\ b \in repaid
          /\ listings' = listings /\ repaid' = repaid /\ everOwned' = everOwned /\ paying' = paying
          /\ UNCHANGED pageState
      BY <2>3 DEF Claimed
    <3>2. \A c \in repaid \ movedOn' : owner'[c] = owner[c]
      BY <1>3, <3>1
    <3> QED
      BY <1>3, <2>1, <3>1, <3>2, ChainKeeps
  <2>4. CASE \E a \in Accounts : Trade(b, a)
    <3>1. PICK a \in Accounts : Trade(b, a)
      BY <2>4
    <3>2. /\ owner' = [owner EXCEPT ![b] = a] /\ everOwned' = [everOwned EXCEPT ![a] = @ \cup {b}]
          /\ listings' = listings /\ repaid' = repaid /\ paying' = paying /\ UNCHANGED pageState
          /\ movedOn' = movedOn \cup ({b} \cap repaid)
      BY <3>1 DEF Trade
    <3>3. owner' \in [Bonds -> Accounts \cup {Nobody}] /\ everOwned' \in [Accounts -> SUBSET Bonds]
      BY <1>3, <3>2
    <3>4. \A c \in Accounts : everOwned[c] \subseteq everOwned'[c]
      BY <1>3, <3>2
    <3>5. \A c \in Bonds : owner'[c] # Nobody => c \in everOwned'[owner'[c]]
      BY <1>3, <3>2, <3>4
    <3>6. \A c \in repaid \ movedOn' : owner'[c] = owner[c] /\ (c \in paying' <=> c \in paying)
      BY <1>3, <3>2
    <3>7. paying' \subseteq repaid' /\ movedOn' \subseteq repaid' /\ movedOn \subseteq movedOn'
      BY <1>3, <3>2
    <3> QED
      BY <1>3, <3>2, <3>3, <3>4, <3>5, <3>6, <3>7, ChainKeeps
  <2> QED
    BY <2>1, <2>2, <2>3, <2>4
<1>6. CASE \E page \in Readers \cup {"other"}, a \in Accounts : Visit(page, a)
  <2>1. /\ visit' \in [page: Readers \cup {"other"}, account: Accounts] /\ UNCHANGED bookVars
        /\ bondsRead' = bondsRead /\ positions' = positions /\ inFlight' = inFlight
    BY <1>6 DEF Visit
  <2>2. HoldingsTypeOK'
    BY <1>1, <2>1 DEF HoldingsTypeOK, bookVars
  <2> QED
    BY <2>1, <2>2 DEF HoldingsIInv, OwnRows, Telling, LeadsNowhere, Claims, Held, bookVars
<1>7. CASE ReadBonds
  <2>1. PICK y : y = [key |-> BondsKey, count |-> listings]
    OBVIOUS
  <2>2. y \in ReadsOfBonds /\ y.key = BondsKey
    BY <1>3, <2>1 DEF ReadsOfBonds
  <2>3. /\ inFlight' = inFlight \cup {y} /\ \A z \in inFlight : z.key # y.key
        /\ UNCHANGED <<bookVars, bondsRead, positions, visit>>
    BY <1>7, <2>1, <2>2 DEF ReadBonds, Reading
  <2> QED
    BY <2>2, <2>3, ReadStarts
<1>8. CASE ReadPositions
  <2>1. PICK y : y = [key |-> PositionsKey, of |-> visit.account,
                      known |-> IF Known = Unread THEN OnChain ELSE Known, first |-> "none", seen |-> {}]
    OBVIOUS
  <2>2. /\ y.key = PositionsKey /\ y.of = visit.account /\ y.first = "none"
        /\ y.known = IF Known = Unread THEN OnChain ELSE Known
    BY <2>1
  <2>3. y \in ReadsOfPositions /\ Telling(y)
    <3>1. y \in ReadsOfPositions
      BY <2>1, PageReads DEF ReadsOfPositions
    <3>2. y.of = y.key.of /\ y.known.settled \subseteq repaid
      BY <2>2, PageReads
    <3> QED
      BY <2>2, <3>1, <3>2 DEF Telling
  <2>4. /\ inFlight' = inFlight \cup {y} /\ \A z \in inFlight : z.key # y.key
        /\ UNCHANGED <<bookVars, bondsRead, positions, visit>>
    BY <1>8, <2>1, <2>2 DEF ReadPositions, Reading
  <2> QED
    BY <2>3, <2>4, ReadStarts
<1>9. CASE \E x \in inFlight, call \in Calls : Called(x, call)
  BY <1>9, CallAnswered
<1>10. CASE \E x \in inFlight : Delivered(x)
  BY <1>10, AnswerDelivered
<1> QED
  BY <1>4, <1>5, <1>6, <1>7, <1>8, <1>9, <1>10 DEF HoldingsNext

LEMMA HoldingsRests == HoldingsIInv /\ UNCHANGED holdingsVars => HoldingsIInv'
BY DEF HoldingsIInv, HoldingsTypeOK, OwnRows, Telling, LeadsNowhere, Claims, Held, holdingsVars

LEMMA RowsAreOwnAndLeadOn ==
  HoldingsIInv => HoldingsTypeOK /\ RowsAreTheWallets /\ EveryRowLeadsOn
<1> SUFFICES ASSUME HoldingsIInv PROVE RowsAreTheWallets /\ EveryRowLeadsOn
  BY DEF HoldingsIInv
<1>1. Shown # Unread => OwnRows(Shown, visit.account)
  BY PageReads DEF HoldingsIInv, Shown
<1>2. RowsAreTheWallets
  BY <1>1 DEF RowsAreTheWallets, OwnRows
<1>3. EveryRowLeadsOn
  BY <1>1 DEF EveryRowLeadsOn, OwnRows, LeadsNowhere, ClaimRows, RowOffers, Row
<1> QED
  BY <1>2, <1>3

-----------------------------------------------------------------------------
(* The landing page.  What a rendering has read lies between the market as it
   was when it began and the market now, and the bonds it knows of only grow. *)
Renderings ==
  [going: {TRUE}, from: RowsRead, counted: BOOLEAN, left: SUBSET (1 .. MaxShown), rows: RowsRead]

UpTo(rows, more) ==
  DOMAIN rows \subseteq DOMAIN more /\ \A i \in DOMAIN rows : rows[i] <= more[i]
Between(from, rows) ==
  /\ DOMAIN from \subseteq DOMAIN rows /\ UpTo(rows, supplies)
  /\ \A i \in DOMAIN from : from[i] <= rows[i]

LandingIInv ==
  /\ supplies \in RowsRead /\ stale \in BOOLEAN /\ breaks \in 0 .. MaxBreaks
  /\ landing \in [rows: RowsRead, from: RowsRead, failed: BOOLEAN]
  /\ render \in {Resting} \cup Renderings
  /\ IF landing.rows = <<>> THEN landing.failed \/ landing.from = <<>>
     ELSE Between(landing.from, landing.rows)
  /\ render \in Renderings =>
       /\ UpTo(render.from, supplies)
       /\ IF render.counted
            THEN /\ DOMAIN render.from \subseteq DOMAIN render.rows /\ UpTo(render.rows, supplies)
                 /\ render.left \subseteq DOMAIN render.rows
                 /\ \A i \in DOMAIN render.from \ render.left : render.from[i] <= render.rows[i]
            ELSE render.left = {} /\ render.rows = <<>>

LEMMA RowsReadAre ==
  ASSUME NEW r
  PROVE  r \in RowsRead <=> r \in Seq(0 .. FaceUnits) /\ Len(r) <= MaxShown
<1> USE LandingAssumption
<1>1. ASSUME r \in RowsRead PROVE r \in Seq(0 .. FaceUnits) /\ Len(r) <= MaxShown
  <2>1. PICK n \in 0 .. MaxShown : r \in [1 .. n -> 0 .. FaceUnits]
    BY <1>1 DEF RowsRead
  <2> QED
    BY <2>1
<1>2. ASSUME r \in Seq(0 .. FaceUnits), Len(r) <= MaxShown PROVE r \in RowsRead
  <2>1. Len(r) \in 0 .. MaxShown /\ r \in [1 .. Len(r) -> 0 .. FaceUnits]
    BY <1>2
  <2> QED
    BY <2>1 DEF RowsRead
<1> QED
  BY <1>1, <1>2

LEMMA RowsReadHave ==
  ASSUME NEW r \in RowsRead
  PROVE  /\ Len(r) \in Nat /\ Len(r) <= MaxShown /\ DOMAIN r = 1 .. Len(r)
         /\ DOMAIN r \subseteq 1 .. MaxShown
         /\ \A i \in DOMAIN r : r[i] \in 0 .. FaceUnits /\ r[i] \in Nat
<1>1. r \in Seq(0 .. FaceUnits) /\ Len(r) <= MaxShown
  BY RowsReadAre
<1> QED
  BY <1>1, LandingAssumption

LEMMA NothingRead == <<>> \in RowsRead /\ <<0>> \in RowsRead
<1>1. <<>> \in Seq(0 .. FaceUnits) /\ Len(<<>>) = 0 /\ <<0>> \in Seq(0 .. FaceUnits) /\ Len(<<0>>) = 1
  BY LandingAssumption
<1>2. Len(<<>>) <= MaxShown /\ Len(<<0>>) <= MaxShown
  BY <1>1, LandingAssumption
<1>3. <<>> \in RowsRead
  BY <1>1, <1>2, RowsReadAre
<1>4. <<0>> \in RowsRead
  BY <1>1, <1>2, RowsReadAre
<1> QED
  BY <1>3, <1>4

LEMMA RestingIsNoRendering == Resting \notin Renderings /\ Resting.going = FALSE
BY DEF Resting, Renderings

LEMMA LandingStarts == LandingInit => LandingIInv
<1> SUFFICES ASSUME LandingInit PROVE LandingIInv
  OBVIOUS
<1>1. /\ supplies = <<0>> /\ landing = [rows |-> <<0>>, from |-> <<0>>, failed |-> FALSE]
      /\ stale = FALSE /\ render = Resting /\ breaks = 0
  BY DEF LandingInit
<1>2. Between(<<0>>, <<0>>)
  BY <1>1 DEF Between, UpTo
<1>3. breaks \in 0 .. MaxBreaks
  BY <1>1, LandingAssumption
<1>4. landing \in [rows: RowsRead, from: RowsRead, failed: BOOLEAN]
  BY <1>1, NothingRead
<1>5. stale \in BOOLEAN
  BY <1>1, Zenon
<1>6. <<0>> # <<>>
  OBVIOUS
<1> QED
  BY <1>1, <1>2, <1>3, <1>4, <1>5, <1>6, NothingRead, RestingIsNoRendering DEF LandingIInv

(* Selling and listing only add to the market. *)
LEMMA MarketGrows ==
  ASSUME LandingIInv, MarketMoves
  PROVE  supplies' \in RowsRead /\ UpTo(supplies, supplies')
<1>1. /\ supplies \in Seq(0 .. FaceUnits) /\ Len(supplies) <= MaxShown
      /\ MaxShown \in Nat /\ FaceUnits \in Nat
  BY RowsReadAre, LandingAssumption DEF LandingIInv
<1>2. CASE Len(supplies) < MaxShown /\ supplies' = Append(supplies, 0)
  <2>1. /\ supplies' \in Seq(0 .. FaceUnits) /\ Len(supplies') = Len(supplies) + 1
        /\ \A i \in 1 .. Len(supplies) : supplies'[i] = supplies[i]
    BY <1>1, <1>2
  <2>2. supplies' \in RowsRead
    <3>1. Len(supplies') <= MaxShown
      BY <1>1, <1>2, <2>1
    <3> QED
      BY <2>1, <3>1, RowsReadAre
  <2>3. DOMAIN supplies = 1 .. Len(supplies) /\ DOMAIN supplies' = 1 .. (Len(supplies) + 1)
    BY <1>1, <2>1
  <2>4. \A i \in DOMAIN supplies : supplies[i] \in Nat
    BY <1>1
  <2>5. 1 .. Len(supplies) \subseteq 1 .. (Len(supplies) + 1)
    BY <1>1
  <2> QED
    BY <2>1, <2>2, <2>3, <2>4, <2>5 DEF UpTo
<1>3. CASE \E i \in DOMAIN supplies :
             supplies[i] < FaceUnits /\ supplies' = [supplies EXCEPT ![i] = @ + 1]
  <2>1. PICK i \in DOMAIN supplies :
          supplies[i] < FaceUnits /\ supplies' = [supplies EXCEPT ![i] = @ + 1]
    BY <1>3
  <2>2. /\ supplies' \in Seq(0 .. FaceUnits) /\ Len(supplies') = Len(supplies)
        /\ \A j \in DOMAIN supplies : supplies[j] <= supplies'[j]
    BY <1>1, <2>1
  <2> QED
    BY <1>1, <2>2, RowsReadAre DEF UpTo
<1> QED
  BY <1>2, <1>3 DEF MarketMoves

LEMMA UpToIsTransitive ==
  ASSUME NEW a \in RowsRead, NEW b \in RowsRead, NEW c \in RowsRead, UpTo(a, b), UpTo(b, c)
  PROVE  UpTo(a, c)
<1>1. \A i \in DOMAIN a : a[i] \in Nat /\ b[i] \in Nat /\ c[i] \in Nat
  BY RowsReadHave DEF UpTo
<1> QED
  BY <1>1 DEF UpTo

LEMMA LandingSteps == LandingIInv /\ LandingNext => LandingIInv'
<1> SUFFICES ASSUME LandingIInv, LandingNext PROVE LandingIInv'
  OBVIOUS
<1> USE LandingAssumption
<1>1. /\ supplies \in RowsRead /\ stale \in BOOLEAN /\ breaks \in 0 .. MaxBreaks
      /\ landing \in [rows: RowsRead, from: RowsRead, failed: BOOLEAN]
      /\ landing.rows \in RowsRead
      /\ render \in {Resting} \cup Renderings
      /\ IF landing.rows = <<>> THEN landing.failed \/ landing.from = <<>>
         ELSE Between(landing.from, landing.rows)
  BY DEF LandingIInv
<1>2. CASE ~stale /\ stale' = TRUE /\ UNCHANGED <<supplies, landing, render, breaks>>
  <2>1. stale' \in BOOLEAN
    BY <1>2, Zenon
  <2> QED
    BY <1>1, <1>2, <2>1 DEF LandingIInv, Between
<1>3. CASE /\ render' = [going |-> TRUE, from |-> supplies, counted |-> FALSE, left |-> {}, rows |-> <<>>]
           /\ UNCHANGED <<supplies, landing, stale, breaks>>
  <2>1. render' \in Renderings
    BY <1>1, <1>3, NothingRead DEF Renderings
  <2>2. /\ render'.from = supplies /\ render'.counted = FALSE /\ render'.left = {}
        /\ render'.rows = <<>>
    BY <1>3
  <2>3. UpTo(supplies, supplies)
    BY <1>1, RowsReadHave DEF UpTo
  <2> QED
    BY <1>1, <1>3, <2>1, <2>2, <2>3 DEF LandingIInv, Between
<1>4. CASE CountBonds
  <2> DEFINE zeros == [i \in DOMAIN supplies |-> 0]
  <2>1. /\ render.going /\ ~render.counted
        /\ render' = [render EXCEPT !.counted = TRUE, !.left = DOMAIN supplies, !.rows = zeros]
        /\ UNCHANGED <<supplies, landing, stale, breaks>>
    BY <1>4 DEF CountBonds
  <2>2. render \in Renderings /\ UpTo(render.from, supplies)
    BY <1>1, <2>1, RestingIsNoRendering DEF LandingIInv
  <2>3. zeros \in Seq(0 .. FaceUnits) /\ Len(zeros) = Len(supplies) /\ DOMAIN zeros = DOMAIN supplies
        /\ \A i \in DOMAIN zeros : zeros[i] = 0
    BY <1>1, RowsReadAre
  <2> HIDE DEF zeros
  <2>4. zeros \in RowsRead /\ UpTo(zeros, supplies) /\ DOMAIN supplies \subseteq 1 .. MaxShown
    BY <1>1, <2>3, RowsReadAre, RowsReadHave DEF UpTo
  <2>5. /\ render' \in Renderings /\ render'.from = render.from /\ render'.counted = TRUE
        /\ render'.left = DOMAIN supplies /\ render'.rows = zeros
    BY <2>1, <2>2, <2>4 DEF Renderings
  <2>6. /\ DOMAIN render'.from \subseteq DOMAIN render'.rows /\ DOMAIN render'.from \subseteq render'.left
        /\ UpTo(render'.rows, supplies) /\ render'.left \subseteq DOMAIN render'.rows
    BY <2>2, <2>3, <2>4, <2>5 DEF UpTo
  <2> QED
    BY <1>1, <2>1, <2>2, <2>5, <2>6 DEF LandingIInv, Between
<1>5. CASE \E i \in 1 .. MaxShown : ReadRow(i)
  <2>1. PICK i \in 1 .. MaxShown : ReadRow(i)
    BY <1>5
  <2>2. /\ render.going /\ i \in render.left
        /\ render' = [render EXCEPT !.left = @ \ {i}, !.rows[i] = supplies[i]]
        /\ UNCHANGED <<supplies, landing, stale, breaks>>
    BY <2>1 DEF ReadRow
  <2>3. render \in Renderings /\ UpTo(render.from, supplies)
    BY <1>1, <2>2, RestingIsNoRendering DEF LandingIInv
  <2>4. /\ render.counted /\ DOMAIN render.from \subseteq DOMAIN render.rows
        /\ UpTo(render.rows, supplies) /\ render.left \subseteq DOMAIN render.rows
        /\ \A j \in DOMAIN render.from \ render.left : render.from[j] <= render.rows[j]
    BY <2>2, <2>3 DEF LandingIInv
  <2> DEFINE rows == [render.rows EXCEPT ![i] = supplies[i]]
  <2>5. render.rows \in RowsRead /\ i \in DOMAIN render.rows /\ i \in DOMAIN supplies
    BY <2>2, <2>3, <2>4 DEF Renderings, UpTo
  <2>6. /\ DOMAIN rows = DOMAIN render.rows
        /\ \A j \in DOMAIN rows : rows[j] = IF j = i THEN supplies[i] ELSE render.rows[j]
    OBVIOUS
  <2>7. rows \in RowsRead
    <3>1. render.rows \in Seq(0 .. FaceUnits) /\ Len(render.rows) <= MaxShown
      BY <2>5, RowsReadAre
    <3>2. supplies[i] \in 0 .. FaceUnits
      BY <1>1, <2>5, RowsReadHave
    <3>3. rows \in Seq(0 .. FaceUnits) /\ Len(rows) = Len(render.rows)
      BY <2>5, <3>1, <3>2
    <3> QED
      BY <3>1, <3>3, RowsReadAre
  <2>8. /\ render' \in Renderings /\ render'.from = render.from /\ render'.counted = render.counted
        /\ render'.left = render.left \ {i} /\ render'.rows = rows
    BY <2>2, <2>3, <2>7 DEF Renderings
  <2> HIDE DEF rows
  <2>9. UpTo(rows, supplies)
    <3>1. supplies[i] \in Nat
      BY <1>1, <2>5, RowsReadHave
    <3>2. supplies[i] <= supplies[i]
      BY <3>1
    <3>3. /\ DOMAIN render.rows \subseteq DOMAIN supplies
          /\ \A j \in DOMAIN render.rows : render.rows[j] <= supplies[j]
      BY <2>4 DEF UpTo
    <3> QED
      BY <2>6, <3>2, <3>3 DEF UpTo
  <2>10. \A j \in DOMAIN render'.from \ render'.left : render'.from[j] <= render'.rows[j]
    BY <2>3, <2>4, <2>6, <2>8 DEF UpTo
  <2> QED
    BY <1>1, <2>2, <2>3, <2>4, <2>6, <2>8, <2>9, <2>10 DEF LandingIInv, Between
<1>6. CASE Rendered \/ RenderFails
  <2>1. /\ render \in Renderings /\ render' = Resting /\ stale' = FALSE /\ supplies' = supplies
        /\ breaks' \in 0 .. MaxBreaks
    BY <1>1, <1>6, RestingIsNoRendering DEF Rendered, RenderFails, Keep
  <2>2. CASE Rendered
    <3>1. /\ render.counted /\ render.left = {}
          /\ landing' = [rows |-> render.rows, from |-> render.from, failed |-> FALSE]
      BY <2>2 DEF Rendered, Keep
    <3>2. landing' \in [rows: RowsRead, from: RowsRead, failed: BOOLEAN]
      BY <2>1, <3>1 DEF Renderings
    <3>3. Between(render.from, render.rows)
      BY <2>1, <3>1 DEF LandingIInv, Between
    <3>4. render.rows = <<>> => render.from = <<>>
      <4>1. render.rows = <<>> => DOMAIN render.rows = {}
        OBVIOUS
      <4>2. render.from \in Seq(0 .. FaceUnits)
        BY <2>1, RowsReadAre DEF Renderings
      <4> QED
        BY <3>3, <4>1, <4>2 DEF Between
    <3> QED
      BY <1>1, <2>1, <3>1, <3>2, <3>3, <3>4, RestingIsNoRendering DEF LandingIInv, Between
  <2>3. CASE RenderFails
    <3>1. landing' = [rows |-> <<>>, from |-> render.from, failed |-> TRUE]
      BY <2>3 DEF RenderFails, Keep
    <3>2. landing' \in [rows: RowsRead, from: RowsRead, failed: BOOLEAN]
      BY <2>1, <3>1, NothingRead DEF Renderings
    <3> QED
      BY <1>1, <2>1, <3>1, <3>2, RestingIsNoRendering DEF LandingIInv
  <2> QED
    BY <1>6, <2>2, <2>3
<1>7. CASE MarketMoves
  <2>1. UNCHANGED <<landing, stale, render, breaks>>
    BY <1>7 DEF MarketMoves
  <2>2. supplies' \in RowsRead /\ UpTo(supplies, supplies')
    BY <1>7, MarketGrows
  <2>3. \A a \in RowsRead : UpTo(a, supplies) => UpTo(a, supplies')
    BY <1>1, <2>2, UpToIsTransitive
  <2>4. landing.rows # <<>> => Between(landing.from, landing.rows)'
    BY <1>1, <2>1, <2>3 DEF Between
  <2>5. render \in Renderings => render.from \in RowsRead /\ render.rows \in RowsRead
    BY DEF Renderings
  <2> QED
    BY <1>1, <2>1, <2>2, <2>3, <2>4, <2>5 DEF LandingIInv
<1> QED
  BY <1>2, <1>3, <1>4, <1>5, <1>6, <1>7 DEF LandingNext, VisitLanding

LEMMA LandingRests == LandingIInv /\ UNCHANGED landingVars => LandingIInv'
BY DEF LandingIInv, Between, landingVars

LEMMA LandingIsWhole == LandingIInv => LandingTypeOK /\ ShowsAllOrNothing
<1> SUFFICES ASSUME LandingIInv PROVE LandingTypeOK /\ ShowsAllOrNothing
  OBVIOUS
<1>1. ShowsAllOrNothing
  BY DEF LandingIInv, ShowsAllOrNothing, Between, UpTo
<1>2. render \in Renderings => render.left \subseteq DOMAIN supplies
  BY DEF LandingIInv, UpTo
<1>3. LandingTypeOK
  BY <1>2 DEF LandingIInv, LandingTypeOK, Renderings
<1> QED
  BY <1>1, <1>3

-----------------------------------------------------------------------------
(* The reader of the audit trail. *)
(* The slices of a submission reach the topic in order, and no more of them
   than it has. *)
Numbered ==
  /\ \A i, j \in DOMAIN topic :
       i < j /\ topic[i].of = topic[j].of => topic[i].number < topic[j].number
  /\ \A i \in DOMAIN topic : topic[i].number <= Written(topic[i].of)
  /\ \A s \in Submissions : Written(s) <= ChunksOf[s]

(* What is fetched is the topic from the cursor on, newest first. *)
Window ==
  IF cursor = Absent THEN fetched = <<>>
  ELSE /\ cursor + Len(fetched) - 1 <= Len(topic)
       /\ \A i \in 1 .. Len(fetched) : fetched[i] = topic[cursor + Len(fetched) - i]

LastOf(s) == [of |-> s, number |-> ChunksOf[s]]

(* An answer has no record twice, only records that are done, all of those it
   covers, those of one message before the others, and of two of a kind first
   the one that was done last. *)
Told ==
  /\ \A a, b \in DOMAIN trail : trail[a] = trail[b] => a = b
  /\ \A a \in DOMAIN trail : Done(trail[a]) /\ \E i \in DOMAIN topic : topic[i] = LastOf(trail[a])
  /\ \A s \in Submissions :
       (\A n \in 1 .. ChunksOf[s] : \E i \in covers : topic[i] = [of |-> s, number |-> n])
         => \E a \in DOMAIN trail : trail[a] = s
  /\ \A a, b \in DOMAIN trail : a < b /\ Single(trail[b]) => Single(trail[a])
  /\ \A a, b \in DOMAIN trail :
       a < b /\ (Single(trail[a]) <=> Single(trail[b])) =>
         \E i, j \in DOMAIN topic : j < i /\ topic[i] = LastOf(trail[a]) /\ topic[j] = LastOf(trail[b])

ReaderIInv ==
  /\ topic \in Seq(Message) /\ fetched \in Seq(Message)
  /\ cursor \in {Absent} \cup 1 .. Len(topic) + 1
  /\ trail \in Seq(Submissions) \cup {Absent}
  /\ covers \subseteq 1 .. Len(topic) /\ topicError \in BOOLEAN
  /\ Numbered /\ Window
  /\ trail # Absent => Told

-----------------------------------------------------------------------------
(* Counting the slices that are on the topic. *)
LEMMA WrittenIsCounted ==
  ASSUME topic \in Seq(Message), NEW s
  PROVE  Written(s) \in Nat
<1>1. IsFiniteSet(1 .. Len(topic)) /\ DOMAIN topic = 1 .. Len(topic)
  BY FS_Interval
<1>2. IsFiniteSet({i \in DOMAIN topic : topic[i].of = s})
  BY <1>1, FS_Subset
<1> QED
  BY <1>2, FS_CardinalityType DEF Written

LEMMA WrittenGrows ==
  ASSUME topic \in Seq(Message), NEW s \in Submissions, NEW m \in Message, m.of = s,
         topic' = Append(topic, m)
  PROVE  /\ Written(s)' = Written(s) + 1
         /\ \A t \in Submissions \ {s} : Written(t)' = Written(t)
<1> DEFINE n == Len(topic)
           At1(t) == {i \in 1 .. n : topic[i].of = t}
           At2(t) == {i \in 1 .. n + 1 : topic'[i].of = t}
<1>1. /\ n \in Nat /\ DOMAIN topic = 1 .. n /\ DOMAIN topic' = 1 .. n + 1
      /\ topic'[n + 1] = m /\ \A i \in 1 .. n : topic'[i] = topic[i]
  OBVIOUS
<1>2. \A t : Written(t) = Cardinality(At1(t)) /\ Written(t)' = Cardinality(At2(t))
  BY <1>1 DEF Written
<1>3. At2(s) = At1(s) \cup {n + 1}
  BY <1>1
<1>4. \A t \in Submissions \ {s} : At2(t) = At1(t)
  BY <1>1
<1>5. IsFiniteSet(At1(s)) /\ n + 1 \notin At1(s)
  <2>1. IsFiniteSet(1 .. n)
    BY <1>1, FS_Interval
  <2> QED
    BY <1>1, <2>1, FS_Subset
<1>6. Cardinality(At1(s) \cup {n + 1}) = Cardinality(At1(s)) + 1
  BY <1>5, FS_AddElement
<1> HIDE DEF At1, At2, n
<1> QED
  BY <1>2, <1>3, <1>4, <1>6

(* A message is found at one place. *)
LEMMA MessagesAreUnique ==
  ASSUME topic \in Seq(Message), Numbered, NEW i \in DOMAIN topic, NEW j \in DOMAIN topic,
         topic[i] = topic[j]
  PROVE  i = j
<1>1. /\ DOMAIN topic = 1 .. Len(topic) /\ Len(topic) \in Nat
      /\ \A k \in DOMAIN topic : topic[k] \in Message
  OBVIOUS
<1>2. i \in Int /\ j \in Int /\ topic[i].number \in Int
  BY <1>1 DEF Message
<1>3. ~ topic[i].number < topic[j].number /\ ~ topic[j].number < topic[i].number
  BY <1>2
<1>4. ~ i < j /\ ~ j < i
  BY <1>3 DEF Numbered
<1> QED
  BY <1>2, <1>4

LEMMA ReaderStarts == ReaderInit => ReaderIInv
<1> SUFFICES ASSUME ReaderInit PROVE ReaderIInv
  OBVIOUS
<1>1. /\ topic = <<>> /\ cursor = Absent /\ fetched = <<>>
      /\ trail = Absent /\ covers = {} /\ topicError = FALSE
  BY DEF ReaderInit
<1>2. DOMAIN topic = {} /\ topic \in Seq(Message) /\ fetched \in Seq(Message)
  BY <1>1
<1>3. \A s : Written(s) = 0
  <2>1. \A s : {i \in DOMAIN topic : topic[i].of = s} = {}
    BY <1>2
  <2> QED
    BY <2>1, FS_EmptySet DEF Written
<1>4. Numbered
  BY <1>2, <1>3, ReaderAssumption DEF Numbered
<1>5. topicError \in BOOLEAN
  BY <1>1, Zenon
<1> QED
  BY <1>1, <1>2, <1>4, <1>5 DEF ReaderIInv, Window

(* The next slice of a submission. *)
LEMMA ConsensusKeeps ==
  ASSUME ReaderIInv, NEW s \in Submissions, Consensus(s)
  PROVE  ReaderIInv'
<1> DEFINE n == Len(topic)
           m == [of |-> s, number |-> Written(s) + 1]
<1>1. /\ topic \in Seq(Message) /\ n \in Nat /\ DOMAIN topic = 1 .. n
      /\ \A i \in 1 .. n : topic[i] \in Message
  BY DEF ReaderIInv
<1>2. \A t : Written(t) \in Nat
  BY <1>1, WrittenIsCounted
<1>3. /\ Written(s) < ChunksOf[s] /\ topic' = Append(topic, m)
      /\ cursor' = cursor /\ fetched' = fetched /\ trail' = trail /\ covers' = covers
      /\ topicError' = topicError
  BY DEF Consensus
<1>4. m \in Message /\ m.of = s /\ m.number = Written(s) + 1
  BY <1>2 DEF Message
<1> HIDE DEF m
<1>5. /\ topic' \in Seq(Message) /\ Len(topic') = n + 1 /\ DOMAIN topic' = 1 .. n + 1
      /\ topic'[n + 1] = m /\ \A i \in 1 .. n : topic'[i] = topic[i]
  BY <1>1, <1>3, <1>4
<1>6. Written(s)' = Written(s) + 1 /\ \A t \in Submissions \ {s} : Written(t)' = Written(t)
  BY <1>1, <1>3, <1>4, WrittenGrows
<1>7. /\ \A i, j \in 1 .. n : i < j /\ topic[i].of = topic[j].of => topic[i].number < topic[j].number
      /\ \A i \in 1 .. n : topic[i].number <= Written(topic[i].of)
      /\ \A t \in Submissions : Written(t) <= ChunksOf[t]
      /\ \A i \in 1 .. n : topic[i].of \in Submissions /\ topic[i].number \in Nat
      /\ \A t \in Submissions : ChunksOf[t] \in Nat
  BY <1>1, ReaderAssumption DEF ReaderIInv, Numbered, Message
<1>8. Numbered'
  <2>1. ASSUME NEW i \in 1 .. n + 1, NEW j \in 1 .. n + 1, i < j, topic'[i].of = topic'[j].of
        PROVE  topic'[i].number < topic'[j].number
    <3>1. i \in 1 .. n /\ topic'[i] = topic[i]
      BY <1>1, <1>5, <2>1
    <3>2. CASE j \in 1 .. n
      BY <1>5, <1>7, <2>1, <3>1, <3>2
    <3>3. CASE j = n + 1
      <4>1. topic[i].of = s /\ topic'[j].number = Written(s) + 1
        BY <1>4, <1>5, <2>1, <3>1, <3>3
      <4>2. topic[i].number <= Written(s) /\ topic[i].number \in Int /\ Written(s) \in Int
        BY <1>2, <1>7, <3>1, <4>1
      <4> QED
        BY <3>1, <4>1, <4>2
    <3> QED
      BY <1>1, <3>2, <3>3
  <2>2. \A i \in 1 .. n + 1 : (topic[i].number <= Written(topic[i].of))'
    <3> TAKE i \in 1 .. n + 1
    <3> DEFINE t == topic[i].of
    <3>1. CASE i = n + 1
      <4>1. topic'[i].of = s /\ topic'[i].number = Written(s) + 1
        BY <1>4, <1>5, <3>1
      <4>2. Written(topic[i].of)' = Written(s)'
        BY <4>1 DEF Written
      <4>3. Written(s) + 1 \in Int
        BY <1>2
      <4> QED
        BY <1>6, <4>1, <4>2, <4>3
    <3>2. CASE i \in 1 .. n
      <4>1. topic'[i] = topic[i] /\ t \in Submissions /\ t' = t
        BY <1>5, <1>7, <3>2
      <4>2. Written(topic[i].of)' = Written(t)'
        BY <4>1 DEF Written
      <4>3. (CHOOSE x : x = Written(t)') \in {Written(t), Written(t) + 1}
        BY <1>6, <4>1
      <4>4. topic[i].number <= Written(t) /\ topic[i].number \in Int /\ Written(t) \in Int
        BY <1>2, <1>7, <3>2
      <4> QED
        BY <4>1, <4>2, <4>3, <4>4
    <3> QED
      BY <1>1, <3>1, <3>2
  <2>3. \A t \in Submissions : Written(t)' <= ChunksOf[t]
    <3> TAKE t \in Submissions
    <3>1. Written(t) \in Int /\ ChunksOf[t] \in Int /\ Written(t) <= ChunksOf[t]
      BY <1>2, <1>7
    <3> QED
      BY <1>3, <1>6, <3>1
  <2>4. \A i, j \in 1 .. n + 1 :
          i < j /\ topic'[i].of = topic'[j].of => topic'[i].number < topic'[j].number
    BY <2>1
  <2> QED
    BY <1>5, <2>2, <2>3, <2>4 DEF Numbered
<1>9. cursor # Absent => cursor \in Nat
  BY <1>1 DEF ReaderIInv
<1>10. Window'
  <2>1. fetched \in Seq(Message) /\ Len(fetched) \in Nat
    BY DEF ReaderIInv
  <2>2. CASE cursor = Absent
    BY <1>3, <2>2 DEF ReaderIInv, Window
  <2>3. CASE cursor # Absent
    <3>1. /\ cursor \in 1 .. n + 1 /\ cursor + Len(fetched) - 1 <= n
          /\ \A i \in 1 .. Len(fetched) : fetched[i] = topic[cursor + Len(fetched) - i]
      BY <2>3 DEF ReaderIInv, Window
    <3>2. \A i \in 1 .. Len(fetched) : cursor + Len(fetched) - i \in 1 .. n
      BY <1>1, <2>1, <3>1
    <3>3. \A i \in 1 .. Len(fetched) : fetched[i] = topic'[cursor + Len(fetched) - i]
      BY <1>5, <3>1, <3>2
    <3> QED
      BY <1>1, <1>3, <1>5, <2>1, <2>3, <3>1, <3>3 DEF Window
  <2> QED
    BY <2>2, <2>3
<1>11. trail # Absent => Told'
  <2> SUFFICES ASSUME trail # Absent PROVE Told'
    OBVIOUS
  <2>1. trail \in Seq(Submissions) /\ Told /\ covers \subseteq 1 .. n
    BY DEF ReaderIInv
  <2>2. \A a \in DOMAIN trail : trail[a] \in Submissions
    BY <2>1
  <2>3. \A a \in DOMAIN trail : Done(trail[a])'
    BY <1>2, <1>3, <1>6, <1>7, <2>1, <2>2 DEF Told, Done
  <2>4. \A a \in DOMAIN trail : \E i \in DOMAIN topic' : topic'[i] = LastOf(trail[a])
    BY <1>1, <1>5, <2>1 DEF Told
  <2>5. ASSUME NEW a \in DOMAIN trail, NEW b \in DOMAIN trail, a < b,
               Single(trail[a]) <=> Single(trail[b])
        PROVE  \E i, j \in DOMAIN topic' :
                 j < i /\ topic'[i] = LastOf(trail[a]) /\ topic'[j] = LastOf(trail[b])
    <3>1. PICK i \in DOMAIN topic, j \in DOMAIN topic :
            j < i /\ topic[i] = LastOf(trail[a]) /\ topic[j] = LastOf(trail[b])
      BY <2>1, <2>5 DEF Told
    <3> QED
      BY <1>1, <1>5, <3>1
  <2>6. \A i \in covers : topic'[i] = topic[i]
    BY <1>5, <2>1
  <2>7. \A t \in Submissions :
          (\A k \in 1 .. ChunksOf[t] : \E i \in covers' : topic'[i] = [of |-> t, number |-> k])
            => \E a \in DOMAIN trail : trail[a] = t
    BY <1>3, <2>1, <2>6 DEF Told
  <2>8. \A a, b \in DOMAIN trail : trail[a] = trail[b] => a = b
    BY <2>1 DEF Told
  <2>9. \A a, b \in DOMAIN trail : a < b /\ (Single(trail[a]) <=> Single(trail[b])) =>
          \E i, j \in DOMAIN topic' : j < i /\ topic'[i] = LastOf(trail[a]) /\ topic'[j] = LastOf(trail[b])
    BY <2>5
  <2>10. (\A a, b \in DOMAIN trail : trail[a] = trail[b] => a = b)'
    BY <1>3, <2>8
  <2>11. (\A a \in DOMAIN trail : Done(trail[a]) /\ \E i \in DOMAIN topic : topic[i] = LastOf(trail[a]))'
    BY <1>3, <2>3, <2>4 DEF LastOf, Done, Written
  <2>12. (\A t \in Submissions :
            (\A k \in 1 .. ChunksOf[t] : \E i \in covers : topic[i] = [of |-> t, number |-> k])
              => \E a \in DOMAIN trail : trail[a] = t)'
    BY <1>3, <2>7
  <2>13. (\A a, b \in DOMAIN trail : a < b /\ (Single(trail[a]) <=> Single(trail[b])) =>
            \E i, j \in DOMAIN topic : j < i /\ topic[i] = LastOf(trail[a]) /\ topic[j] = LastOf(trail[b]))'
    BY <1>3, <2>9 DEF LastOf, Single
  <2>14. (\A a, b \in DOMAIN trail : a < b /\ Single(trail[b]) => Single(trail[a]))'
    BY <1>3, <2>1 DEF Told, Single
  <2> QED
    BY <2>10, <2>11, <2>12, <2>13, <2>14, Zenon DEF Told
<1>12. cursor' \in {Absent} \cup 1 .. Len(topic') + 1 /\ covers' \subseteq 1 .. Len(topic')
  BY <1>1, <1>3, <1>5 DEF ReaderIInv
<1> QED
  BY <1>3, <1>5, <1>8, <1>10, <1>11, <1>12 DEF ReaderIInv

-----------------------------------------------------------------------------
(* joinChunks takes each of its submissions from one message: whole ones in the
   order of the window, then split ones in that order. *)
WholeIn(w) == {i \in DOMAIN w : Single(w[i].of)}
FirstsIn(w) == {i \in DOMAIN w : ~Single(w[i].of) /\ Complete(w, w[i].of)
                                /\ \A j \in 1 .. i - 1 : w[j].of # w[i].of}

LEMMA JoinedChunks ==
  ASSUME NEW w \in Seq(Message)
  PROVE  /\ joinChunks(w) \in Seq(Submissions)
         /\ \E pos \in [DOMAIN joinChunks(w) -> WholeIn(w) \cup FirstsIn(w)] :
              /\ \A a \in DOMAIN joinChunks(w) : joinChunks(w)[a] = w[pos[a]].of
              /\ \A a, b \in DOMAIN joinChunks(w) : pos[a] = pos[b] => a = b
              /\ \A x \in WholeIn(w) \cup FirstsIn(w) : \E a \in DOMAIN joinChunks(w) : pos[a] = x
              /\ \A a, b \in DOMAIN joinChunks(w) :
                   a < b => \/ pos[a] \in WholeIn(w) /\ pos[b] \in FirstsIn(w)
                            \/ pos[a] < pos[b] /\ (pos[a] \in WholeIn(w) <=> pos[b] \in WholeIn(w))
<1> DEFINE W == WholeIn(w)
           S == FirstsIn(w)
           p == Cardinality(W)
           q == Cardinality(S)
           f == Ascending(W)
           g == Ascending(S)
           J == joinChunks(w)
           pos == [a \in 1 .. p + q |-> IF a \in 1 .. p THEN f[a] ELSE g[a - p]]
<1>1. /\ DOMAIN w = 1 .. Len(w) /\ Len(w) \in Nat
      /\ \A i \in DOMAIN w : w[i] \in Message /\ w[i].of \in Submissions
  <2>1. \A i \in DOMAIN w : w[i] \in Message
    OBVIOUS
  <2>2. \A m \in Message : m.of \in Submissions
    BY DEF Message
  <2> QED
    BY <2>1, <2>2
<1>2. W \subseteq DOMAIN w /\ S \subseteq DOMAIN w /\ W \cap S = {}
  <2>1. W \subseteq DOMAIN w /\ S \subseteq DOMAIN w
    BY DEF WholeIn, FirstsIn
  <2>2. \A i \in W : Single(w[i].of)
    BY DEF WholeIn
  <2>3. \A i \in S : ~Single(w[i].of)
    BY DEF FirstsIn
  <2> HIDE DEF W, S
  <2> QED
    BY <2>1, <2>2, <2>3
<1>3. W \in SUBSET Int /\ S \in SUBSET Int /\ IsFiniteSet(W) /\ IsFiniteSet(S)
  <2> HIDE DEF W, S
  <2>1. IsFiniteSet(DOMAIN w)
    BY <1>1, FS_Interval
  <2> QED
    BY <1>1, <1>2, <2>1, FS_Subset
<1>4. /\ p \in Nat /\ f \in [1 .. p -> W]
      /\ \A i, j \in 1 .. p : i < j => f[i] < f[j]
      /\ \A i, j \in 1 .. p : f[i] = f[j] => i = j
      /\ \A x \in W : \E i \in 1 .. p : f[i] = x
  <2> HIDE DEF W
  <2> QED
    BY <1>3, AscendingLists
<1>5. /\ q \in Nat /\ g \in [1 .. q -> S]
      /\ \A i, j \in 1 .. q : i < j => g[i] < g[j]
      /\ \A i, j \in 1 .. q : g[i] = g[j] => i = j
      /\ \A x \in S : \E i \in 1 .. q : g[i] = x
  <2> HIDE DEF S
  <2> QED
    BY <1>3, AscendingLists
<1>6. J = [i \in DOMAIN f |-> w[f[i]].of] \o [i \in DOMAIN g |-> w[g[i]].of]
  BY DEF joinChunks, WholeIn, FirstsIn
<1> HIDE DEF W, S, p, q, f, g, J
<1>7. /\ J \in Seq(Submissions) /\ DOMAIN J = 1 .. p + q
      /\ \A a \in 1 .. p : J[a] = w[f[a]].of
      /\ \A a \in 1 .. q : J[p + a] = w[g[a]].of
  <2> DEFINE u == [i \in DOMAIN f |-> w[f[i]].of]
             v == [i \in DOMAIN g |-> w[g[i]].of]
  <2>1. DOMAIN f = 1 .. p /\ DOMAIN g = 1 .. q
    BY <1>4, <1>5
  <2>2. (\A i \in 1 .. p : f[i] \in DOMAIN w) /\ (\A i \in 1 .. q : g[i] \in DOMAIN w)
    BY <1>2, <1>4, <1>5
  <2>3. u \in [1 .. p -> Submissions] /\ v \in [1 .. q -> Submissions]
    BY <1>1, <2>1, <2>2
  <2>4. u \in Seq(Submissions) /\ v \in Seq(Submissions) /\ Len(u) = p /\ Len(v) = q
    <3> HIDE DEF u, v
    <3> QED
      BY <1>4, <1>5, <2>3
  <2>5. (\A i \in 1 .. p : u[i] = w[f[i]].of) /\ (\A i \in 1 .. q : v[i] = w[g[i]].of)
    BY <2>1
  <2>6. J = u \o v
    BY <1>6
  <2> HIDE DEF u, v
  <2>7. /\ J \in Seq(Submissions) /\ DOMAIN J = 1 .. p + q
        /\ \A a \in 1 .. p : J[a] = u[a]
        /\ \A a \in 1 .. q : J[p + a] = v[a]
    <3>1. u \o v \in Seq(Submissions) /\ Len(u \o v) = Len(u) + Len(v)
      BY <2>4
    <3>2. DOMAIN (u \o v) = 1 .. Len(u \o v)
      BY <2>4
    <3>3. \A a \in 1 .. Len(u) : (u \o v)[a] = u[a]
      BY <2>4
    <3>4. \A a \in 1 .. Len(v) : (u \o v)[Len(u) + a] = v[a]
      BY <2>4
    <3> QED
      BY <2>4, <2>6, <3>1, <3>2, <3>3, <3>4, Zenon
  <2>8. \A a \in 1 .. p : J[a] = w[f[a]].of
    BY <2>5, <2>7, Zenon
  <2>9. \A a \in 1 .. q : J[p + a] = w[g[a]].of
    BY <2>5, <2>7, Zenon
  <2> QED
    BY <2>7, <2>8, <2>9, Zenon
<1>8. /\ \A a \in 1 .. p : pos[a] = f[a] /\ pos[a] \in W
      /\ \A a \in 1 .. q : pos[p + a] = g[a] /\ pos[p + a] \in S
  <2>1. ASSUME NEW a \in 1 .. p PROVE pos[a] = f[a] /\ pos[a] \in W
    BY <1>4, <1>5
  <2>2. ASSUME NEW a \in 1 .. q PROVE pos[p + a] = g[a] /\ pos[p + a] \in S
    <3>1. p + a \in 1 .. p + q /\ p + a \notin 1 .. p /\ p + a - p = a
      BY <1>4, <1>5
    <3>2. pos[p + a] = IF p + a \in 1 .. p THEN f[p + a] ELSE g[p + a - p]
      BY <1>4, <1>5, <3>1
    <3>3. g[p + a - p] = g[a] /\ g[a] \in S
      BY <1>5, <3>1
    <3> QED
      BY <3>1, <3>2, <3>3, Zenon
  <2> HIDE DEF pos
  <2> QED
    BY <2>1, <2>2
<1>9. \A a \in 1 .. p + q : a \in 1 .. p \/ (a > p /\ a - p \in 1 .. q /\ a = p + (a - p))
  BY <1>4, <1>5
<1>10. DOMAIN pos = 1 .. p + q /\ pos = [a \in DOMAIN pos |-> pos[a]]
  OBVIOUS
<1> HIDE DEF pos
<1>11. pos \in [1 .. p + q -> W \cup S]
  <2>1. \A a \in 1 .. p + q : pos[a] \in W \cup S
    BY <1>8, <1>9
  <2> QED
    BY <1>10, <2>1
<1>12. \A a \in 1 .. p + q : J[a] = w[pos[a]].of
  <2> TAKE a \in 1 .. p + q
  <2>1. CASE a \in 1 .. p
    BY <1>7, <1>8, <2>1
  <2>2. CASE a - p \in 1 .. q /\ a = p + (a - p)
    BY <1>7, <1>8, <2>2
  <2> QED
    BY <1>9, <2>1, <2>2
<1>13. \A a, b \in 1 .. p + q : pos[a] = pos[b] => a = b
  <2> SUFFICES ASSUME NEW a \in 1 .. p + q, NEW b \in 1 .. p + q, pos[a] = pos[b] PROVE a = b
    OBVIOUS
  <2>1. CASE a \in 1 .. p /\ b \in 1 .. p
    BY <1>4, <1>8, <2>1
  <2>2. CASE a \in 1 .. p /\ b \notin 1 .. p
    BY <1>2, <1>8, <1>9, <2>2
  <2>3. CASE a \notin 1 .. p /\ b \in 1 .. p
    BY <1>2, <1>8, <1>9, <2>3
  <2>4. CASE a \notin 1 .. p /\ b \notin 1 .. p
    <3>1. a - p \in 1 .. q /\ b - p \in 1 .. q /\ pos[a] = g[a - p] /\ pos[b] = g[b - p]
      BY <1>8, <1>9, <2>4
    <3>2. a - p = b - p
      BY <1>5, <3>1
    <3> QED
      BY <1>4, <3>2
  <2> QED
    BY <2>1, <2>2, <2>3, <2>4
<1>14. \A x \in W \cup S : \E a \in 1 .. p + q : pos[a] = x
  <2> TAKE x \in W \cup S
  <2>1. CASE x \in W
    <3>1. PICK i \in 1 .. p : f[i] = x
      BY <1>4, <2>1
    <3>2. i \in 1 .. p + q
      BY <1>4, <1>5
    <3> QED
      BY <1>8, <3>1, <3>2
  <2>2. CASE x \in S
    <3>1. PICK i \in 1 .. q : g[i] = x
      BY <1>5, <2>2
    <3>2. p + i \in 1 .. p + q
      BY <1>4, <1>5
    <3> QED
      BY <1>8, <3>1, <3>2
  <2> QED
    BY <2>1, <2>2
<1>15. ASSUME NEW a \in 1 .. p + q, NEW b \in 1 .. p + q, a < b
       PROVE  \/ pos[a] \in W /\ pos[b] \in S
              \/ pos[a] < pos[b] /\ (pos[a] \in W <=> pos[b] \in W)
  <2>1. CASE a \in 1 .. p /\ b \in 1 .. p
    BY <1>4, <1>8, <1>15, <2>1
  <2>2. CASE a \in 1 .. p /\ b \notin 1 .. p
    BY <1>8, <1>9, <2>2
  <2>3. CASE a \notin 1 .. p
    <3>1. /\ a - p \in 1 .. q /\ a = p + (a - p)
          /\ b - p \in 1 .. q /\ b = p + (b - p) /\ a - p < b - p
      BY <1>4, <1>5, <1>15, <2>3
    <3>2. pos[a] = g[a - p] /\ pos[b] = g[b - p] /\ pos[a] \in S /\ pos[b] \in S
      BY <1>8, <3>1
    <3>3. pos[a] \notin W /\ pos[b] \notin W
      BY <1>2, <3>2
    <3> QED
      BY <1>5, <3>1, <3>2, <3>3
  <2> QED
    BY <2>1, <2>2, <2>3
<1>16. \E h \in [DOMAIN J -> W \cup S] :
         /\ \A a \in DOMAIN J : J[a] = w[h[a]].of
         /\ \A a, b \in DOMAIN J : h[a] = h[b] => a = b
         /\ \A x \in W \cup S : \E a \in DOMAIN J : h[a] = x
         /\ \A a, b \in DOMAIN J :
              a < b => \/ h[a] \in W /\ h[b] \in S
                       \/ h[a] < h[b] /\ (h[a] \in W <=> h[b] \in W)
  <2>1. DOMAIN J = 1 .. p + q
    BY <1>7
  <2> QED
    BY <1>11, <1>12, <1>13, <1>14, <1>15, <2>1
<1> QED
  BY <1>7, <1>16 DEF W, S, J

-----------------------------------------------------------------------------
(* What the topic is when the invariant holds. *)
LEMMA TopicHas ==
  ASSUME ReaderIInv
  PROVE  /\ Len(topic) \in Nat /\ DOMAIN topic = 1 .. Len(topic)
         /\ Len(fetched) \in Nat /\ DOMAIN fetched = 1 .. Len(fetched)
         /\ \A i \in 1 .. Len(topic) :
              /\ topic[i] \in Message /\ topic[i].of \in Submissions
              /\ topic[i].number \in Nat \ {0}
              /\ topic[i] = [of |-> topic[i].of, number |-> topic[i].number]
         /\ \A s \in Submissions : ChunksOf[s] \in Nat \ {0} /\ Written(s) \in Nat
         /\ \A s \in Submissions : Written(s) <= ChunksOf[s]
         /\ \A i \in 1 .. Len(topic) :
              topic[i].number <= Written(topic[i].of) /\ topic[i].number <= ChunksOf[topic[i].of]
<1>1. topic \in Seq(Message) /\ fetched \in Seq(Message) /\ Numbered
  BY DEF ReaderIInv
<1>2. /\ Len(topic) \in Nat /\ DOMAIN topic = 1 .. Len(topic)
      /\ Len(fetched) \in Nat /\ DOMAIN fetched = 1 .. Len(fetched)
      /\ \A i \in 1 .. Len(topic) : topic[i] \in Message
  BY <1>1
<1>3. \A m \in Message : /\ m.of \in Submissions /\ m.number \in Nat \ {0}
                         /\ m = [of |-> m.of, number |-> m.number]
  BY DEF Message
<1>4. \A s \in Submissions : ChunksOf[s] \in Nat \ {0} /\ Written(s) \in Nat
  BY <1>1, WrittenIsCounted, ReaderAssumption
<1>5. \A s \in Submissions : Written(s) <= ChunksOf[s]
  BY <1>1 DEF Numbered
<1>6. \A i \in 1 .. Len(topic) : topic[i].number <= Written(topic[i].of)
  BY <1>1, <1>2 DEF Numbered
<1>7. ASSUME NEW i \in 1 .. Len(topic) PROVE topic[i].number <= ChunksOf[topic[i].of]
  <2>1. topic[i].of \in Submissions /\ topic[i].number \in Nat \ {0}
    BY <1>2, <1>3
  <2>2. Written(topic[i].of) \in Nat /\ ChunksOf[topic[i].of] \in Nat
        /\ Written(topic[i].of) <= ChunksOf[topic[i].of]
    BY <1>4, <1>5, <2>1
  <2> QED
    BY <1>6, <2>1, <2>2
<1>8. \A i \in 1 .. Len(topic) :
        /\ topic[i] \in Message /\ topic[i].of \in Submissions
        /\ topic[i].number \in Nat \ {0}
        /\ topic[i] = [of |-> topic[i].of, number |-> topic[i].number]
  BY <1>2, <1>3
<1> QED
  BY <1>2, <1>4, <1>5, <1>6, <1>7, <1>8

(* A message with its submission's last number: the submission is done. *)
LEMMA LastIsDone ==
  ASSUME ReaderIInv, NEW i \in 1 .. Len(topic), topic[i].number = ChunksOf[topic[i].of]
  PROVE  topic[i] = LastOf(topic[i].of) /\ Done(topic[i].of)
<1>1. topic[i] = LastOf(topic[i].of)
  BY TopicHas DEF LastOf
<1>2. topic[i].of \in Submissions
  BY TopicHas
<1>3. /\ Written(topic[i].of) \in Nat /\ ChunksOf[topic[i].of] \in Nat
      /\ Written(topic[i].of) <= ChunksOf[topic[i].of]
      /\ topic[i].number <= Written(topic[i].of)
  BY <1>2, TopicHas
<1>4. Done(topic[i].of)
  BY <1>3 DEF Done
<1> QED
  BY <1>1, <1>4

(* The message at a place of the window, and its place on the topic. *)
LEMMA WindowHas ==
  ASSUME ReaderIInv, cursor # Absent
  PROVE  /\ cursor \in Nat /\ cursor >= 1
         /\ \A i \in 1 .. Len(fetched) :
              /\ cursor + Len(fetched) - i \in 1 .. Len(topic)
              /\ cursor + Len(fetched) - i \in cursor .. cursor + Len(fetched) - 1
              /\ fetched[i] = topic[cursor + Len(fetched) - i]
<1>1. cursor \in 1 .. Len(topic) + 1
  BY DEF ReaderIInv
<1>2. Len(topic) \in Nat /\ Len(fetched) \in Nat
  BY TopicHas
<1>3. /\ cursor + Len(fetched) - 1 <= Len(topic)
      /\ \A i \in 1 .. Len(fetched) : fetched[i] = topic[cursor + Len(fetched) - i]
  BY DEF ReaderIInv, Window
<1> QED
  BY <1>1, <1>2, <1>3

(* Of a submission that is joined from the window, the message it is taken from
   is its last slice. *)
LEMMA JoinedIsLast ==
  ASSUME ReaderIInv, cursor # Absent, NEW x \in WholeIn(fetched) \cup FirstsIn(fetched)
  PROVE  /\ x \in 1 .. Len(fetched) /\ fetched[x] = LastOf(fetched[x].of)
         /\ Done(fetched[x].of) /\ fetched[x].of \in Submissions
<1> DEFINE k == cursor + Len(fetched) - x
           s == fetched[x].of
<1>1. x \in 1 .. Len(fetched)
  BY TopicHas DEF WholeIn, FirstsIn
<1>2. k \in 1 .. Len(topic) /\ fetched[x] = topic[k]
  BY <1>1, WindowHas
<1> HIDE DEF k
<1>3. s \in Submissions /\ ChunksOf[s] \in Nat \ {0} /\ topic[k].number \in Nat \ {0}
      /\ topic[k].number <= ChunksOf[s]
  BY <1>2, TopicHas
<1>4. CASE x \in WholeIn(fetched)
  <2>1. ChunksOf[s] = 1
    BY <1>4 DEF WholeIn, Single
  <2>2. topic[k].number = ChunksOf[s]
    BY <1>3, <2>1
  <2> QED
    BY <1>1, <1>2, <1>3, <2>2, LastIsDone
<1>5. CASE x \in FirstsIn(fetched)
  <2>1. Complete(fetched, s) /\ \A j \in 1 .. x - 1 : fetched[j].of # s
    BY <1>5 DEF FirstsIn
  <2>2. ChunksOf[s] \in Parts(fetched, s)
    BY <1>3, <2>1 DEF Complete
  <2>3. PICK j \in DOMAIN fetched : fetched[j].of = s /\ fetched[j].number = ChunksOf[s]
    BY <2>2 DEF Parts
  <2>4. j \in 1 .. Len(fetched) /\ Len(fetched) \in Nat
    BY TopicHas
  <2>5. cursor + Len(fetched) - j \in 1 .. Len(topic) /\ fetched[j] = topic[cursor + Len(fetched) - j]
    BY <2>4, WindowHas
  <2>6. CASE j < x
    BY <1>1, <2>1, <2>3, <2>4, <2>6
  <2>7. CASE j > x
    <3>1. cursor + Len(fetched) - j < k
      BY <1>1, <2>4, <2>7, WindowHas DEF k
    <3>2. topic[cursor + Len(fetched) - j].number < topic[k].number
      BY <1>2, <2>3, <2>5, <3>1, TopicHas DEF ReaderIInv, Numbered
    <3> QED
      BY <1>2, <1>3, <2>3, <2>5, <3>2
  <2>8. CASE j = x
    BY <1>1, <1>2, <1>3, <2>3, <2>8, LastIsDone
  <2> QED
    BY <1>1, <2>4, <2>6, <2>7, <2>8
<1> QED
  BY <1>4, <1>5

(* The other way round: a submission of which every slice is in the window is
   joined. *)
LEMMA WhatIsWholeIsJoined ==
  ASSUME ReaderIInv, cursor # Absent, NEW s \in Submissions,
         \A n \in 1 .. ChunksOf[s] : \E i \in 1 .. Len(fetched) : fetched[i] = [of |-> s, number |-> n]
  PROVE  \E x \in WholeIn(fetched) \cup FirstsIn(fetched) : fetched[x].of = s
<1>1. ChunksOf[s] \in Nat \ {0} /\ Len(fetched) \in Nat /\ DOMAIN fetched = 1 .. Len(fetched)
  BY TopicHas
<1>2. PICK x \in 1 .. Len(fetched) : fetched[x] = [of |-> s, number |-> ChunksOf[s]]
  BY <1>1
<1>3. fetched[x].of = s /\ fetched[x].number = ChunksOf[s]
  BY <1>2
<1>4. CASE ChunksOf[s] = 1
  BY <1>1, <1>3, <1>4 DEF WholeIn, Single
<1>5. CASE ChunksOf[s] > 1
  <2>1. Parts(fetched, s) = 1 .. ChunksOf[s]
    <3>1. ASSUME NEW n \in Parts(fetched, s) PROVE n \in 1 .. ChunksOf[s]
      <4>1. PICK i \in DOMAIN fetched : fetched[i].of = s /\ fetched[i].number = n
        BY DEF Parts
      <4>2. PICK k \in 1 .. Len(topic) : fetched[i] = topic[k]
        BY <1>1, WindowHas
      <4>3. n \in Nat \ {0} /\ n <= ChunksOf[s]
        BY <4>1, <4>2, TopicHas
      <4> QED
        BY <1>1, <4>3
    <3>2. ASSUME NEW n \in 1 .. ChunksOf[s] PROVE n \in Parts(fetched, s)
      <4>1. PICK i \in 1 .. Len(fetched) : fetched[i] = [of |-> s, number |-> n]
        OBVIOUS
      <4>2. i \in DOMAIN fetched /\ fetched[i].of = s /\ fetched[i].number = n
        BY <1>1, <4>1
      <4> QED
        BY <4>2 DEF Parts
    <3> QED
      BY <3>1, <3>2
  <2>2. ASSUME NEW j \in 1 .. x - 1, fetched[j].of = s PROVE FALSE
    <3> DEFINE kx == cursor + Len(fetched) - x
               kj == cursor + Len(fetched) - j
    <3>1. j \in 1 .. Len(fetched) /\ j < x
      BY <1>1
    <3>2. /\ kx \in 1 .. Len(topic) /\ fetched[x] = topic[kx]
          /\ kj \in 1 .. Len(topic) /\ fetched[j] = topic[kj]
      BY <3>1, WindowHas
    <3>3. kx < kj
      BY <1>1, <3>1, WindowHas
    <3> HIDE DEF kx, kj
    <3>4. topic[kx].number < topic[kj].number
      BY <1>3, <2>2, <3>2, <3>3, TopicHas DEF ReaderIInv, Numbered
    <3>5. topic[kj].number <= ChunksOf[s] /\ topic[kj].number \in Nat
      BY <2>2, <3>2, TopicHas
    <3> QED
      BY <1>1, <1>3, <3>2, <3>4, <3>5
  <2>3. x \in FirstsIn(fetched)
    BY <1>1, <1>3, <1>5, <2>1, <2>2 DEF FirstsIn, Complete, Single
  <2> QED
    BY <1>3, <2>3
<1> QED
  BY <1>1, <1>4, <1>5

-----------------------------------------------------------------------------
(* The steps of the reader. *)
LEMMA TopicKeeps ==
  ASSUME ReaderIInv, topic' = topic
  PROVE  Numbered'
BY DEF ReaderIInv, Numbered, Written

LEMMA ToldKeeps ==
  ASSUME ReaderIInv, UNCHANGED <<topic, trail, covers>>, trail' # Absent
  PROVE  Told'
<1>1. topic' = topic /\ trail' = trail /\ covers' = covers /\ Told
  BY DEF ReaderIInv
<1> QED
  BY <1>1 DEF Told, Done, Written, LastOf, Single

LEMMA FetchTopicKeeps ==
  ASSUME ReaderIInv, FetchTopic
  PROVE  ReaderIInv'
<1>1. /\ cursor' = Len(topic) + 1 /\ fetched' = <<>>
      /\ topicError' = (topicError /\ trail # Absent)
      /\ topic' = topic /\ trail' = trail /\ covers' = covers
  BY DEF FetchTopic
<1>2. Len(topic) \in Nat /\ fetched' \in Seq(Message) /\ Len(fetched') = 0
  BY <1>1, TopicHas
<1>3. topicError' \in BOOLEAN
  BY <1>1, Zenon
<1>4. Window'
  BY <1>1, <1>2 DEF Window
<1>5. Numbered' /\ (trail' # Absent => Told')
  BY <1>1, TopicKeeps, ToldKeeps
<1>6. cursor' \in {Absent} \cup 1 .. Len(topic') + 1
  BY <1>1, <1>2
<1> QED
  BY <1>1, <1>2, <1>3, <1>4, <1>5, <1>6 DEF ReaderIInv

LEMMA FetchPageKeeps ==
  ASSUME ReaderIInv, FetchPage
  PROVE  ReaderIInv'
<1> DEFINE from == IF cursor > PageSize THEN cursor - PageSize ELSE 1
           page == Reverse(SubSeq(topic, from, cursor - 1))
           m == Len(fetched)
           l == cursor - from
<1>1. /\ cursor # Absent /\ cursor > 1 /\ fetched' = fetched \o page /\ cursor' = from
      /\ topic' = topic /\ trail' = trail /\ covers' = covers /\ topicError' = topicError
  BY DEF FetchPage
<1>2. /\ cursor \in 1 .. Len(topic) + 1 /\ cursor + m - 1 <= Len(topic)
      /\ topic \in Seq(Message) /\ fetched \in Seq(Message)
      /\ topicError \in BOOLEAN
  BY <1>1 DEF ReaderIInv, Window
<1>3. Len(topic) \in Nat /\ m \in Nat /\ DOMAIN fetched = 1 .. m
  BY TopicHas
<1>4. PageSize \in Nat \ {0}
  BY ReaderAssumption
<1>5. from \in Nat /\ 1 <= from /\ from <= cursor - 1 /\ cursor - 1 <= Len(topic)
  BY <1>1, <1>2, <1>3, <1>4
<1> HIDE DEF from, m
<1>6. /\ l \in Nat /\ page \in Seq(Message) /\ Len(page) = l
      /\ \A i \in 1 .. l : page[i] = topic[cursor - i]
  <2> DEFINE part == SubSeq(topic, from, cursor - 1)
  <2>1. cursor \in Nat
    BY <1>2, <1>3
  <2>2. part = [i \in 1 .. l |-> topic[from + i - 1]]
    BY <1>2, <1>3, <1>5, <2>1
  <2>3. l \in Nat /\ l > 0
    BY <1>5, <2>1
  <2>4. \A i \in 1 .. l : from + i - 1 \in 1 .. Len(topic)
    BY <1>3, <1>5, <2>1, <2>3
  <2>5. part \in [1 .. l -> Message]
    <3>1. \A i \in 1 .. l : topic[from + i - 1] \in Message
      BY <2>4, TopicHas
    <3> HIDE DEF part, l
    <3> QED
      BY <2>2, <3>1
  <2>6. part \in Seq(Message) /\ Len(part) = l
    <3> HIDE DEF part, l
    <3> QED
      BY <2>3, <2>5
  <2>7. page = [i \in 1 .. l |-> part[(l - i) + 1]]
    <3> HIDE DEF part, l
    <3> QED
      BY <2>6 DEF Reverse, part
  <2>8. \A i \in 1 .. l : (l - i) + 1 \in 1 .. l
    BY <2>3
  <2>9. page \in [1 .. l -> Message] /\ \A i \in 1 .. l : page[i] = part[(l - i) + 1]
    <3> HIDE DEF part, l, page
    <3> QED
      BY <2>5, <2>7, <2>8
  <2>10. page \in Seq(Message) /\ Len(page) = l
    <3> HIDE DEF part, l, page
    <3> QED
      BY <2>3, <2>9
  <2>11. ASSUME NEW i \in 1 .. l PROVE page[i] = topic[cursor - i]
    <3>1. (l - i) + 1 \in 1 .. l /\ from + ((l - i) + 1) - 1 = cursor - i
      BY <1>5, <2>1, <2>3
    <3> HIDE DEF part, l, page
    <3>2. page[i] = part[(l - i) + 1]
      BY <2>9
    <3>3. part[(l - i) + 1] = topic[from + ((l - i) + 1) - 1]
      BY <2>2, <3>1
    <3> QED
      BY <3>1, <3>2, <3>3
  <2> HIDE DEF part, l, page
  <2> QED
    BY <2>3, <2>10, <2>11
<1>7. cursor = from + l /\ cursor \in Nat
  BY <1>2, <1>3, <1>5
<1> HIDE DEF page, l
<1>8. fetched' \in Seq(Message) /\ Len(fetched') = m + l
  <2>1. fetched \o page \in Seq(Message) /\ Len(fetched \o page) = Len(fetched) + Len(page)
    BY <1>2, <1>6
  <2> QED
    BY <1>1, <1>6, <2>1, Zenon DEF m
<1>9. /\ \A i \in 1 .. m : (fetched \o page)[i] = fetched[i]
      /\ \A i \in m + 1 .. m + l : (fetched \o page)[i] = page[i - m]
  BY <1>2, <1>3, <1>6 DEF m
<1>10. \A i \in 1 .. m : fetched[i] = topic[cursor + m - i]
  BY <1>1, WindowHas DEF m
<1>11. ASSUME NEW i \in 1 .. m + l PROVE fetched'[i] = topic[from + (m + l) - i]
  <2>1. CASE i \in 1 .. m
    <3>1. from + (m + l) - i = cursor + m - i
      BY <1>3, <1>5, <1>6, <1>7
    <3> QED
      BY <1>1, <1>9, <1>10, <2>1, <3>1
  <2>2. CASE i \in m + 1 .. m + l
    <3>1. i - m \in 1 .. l /\ from + (m + l) - i = cursor - (i - m)
      BY <1>3, <1>5, <1>6, <1>7, <2>2
    <3> QED
      BY <1>1, <1>6, <1>9, <2>2, <3>1
  <2> QED
    BY <1>3, <1>6, <2>1, <2>2
<1>12. Window'
  <2>1. cursor' # Absent
    BY <1>1, <1>5, ReaderAssumption
  <2>2. cursor' + Len(fetched') - 1 <= Len(topic')
    BY <1>1, <1>2, <1>3, <1>5, <1>6, <1>7, <1>8
  <2>3. \A i \in 1 .. Len(fetched') : fetched'[i] = topic'[cursor' + Len(fetched') - i]
    BY <1>1, <1>8, <1>11
  <2> QED
    BY <2>1, <2>2, <2>3 DEF Window
<1>13. Numbered' /\ (trail' # Absent => Told')
  BY <1>1, TopicKeeps, ToldKeeps
<1>14. cursor' \in {Absent} \cup 1 .. Len(topic') + 1
  BY <1>1, <1>2, <1>3, <1>5
<1> QED
  BY <1>1, <1>2, <1>8, <1>12, <1>13, <1>14 DEF ReaderIInv

LEMMA FetchFailsKeeps ==
  ASSUME ReaderIInv, FetchFails
  PROVE  ReaderIInv'
<1>1. /\ cursor' = Absent /\ fetched' = <<>> /\ topicError' = TRUE
      /\ topic' = topic /\ trail' = trail /\ covers' = covers
  BY DEF FetchFails
<1>2. fetched' \in Seq(Message) /\ topicError' \in BOOLEAN
  BY <1>1
<1>3. Numbered' /\ (trail' # Absent => Told')
  BY <1>1, TopicKeeps, ToldKeeps
<1> QED
  BY <1>1, <1>2, <1>3 DEF ReaderIInv, Window

(* An answer tells what its window holds. *)
LEMMA AnswerKeeps ==
  ASSUME ReaderIInv, Answer
  PROVE  ReaderIInv'
<1> DEFINE m == Len(fetched)
           J == joinChunks(fetched)
           X == WholeIn(fetched) \cup FirstsIn(fetched)
<1>1. /\ cursor # Absent /\ trail' = J /\ covers' = cursor .. cursor + m - 1
      /\ topicError' = FALSE /\ cursor' = Absent /\ fetched' = <<>> /\ topic' = topic
  BY DEF Answer
<1>2. fetched \in Seq(Message) /\ topic \in Seq(Message) /\ Numbered
  BY DEF ReaderIInv
<1>3. PICK pos \in [DOMAIN J -> X] :
        /\ \A a \in DOMAIN J : J[a] = fetched[pos[a]].of
        /\ \A a, b \in DOMAIN J : pos[a] = pos[b] => a = b
        /\ \A x \in X : \E a \in DOMAIN J : pos[a] = x
        /\ \A a, b \in DOMAIN J :
             a < b => \/ pos[a] \in WholeIn(fetched) /\ pos[b] \in FirstsIn(fetched)
                      \/ pos[a] < pos[b] /\ (pos[a] \in WholeIn(fetched) <=> pos[b] \in WholeIn(fetched))
  BY <1>2, JoinedChunks
<1>4. J \in Seq(Submissions) /\ m \in Nat /\ Len(topic) \in Nat /\ DOMAIN topic = 1 .. Len(topic)
  BY <1>2, JoinedChunks, TopicHas
<1>5. \A a \in DOMAIN J : /\ pos[a] \in X /\ pos[a] \in 1 .. m
                          /\ fetched[pos[a]] = LastOf(J[a]) /\ Done(J[a]) /\ J[a] \in Submissions
  <2> TAKE a \in DOMAIN J
  <2>1. pos[a] \in X /\ J[a] = fetched[pos[a]].of
    BY <1>3
  <2> HIDE DEF X, J
  <2>2. /\ pos[a] \in 1 .. m /\ fetched[pos[a]] = LastOf(fetched[pos[a]].of)
        /\ Done(fetched[pos[a]].of) /\ fetched[pos[a]].of \in Submissions
    BY <1>1, <2>1, JoinedIsLast DEF X
  <2> QED
    BY <2>1, <2>2
<1> DEFINE place(a) == cursor + m - pos[a]
<1>6. \A a \in DOMAIN J : place(a) \in 1 .. Len(topic) /\ topic[place(a)] = LastOf(J[a])
  BY <1>1, <1>5, WindowHas
<1> HIDE DEF J, X
<1>7. \A a, b \in DOMAIN J : J[a] = J[b] => a = b
  <2> SUFFICES ASSUME NEW a \in DOMAIN J, NEW b \in DOMAIN J, J[a] = J[b] PROVE a = b
    OBVIOUS
  <2>1. /\ place(a) \in DOMAIN topic /\ place(b) \in DOMAIN topic
        /\ topic[place(a)] = topic[place(b)]
    BY <1>4, <1>6
  <2> HIDE DEF place
  <2>2. place(a) = place(b)
    BY <1>2, <2>1, MessagesAreUnique
  <2>3. pos[a] \in Nat /\ pos[b] \in Nat /\ cursor \in Nat
    <3>1. pos[a] \in 1 .. m /\ pos[b] \in 1 .. m
      BY <1>5
    <3>2. cursor \in Nat
      BY <1>1, WindowHas
    <3> QED
      BY ONLY <3>1, <3>2
  <2>4. \A c, n, p, q \in Int : c + n - p = c + n - q => p = q
    OBVIOUS
  <2>5. cursor + m - pos[a] = cursor + m - pos[b]
    BY <2>2 DEF place
  <2>6. pos[a] = pos[b]
    <3> HIDE DEF m
    <3> QED
      BY ONLY <1>4, <2>3, <2>4, <2>5
  <2> QED
    BY <1>3, <2>6
<1>8. \A a \in DOMAIN J : Done(J[a]) /\ \E i \in DOMAIN topic : topic[i] = LastOf(J[a])
  BY <1>4, <1>5, <1>6
<1>9. ASSUME NEW s \in Submissions,
             \A n \in 1 .. ChunksOf[s] : \E i \in cursor .. cursor + m - 1 : topic[i] = [of |-> s, number |-> n]
      PROVE  \E a \in DOMAIN J : J[a] = s
  <2>1. ASSUME NEW n \in 1 .. ChunksOf[s]
        PROVE  \E i \in 1 .. m : fetched[i] = [of |-> s, number |-> n]
    <3>1. PICK k \in cursor .. cursor + m - 1 : topic[k] = [of |-> s, number |-> n]
      BY <1>9
    <3>2. cursor \in Nat
      BY <1>1, WindowHas
    <3>3. cursor + m - k \in 1 .. m /\ cursor + m - (cursor + m - k) = k
      BY <1>4, <3>2
    <3>4. fetched[cursor + m - k] = topic[k]
      BY <1>1, <3>3, WindowHas
    <3> QED
      BY <3>1, <3>3, <3>4
  <2>2. PICK x \in X : fetched[x].of = s
    BY <1>1, <2>1, WhatIsWholeIsJoined DEF X
  <2> QED
    BY <1>3, <2>2
<1>10. ASSUME NEW a \in DOMAIN J, NEW b \in DOMAIN J, a < b
       PROVE  /\ Single(J[b]) => Single(J[a])
              /\ (Single(J[a]) <=> Single(J[b])) =>
                   \E i, j \in DOMAIN topic : j < i /\ topic[i] = LastOf(J[a]) /\ topic[j] = LastOf(J[b])
  <2>1. \A c \in DOMAIN J : pos[c] \in WholeIn(fetched) <=> Single(J[c])
    <3>1. /\ \A x \in WholeIn(fetched) : Single(fetched[x].of)
          /\ \A x \in FirstsIn(fetched) : ~Single(fetched[x].of)
      BY DEF WholeIn, FirstsIn
    <3> QED
      BY <1>3, <1>5, <3>1 DEF X
  <2>2. pos[b] \in FirstsIn(fetched) => pos[b] \notin WholeIn(fetched)
    BY DEF WholeIn, FirstsIn
  <2>3. Single(J[b]) => Single(J[a])
    BY <1>3, <1>10, <2>1, <2>2
  <2>4. ASSUME Single(J[a]) <=> Single(J[b])
        PROVE  \E i, j \in DOMAIN topic : j < i /\ topic[i] = LastOf(J[a]) /\ topic[j] = LastOf(J[b])
    <3>1. pos[a] < pos[b] /\ pos[a] \in 1 .. m /\ pos[b] \in 1 .. m /\ cursor \in Nat
      BY <1>1, <1>3, <1>5, <1>10, <2>1, <2>2, <2>4, WindowHas
    <3>2. place(b) < place(a)
      BY <1>4, <3>1
    <3> HIDE DEF place
    <3> QED
      BY <1>4, <1>6, <3>2
  <2> QED
    BY <2>3, <2>4
<1>11. Told'
  <2>1. (\A a, b \in DOMAIN trail : trail[a] = trail[b] => a = b)'
    BY <1>1, <1>7
  <2>2. (\A a \in DOMAIN trail : Done(trail[a]) /\ \E i \in DOMAIN topic : topic[i] = LastOf(trail[a]))'
    BY <1>1, <1>8 DEF Done, Written, LastOf
  <2>3. (\A s \in Submissions :
           (\A n \in 1 .. ChunksOf[s] : \E i \in covers : topic[i] = [of |-> s, number |-> n])
             => \E a \in DOMAIN trail : trail[a] = s)'
    BY <1>1, <1>9
  <2>4. (\A a, b \in DOMAIN trail : a < b /\ (Single(trail[a]) <=> Single(trail[b])) =>
           \E i, j \in DOMAIN topic : j < i /\ topic[i] = LastOf(trail[a]) /\ topic[j] = LastOf(trail[b]))'
    BY <1>1, <1>10 DEF LastOf, Single
  <2>5. (\A a, b \in DOMAIN trail : a < b /\ Single(trail[b]) => Single(trail[a]))'
    BY <1>1, <1>10 DEF Single
  <2> QED
    BY <2>1, <2>2, <2>3, <2>4, <2>5, Zenon DEF Told
<1>12. Numbered'
  BY <1>1, TopicKeeps
<1>13. covers' \subseteq 1 .. Len(topic')
  <2>1. cursor \in Nat /\ cursor >= 1 /\ cursor + m - 1 <= Len(topic)
    BY <1>1, WindowHas DEF ReaderIInv, Window
  <2> QED
    BY <1>1, <1>4, <2>1
<1>14. fetched' \in Seq(Message) /\ topicError' \in BOOLEAN /\ trail' \in Seq(Submissions) /\ topic' \in Seq(Message)
  <2>1. topicError' \in BOOLEAN
    BY <1>1, Zenon
  <2>2. fetched' \in Seq(Message)
    BY <1>1
  <2> QED
    BY <1>1, <1>2, <1>4, <2>1, <2>2, Zenon
<1> QED
  BY <1>1, <1>11, <1>12, <1>13, <1>14 DEF ReaderIInv, Window

LEMMA ReaderSteps == ReaderIInv /\ ReaderNext => ReaderIInv'
<1> SUFFICES ASSUME ReaderIInv, ReaderNext PROVE ReaderIInv'
  OBVIOUS
<1>1. CASE \E s \in Submissions : Consensus(s)
  BY <1>1, ConsensusKeeps
<1>2. CASE FetchTopic
  BY <1>2, FetchTopicKeeps
<1>3. CASE FetchPage
  BY <1>3, FetchPageKeeps
<1>4. CASE FetchFails
  BY <1>4, FetchFailsKeeps
<1>5. CASE Answer
  BY <1>5, AnswerKeeps
<1> QED
  BY <1>1, <1>2, <1>3, <1>4, <1>5 DEF ReaderNext

LEMMA ReaderRests == ReaderIInv /\ UNCHANGED readerVars => ReaderIInv'
<1> SUFFICES ASSUME ReaderIInv, UNCHANGED readerVars PROVE ReaderIInv'
  OBVIOUS
<1>1. /\ topic' = topic /\ cursor' = cursor /\ fetched' = fetched /\ trail' = trail
      /\ covers' = covers /\ topicError' = topicError
  BY DEF readerVars
<1>2. Numbered' /\ (trail' # Absent => Told')
  BY <1>1, TopicKeeps, ToldKeeps
<1>3. Window'
  BY <1>1 DEF ReaderIInv, Window
<1> QED
  BY <1>1, <1>2, <1>3 DEF ReaderIInv

-----------------------------------------------------------------------------
(* A part of a sequence, as a function. *)
LEMMA PartOf ==
  ASSUME NEW S, NEW s \in Seq(S), NEW k \in Nat \ {0}, NEW n \in Nat, k + n - 1 <= Len(s)
  PROVE  SubSeq(s, k, k + n - 1) = [i \in 1 .. n |-> s[k + i - 1]]
OBVIOUS

(* What the panel says follows. *)
LEMMA ReaderTypes == ReaderIInv => ReaderTypeOK
<1> SUFFICES ASSUME ReaderIInv PROVE ReaderTypeOK
  OBVIOUS
<1>1. ASSUME cursor # Absent
      PROVE  /\ Len(fetched) + cursor - 1 <= Len(topic)
             /\ fetched = Reverse(SubSeq(topic, cursor, cursor + Len(fetched) - 1))
  <2> DEFINE m == Len(fetched)
             part == SubSeq(topic, cursor, cursor + m - 1)
  <2>1. /\ cursor \in Nat /\ cursor >= 1
        /\ \A i \in 1 .. m : cursor + m - i \in 1 .. Len(topic) /\ fetched[i] = topic[cursor + m - i]
    BY <1>1, WindowHas
  <2>2. m \in Nat /\ Len(topic) \in Nat /\ fetched = [i \in 1 .. m |-> fetched[i]] /\ topic \in Seq(Message)
    BY DEF ReaderIInv
  <2>3. m + cursor - 1 <= Len(topic)
    BY <1>1, <2>1, <2>2 DEF ReaderIInv, Window
  <2> HIDE DEF m
  <2>4. part = [i \in 1 .. m |-> topic[cursor + i - 1]]
    <3>1. cursor \in Nat /\ cursor >= 1
      BY ONLY <2>1
    <3>2. m \in Nat /\ Len(topic) \in Nat /\ topic \in Seq(Message)
      BY ONLY <2>2
    <3>3. cursor \in Nat \ {0} /\ cursor + m - 1 <= Len(topic)
      BY ONLY <2>3, <3>1, <3>2
    <3> QED
      BY ONLY <3>2, <3>3, PartOf
  <2>5. part \in [1 .. m -> Message]
    <3>1. \A i \in 1 .. m : topic[cursor + i - 1] \in Message
      <4> TAKE i \in 1 .. m
      <4>1. cursor + i - 1 \in 1 .. Len(topic)
        BY <2>1, <2>2, <2>3
      <4> QED
        BY <4>1, TopicHas
    <3> HIDE DEF part
    <3> QED
      BY <2>4, <3>1
  <2>6. part \in Seq(Message) /\ Len(part) = m
    <3> HIDE DEF part
    <3> QED
      BY <2>2, <2>5
  <2>7. Reverse(part) = [i \in 1 .. m |-> part[(m - i) + 1]]
    <3> HIDE DEF part
    <3> QED
      BY <2>6 DEF Reverse
  <2>8. ASSUME NEW i \in 1 .. m PROVE part[(m - i) + 1] = fetched[i]
    <3>1. (m - i) + 1 \in 1 .. m /\ cursor + ((m - i) + 1) - 1 = cursor + m - i
      BY <2>1, <2>2
    <3> HIDE DEF part
    <3>2. part[(m - i) + 1] = topic[cursor + ((m - i) + 1) - 1]
      BY <2>4, <3>1
    <3> QED
      BY <2>1, <3>1, <3>2
  <2>9. fetched = Reverse(part)
    <3> HIDE DEF part
    <3> QED
      BY <2>2, <2>7, <2>8
  <2> QED
    BY <2>3, <2>9 DEF m
<1> QED
  BY <1>1 DEF ReaderIInv, ReaderTypeOK, Window

LEMMA RecordsAreWhole == ReaderIInv => RowsAreRecords
BY DEF ReaderIInv, RowsAreRecords, Told, IsInjective

(* The rows are the records of the answer that are of the invoice on screen. *)
KeptAt == {i \in DOMAIN trail : trail[i] \in Marked \cup Plain}

LEMMA RowsAreKept ==
  ASSUME ReaderIInv, trail # Absent
  PROVE  /\ KeptAt \in SUBSET Int /\ IsFiniteSet(KeptAt)
         /\ Cardinality(KeptAt) \in Nat /\ DOMAIN Rows = 1 .. Cardinality(KeptAt)
         /\ \A k \in DOMAIN Rows : /\ Ascending(KeptAt)[k] \in DOMAIN trail
                                   /\ Rows[k] = trail[Ascending(KeptAt)[k]]
                                   /\ Rows[k] \in Submissions
         /\ \A j, k \in DOMAIN Rows : j < k => Ascending(KeptAt)[j] < Ascending(KeptAt)[k]
         /\ \A i \in KeptAt : \E k \in DOMAIN Rows : Ascending(KeptAt)[k] = i
<1> DEFINE K == KeptAt
           n == Cardinality(K)
           f == Ascending(K)
<1>1. trail \in Seq(Submissions)
  BY DEF ReaderIInv
<1>2. DOMAIN trail = 1 .. Len(trail) /\ Len(trail) \in Nat /\ \A i \in DOMAIN trail : trail[i] \in Submissions
  BY <1>1
<1>3. K \subseteq DOMAIN trail
  BY DEF KeptAt
<1>4. K \in SUBSET Int /\ IsFiniteSet(K)
  <2> HIDE DEF K
  <2>1. IsFiniteSet(DOMAIN trail)
    BY <1>2, FS_Interval
  <2> QED
    BY <1>2, <1>3, <2>1, FS_Subset
<1>5. /\ n \in Nat /\ f \in [1 .. n -> K]
      /\ \A i, j \in 1 .. n : i < j => f[i] < f[j]
      /\ \A x \in K : \E i \in 1 .. n : f[i] = x
  <2> HIDE DEF K
  <2> QED
    BY <1>4, AscendingLists
<1>6. Rows = [i \in DOMAIN f |-> trail[f[i]]]
  BY DEF Rows, KeptAt
<1> HIDE DEF K, n, f
<1>7. DOMAIN Rows = 1 .. n /\ \A k \in 1 .. n : Rows[k] = trail[f[k]] /\ f[k] \in DOMAIN trail
  BY <1>3, <1>5, <1>6
<1> QED
  BY <1>2, <1>4, <1>5, <1>7 DEF K, n, f

LEMMA EmptyIsEmpty == ReaderIInv => EmptyMeansNone
<1> SUFFICES ASSUME ReaderIInv, Panel = <<"empty">>
             PROVE  /\ trail # Absent
                    /\ \A s \in Marked \cup Plain : \E n \in 1 .. ChunksOf[s] :
                         \A i \in covers : topic[i] # [of |-> s, number |-> n]
  BY DEF EmptyMeansNone
<1>1. trail # Absent /\ Rows = <<>>
  <2>1. Len(<<"rows", Reverse(Rows)>>) = 2 /\ Len(<<"empty">>) = 1
    OBVIOUS
  <2>2. <<"rows", Reverse(Rows)>> # <<"empty">>
    BY <2>1
  <2>3. <<"error">> # <<"empty">> /\ <<"loading">> # <<"empty">>
    OBVIOUS
  <2> QED
    BY <2>2, <2>3 DEF Panel
<1>2. DOMAIN Rows = {}
  BY <1>1
<1>3. KeptAt = {}
  BY <1>1, <1>2, RowsAreKept
<1>4. ASSUME NEW s \in Marked \cup Plain,
             \A n \in 1 .. ChunksOf[s] : \E i \in covers : topic[i] = [of |-> s, number |-> n]
      PROVE  FALSE
  <2>1. s \in Submissions
    BY ReaderAssumption
  <2>2. PICK a \in DOMAIN trail : trail[a] = s
    BY <1>1, <1>4, <2>1 DEF ReaderIInv, Told
  <2> QED
    BY <1>3, <2>2 DEF KeptAt
<1> QED
  BY <1>1, <1>4

(* Where a message is, is where it is found. *)
LEMMA FoundWhereItIs ==
  ASSUME ReaderIInv, NEW s, NEW n, NEW i \in DOMAIN topic, topic[i] = [of |-> s, number |-> n]
  PROVE  At(s, n) = i
<1>1. \A j \in DOMAIN topic : topic[j] = topic[i] => j = i
  BY MessagesAreUnique DEF ReaderIInv
<1>2. \A j \in DOMAIN topic : topic[j] = [of |-> s, number |-> n] <=> j = i
  BY <1>1
<1>3. At(s, n) = CHOOSE j \in DOMAIN topic : topic[j] = [of |-> s, number |-> n]
  BY DEF At
<1>4. \E j \in DOMAIN topic : topic[j] = [of |-> s, number |-> n]
  OBVIOUS
<1> QED
  BY <1>2, <1>3, <1>4, Zenon

(* A set of numbers that is not empty has a smallest. *)
LEMMA Smallest ==
  ASSUME NEW S \in SUBSET Int, IsFiniteSet(S), S # {}
  PROVE  \E i \in S : \A j \in S : i <= j
<1> DEFINE n == Cardinality(S)
           f == Ascending(S)
<1>1. /\ n \in Nat /\ f \in [1 .. n -> S]
      /\ \A i, j \in 1 .. n : i < j => f[i] < f[j]
      /\ \A x \in S : \E i \in 1 .. n : f[i] = x
  BY AscendingLists
<1> HIDE DEF n, f
<1>2. 1 \in 1 .. n
  <2>1. PICK x \in S : TRUE
    OBVIOUS
  <2>2. PICK i \in 1 .. n : f[i] = x
    BY <1>1, <2>1
  <2> QED
    BY <1>1, <2>2
<1>3. \A j \in S : f[1] <= j
  <2> TAKE j \in S
  <2>1. PICK k \in 1 .. n : f[k] = j
    BY <1>1
  <2>2. f[1] \in Int /\ j \in Int
    BY <1>1, <1>2
  <2>3. k = 1 \/ 1 < k
    OBVIOUS
  <2> QED
    BY <1>1, <1>2, <2>1, <2>2, <2>3
<1> QED
  BY <1>1, <1>2, <1>3

LEMMA LogoIsLatest == ReaderIInv => LogoIsTheLatest
<1> SUFFICES ASSUME ReaderIInv, trail # Absent, LogoOf(Rows) # Absent, NEW s \in ToSet(Rows) \cap Marked
             PROVE  \/ Single(LogoOf(Rows)) /\ ~Single(s)
                    \/ /\ Single(LogoOf(Rows)) <=> Single(s)
                       /\ At(s, ChunksOf[s]) <= At(LogoOf(Rows), ChunksOf[LogoOf(Rows)])
  BY DEF LogoIsTheLatest
<1> DEFINE M == {i \in DOMAIN Rows : Rows[i] \in Marked}
           f == Ascending(KeptAt)
           c == CHOOSE i \in M : \A j \in M : i <= j
<1>1. /\ Cardinality(KeptAt) \in Nat /\ DOMAIN Rows = 1 .. Cardinality(KeptAt)
      /\ \A k \in DOMAIN Rows : f[k] \in DOMAIN trail /\ Rows[k] = trail[f[k]] /\ Rows[k] \in Submissions
      /\ \A j, k \in DOMAIN Rows : j < k => f[j] < f[k]
  BY RowsAreKept
<1>2. PICK k \in DOMAIN Rows : Rows[k] = s
  BY DEF ToSet
<1>3. k \in M
  BY <1>2
<1>4. M \in SUBSET Int /\ IsFiniteSet(M)
  <2>1. M \subseteq DOMAIN Rows /\ DOMAIN Rows \subseteq Int
    BY <1>1
  <2>2. IsFiniteSet(DOMAIN Rows)
    BY <1>1, FS_Interval
  <2> HIDE DEF M
  <2> QED
    BY <2>1, <2>2, FS_Subset
<1>5. \E i \in M : \A j \in M : i <= j
  <2> HIDE DEF M
  <2> QED
    BY <1>3, <1>4, Smallest
<1>6. c \in M /\ \A j \in M : c <= j
  <2> HIDE DEF M
  <2> QED
    BY <1>5
<1>7. LogoOf(Rows) = Rows[c]
  <2>1. M # {}
    BY <1>3
  <2> QED
    BY <2>1 DEF LogoOf
<1> HIDE DEF c
<1> DEFINE l == Rows[c]
<1>8. c \in DOMAIN Rows /\ l \in Marked /\ c <= k /\ c \in Int /\ k \in Int
  BY <1>1, <1>3, <1>6
<1> HIDE DEF M
<1>9. trail[f[c]] = l /\ trail[f[k]] = s /\ f[c] \in DOMAIN trail /\ f[k] \in DOMAIN trail
  BY <1>1, <1>2, <1>8
<1>10. Told
  BY DEF ReaderIInv
<1> HIDE DEF l, f
<1>11. CASE c = k
  <2>1. l = s
    BY <1>2, <1>11 DEF l
  <2>2. PICK i \in DOMAIN topic : topic[i] = LastOf(s)
    BY <1>9, <1>10 DEF Told
  <2>3. At(s, ChunksOf[s]) = i /\ i \in Int
    BY <2>2, FoundWhereItIs, TopicHas DEF LastOf
  <2> QED
    BY <1>7, <2>1, <2>3 DEF l
<1>12. CASE c < k
  <2>1. f[c] < f[k]
    BY <1>1, <1>8, <1>12
  <2>2. Single(s) => Single(l)
    BY <1>9, <1>10, <2>1 DEF Told
  <2>3. CASE Single(l) <=> Single(s)
    <3>1. PICK i \in DOMAIN topic, j \in DOMAIN topic : j < i /\ topic[i] = LastOf(l) /\ topic[j] = LastOf(s)
      BY <1>9, <1>10, <2>1, <2>3 DEF Told
    <3>2. At(l, ChunksOf[l]) = i /\ At(s, ChunksOf[s]) = j /\ i \in Int /\ j \in Int
      BY <3>1, FoundWhereItIs, TopicHas DEF LastOf
    <3> QED
      BY <1>7, <2>3, <3>1, <3>2 DEF l
  <2> QED
    BY <1>7, <2>2, <2>3 DEF l
<1> QED
  BY <1>8, <1>11, <1>12

-----------------------------------------------------------------------------
(* The marketplace. *)
MarketplaceIInv == MarketplaceTypeOK /\ SearchIsListed

LEMMA ProductsOfRates ==
  ASSUME NEW ra \in Nat, NEW rb \in Nat, NEW rc \in Nat,
         NEW ta \in Nat \ {0}, NEW tb \in Nat \ {0}, NEW tc \in Nat \ {0},
         rb * ta <= ra * tb, rc * tb <= rb * tc
  PROVE  rc * ta <= ra * tc
<1>1. \A x, y, z \in Nat : x <= y => x * z <= y * z
  OBVIOUS
<1>2. rb * ta \in Nat /\ ra * tb \in Nat /\ rc * tb \in Nat /\ rb * tc \in Nat
  OBVIOUS
<1>3. (rc * tb) * ta <= (rb * tc) * ta /\ (rb * ta) * tc <= (ra * tb) * tc
  BY <1>1, <1>2
<1>4. (rc * tb) * ta = (rc * ta) * tb /\ (rb * tc) * ta = (rb * ta) * tc /\ (ra * tb) * tc = (ra * tc) * tb
  OBVIOUS
<1>5. rc * ta \in Nat /\ ra * tc \in Nat
  OBVIOUS
<1> DEFINE p == rc * ta
           q == ra * tc
<1>6. p * tb <= q * tb
  <2>1. (rb * tc) * ta \in Nat /\ (rc * tb) * ta \in Nat /\ (ra * tb) * tc \in Nat
    BY <1>2
  <2> DEFINE x == (rc * tb) * ta
             y == (rb * tc) * ta
             z == (ra * tb) * tc
  <2>2. x <= y /\ y <= z /\ x = p * tb /\ z = q * tb
    BY <1>3, <1>4
  <2> HIDE DEF x, y, z, p, q
  <2>3. x \in Nat /\ y \in Nat /\ z \in Nat
    BY <2>1 DEF x, y, z
  <2> QED
    BY <2>2, <2>3
<1>7. p \in Nat /\ q \in Nat
  BY <1>5
<1> HIDE DEF p, q
<1>8. ASSUME p > q PROVE FALSE
  <2>1. p >= q + 1
    BY <1>7, <1>8
  <2>2. (q + 1) * tb <= p * tb
    BY <1>1, <1>7, <2>1
  <2>3. (q + 1) * tb = q * tb + tb
    BY <1>7
  <2>4. q * tb \in Nat /\ p * tb \in Nat
    BY <1>7
  <2> QED
    BY <1>6, <2>2, <2>3, <2>4
<1>9. p <= q
  BY <1>7, <1>8
<1> QED
  BY <1>9 DEF p, q

LEMMA BondHas ==
  ASSUME clock \in Nat, NEW b \in Bond
  PROVE  /\ b.discountRateBps \in Nat /\ b.faceValue \in Nat /\ b.maturity \in Nat
         /\ tenorDays(b) \in Int
<1>1. b.discountRateBps \in Nat /\ b.faceValue \in Nat /\ b.maturity \in Nat
  BY MarketplaceAssumption DEF Bond
<1> QED
  BY <1>1 DEF tenorDays

(* What comes before what is a strict weak order. *)
LEMMA YieldsAreOrdered ==
  ASSUME clock \in Nat
  PROVE  /\ \A a, b \in Bond : YieldsMore(a, b) => ~YieldsMore(b, a)
         /\ \A a, b, c \in Bond :
              ~YieldsMore(b, a) /\ ~YieldsMore(c, b) => ~YieldsMore(c, a)
<1>1. \A b \in Bond : /\ b.discountRateBps \in Nat /\ HasApr(b) \in BOOLEAN
                      /\ (HasApr(b) => tenorDays(b) \in Nat \ {0})
  <2> TAKE b \in Bond
  <2>1. b.discountRateBps \in Nat /\ tenorDays(b) \in Int
    BY BondHas
  <2> QED
    BY <2>1 DEF HasApr
<1>2. ASSUME NEW a \in Bond, NEW b \in Bond, YieldsMore(a, b) PROVE ~YieldsMore(b, a)
  <2>1. CASE HasApr(a) /\ HasApr(b)
    <3>1. a.discountRateBps * tenorDays(b) \in Nat /\ b.discountRateBps * tenorDays(a) \in Nat
      BY <1>1, <2>1
    <3> QED
      BY <1>2, <2>1, <3>1 DEF YieldsMore
  <2>2. CASE ~(HasApr(a) /\ HasApr(b))
    BY <1>2, <2>2 DEF YieldsMore
  <2> QED
    BY <2>1, <2>2
<1>3. ASSUME NEW a \in Bond, NEW b \in Bond, NEW c \in Bond, ~YieldsMore(b, a), ~YieldsMore(c, b)
      PROVE  ~YieldsMore(c, a)
  <2>1. CASE HasApr(a) /\ HasApr(b) /\ HasApr(c)
    <3> DEFINE ra == a.discountRateBps
               rb == b.discountRateBps
               rc == c.discountRateBps
               ta == tenorDays(a)
               tb == tenorDays(b)
               tc == tenorDays(c)
    <3>1. /\ ra \in Nat /\ rb \in Nat /\ rc \in Nat
          /\ ta \in Nat \ {0} /\ tb \in Nat \ {0} /\ tc \in Nat \ {0}
      BY <1>1, <2>1
    <3>2. ~(rb * ta > ra * tb) /\ ~(rc * tb > rb * tc)
      BY <1>3, <2>1 DEF YieldsMore
    <3>3. YieldsMore(c, a) <=> rc * ta > ra * tc
      BY <2>1 DEF YieldsMore
    <3> HIDE DEF ra, rb, rc, ta, tb, tc
    <3>4. rb * ta \in Nat /\ ra * tb \in Nat /\ rc * tb \in Nat /\ rb * tc \in Nat
          /\ rc * ta \in Nat /\ ra * tc \in Nat
      BY <3>1
    <3>5. rb * ta <= ra * tb /\ rc * tb <= rb * tc
      BY <3>2, <3>4
    <3>6. rc * ta <= ra * tc
      BY <3>1, <3>5, ProductsOfRates
    <3> QED
      BY <3>3, <3>4, <3>6
  <2>2. CASE ~(HasApr(a) /\ HasApr(b) /\ HasApr(c))
    BY <1>3, <2>2, Zenon DEF YieldsMore
  <2> QED
    BY <2>1, <2>2
<1> QED
  BY <1>2, <1>3

LEMMA BeforeIsOrdered ==
  ASSUME clock \in Nat, NEW s \in Sorts
  PROVE  /\ \A a, b \in Bond : Before(s, a, b) => ~Before(s, b, a)
         /\ \A a, b, c \in Bond : ~Before(s, b, a) /\ ~Before(s, c, b) => ~Before(s, c, a)
<1>1. CASE s = "apy"
  <2>1. \A a, b : Before(s, a, b) <=> YieldsMore(a, b)
    BY <1>1 DEF Before
  <2> QED
    BY <2>1, YieldsAreOrdered
<1>2. CASE s = "maturity"
  <2>1. \A a, b : Before(s, a, b) <=> a.maturity < b.maturity
    BY <1>2 DEF Before
  <2>2. \A a \in Bond : a.maturity \in Nat
    BY BondHas
  <2> QED
    BY <2>1, <2>2
<1>3. CASE s = "size"
  <2>1. \A a, b : Before(s, a, b) <=> a.faceValue > b.faceValue
    BY <1>3 DEF Before
  <2>2. \A a \in Bond : a.faceValue \in Nat
    BY BondHas
  <2> QED
    BY <2>1, <2>2
<1>4. CASE s = "newest"
  BY <1>4 DEF Before
<1> QED
  BY <1>1, <1>2, <1>3, <1>4 DEF Sorts

(* i comes before j in the list: the order Sorted is of. *)
Ahead(sort, i, j) ==
  \/ Before(sort, bonds[i], bonds[j])
  \/ ~Before(sort, bonds[j], bonds[i]) /\ (IF sort = "newest" THEN i > j ELSE i < j)

LEMMA AheadIsOrdered ==
  ASSUME clock \in Nat, bonds \in Seq(Bond), NEW s \in Sorts
  PROVE  /\ \A i, j \in DOMAIN bonds : i # j => Ahead(s, i, j) \/ Ahead(s, j, i)
         /\ \A i \in DOMAIN bonds : ~Ahead(s, i, i)
         /\ \A i, j, k \in DOMAIN bonds : Ahead(s, i, j) /\ Ahead(s, j, k) => Ahead(s, i, k)
<1> DEFINE B(i, j) == Before(s, bonds[i], bonds[j])
           T(i, j) == IF s = "newest" THEN i > j ELSE i < j
<1>1. \A i \in DOMAIN bonds : bonds[i] \in Bond /\ i \in Int
  OBVIOUS
<1>2. /\ \A i, j \in DOMAIN bonds : B(i, j) => ~B(j, i)
      /\ \A i, j, k \in DOMAIN bonds : ~B(j, i) /\ ~B(k, j) => ~B(k, i)
  BY <1>1, BeforeIsOrdered
<1>3. /\ \A i, j \in DOMAIN bonds : i # j => T(i, j) \/ T(j, i)
      /\ \A i \in DOMAIN bonds : ~T(i, i)
      /\ \A i, j, k \in DOMAIN bonds : T(i, j) /\ T(j, k) => T(i, k)
  BY <1>1
<1>4. \A i, j : Ahead(s, i, j) <=> (B(i, j) \/ (~B(j, i) /\ T(i, j)))
  BY Zenon DEF Ahead
<1> HIDE DEF B, T
<1>5. \A i, j \in DOMAIN bonds : i # j => Ahead(s, i, j) \/ Ahead(s, j, i)
  BY <1>3, <1>4, Zenon
<1>6. \A i \in DOMAIN bonds : ~Ahead(s, i, i)
  BY <1>2, <1>3, <1>4
<1>7. ASSUME NEW i \in DOMAIN bonds, NEW j \in DOMAIN bonds, NEW k \in DOMAIN bonds,
             Ahead(s, i, j), Ahead(s, j, k)
      PROVE  Ahead(s, i, k)
  BY <1>2, <1>3, <1>4, <1>7, Zenon
<1> QED
  BY <1>5, <1>6, <1>7

LEMMA SortedLists ==
  ASSUME clock \in Nat, bonds \in Seq(Bond), NEW s \in Sorts, NEW K \in SUBSET DOMAIN bonds
  PROVE  /\ IsFiniteSet(K) /\ Cardinality(K) \in Nat
         /\ Sorted(K, s) \in [1 .. Cardinality(K) -> K]
         /\ Sorted(K, s) \in Seq(DOMAIN bonds) /\ Len(Sorted(K, s)) = Cardinality(K)
         /\ \A i, j \in 1 .. Cardinality(K) : i < j => Ahead(s, Sorted(K, s)[i], Sorted(K, s)[j])
         /\ \A i, j \in 1 .. Cardinality(K) : Sorted(K, s)[i] = Sorted(K, s)[j] => i = j
         /\ \A x \in K : \E i \in 1 .. Cardinality(K) : Sorted(K, s)[i] = x
<1> DEFINE R == {p \in K \X K : Ahead(s, p[1], p[2])}
           n == Cardinality(K)
           f == Sorted(K, s)
<1>1. IsFiniteSet(K) /\ n \in Nat
  <2>1. DOMAIN bonds = 1 .. Len(bonds) /\ Len(bonds) \in Nat
    OBVIOUS
  <2>2. IsFiniteSet(1 .. Len(bonds))
    BY <2>1, FS_Interval
  <2>3. IsFiniteSet(K)
    BY <2>1, <2>2, FS_Subset
  <2> QED
    BY <2>3, FS_CardinalityType
<1>2. \A x, y \in K : <<x, y>> \in R <=> Ahead(s, x, y)
  OBVIOUS
<1>3. \E t \in [1 .. n -> K] : \A i, j \in 1 .. n : i < j => <<t[i], t[j]>> \in R
  <2>1. \A x, y \in K : x # y => <<x, y>> \in R \/ <<y, x>> \in R
    BY <1>2, AheadIsOrdered
  <2>2. \A x \in K : <<x, x>> \notin R
    BY <1>2, AheadIsOrdered
  <2>3. \A x, y, z \in K : <<x, y>> \in R /\ <<y, z>> \in R => <<x, z>> \in R
    BY <1>2, AheadIsOrdered
  <2> HIDE DEF R
  <2> QED
    BY <1>1, <2>1, <2>2, <2>3, Ranks
<1>4. \E t \in [1 .. n -> K] : \A i, j \in 1 .. n : i < j => Ahead(s, t[i], t[j])
  <2>1. PICK t \in [1 .. n -> K] : \A i, j \in 1 .. n : i < j => <<t[i], t[j]>> \in R
    BY <1>3
  <2>2. \A i, j \in 1 .. n : i < j => Ahead(s, t[i], t[j])
    BY <2>1, <1>2
  <2> QED
    BY <2>2
<1>5. f = CHOOSE t \in [1 .. n -> K] : \A i, j \in 1 .. n : i < j => Ahead(s, t[i], t[j])
  BY DEF Sorted, Ordered, Ahead
<1>6. f \in [1 .. n -> K] /\ \A i, j \in 1 .. n : i < j => Ahead(s, f[i], f[j])
  <2> HIDE DEF f, n
  <2> QED
    BY <1>4, <1>5
<1>7. \A i, j \in 1 .. n : i < j => f[i] # f[j]
  <2> HIDE DEF f, n
  <2> TAKE i, j \in 1 .. n
  <2>1. f[i] \in DOMAIN bonds /\ f[j] \in DOMAIN bonds
    BY <1>6
  <2> QED
    BY <1>6, <2>1, AheadIsOrdered
<1>8. /\ \A i, j \in 1 .. n : f[i] = f[j] => i = j
      /\ \A x \in K : \E i \in 1 .. n : f[i] = x
  <2> HIDE DEF f
  <2>1. NoneTwice(f, K)
    BY ONLY <1>6, <1>7 DEF NoneTwice
  <2>2. Lists(f, K)
    BY <1>1, <2>1, OrderedAreAll
  <2> QED
    BY ONLY <2>2 DEF Lists
<1>9. f \in Seq(DOMAIN bonds) /\ Len(f) = n
  <2> HIDE DEF f, n
  <2>1. f \in [1 .. n -> DOMAIN bonds]
    BY <1>6
  <2> QED
    BY <1>1, <2>1
<1> QED
  BY <1>1, <1>6, <1>8, <1>9

-----------------------------------------------------------------------------
Kept(v) == {i \in DOMAIN bonds : Listed(bonds[i], v)}
Views == [q: Queries, chip: Statuses \cup {"all"}, sort: Sorts, page: Nat \ {0}]

(* The list of Explore and its pages. *)
LEMMA ListOf ==
  ASSUME clock \in Nat, bonds \in Seq(Bond), NEW v, v.sort \in Sorts
  PROVE  /\ IsFiniteSet(Kept(v)) /\ Cardinality(Kept(v)) \in Nat
         /\ filterBonds(v) \in [1 .. Cardinality(Kept(v)) -> Kept(v)]
         /\ Len(filterBonds(v)) = Cardinality(Kept(v))
         /\ DOMAIN filterBonds(v) = 1 .. Cardinality(Kept(v))
         /\ \A i, j \in 1 .. Cardinality(Kept(v)) : filterBonds(v)[i] = filterBonds(v)[j] => i = j
         /\ \A x \in Kept(v) : \E i \in 1 .. Cardinality(Kept(v)) : filterBonds(v)[i] = x
         /\ ToSet(filterBonds(v)) = Kept(v)
<1> DEFINE K == Kept(v)
           f == Sorted(K, v.sort)
           n == Cardinality(K)
<1>1. K \in SUBSET DOMAIN bonds
  BY DEF Kept
<1>2. filterBonds(v) = f
  BY DEF filterBonds, Kept
<1>3. /\ IsFiniteSet(K) /\ n \in Nat /\ f \in [1 .. n -> K] /\ Len(f) = n
      /\ \A i, j \in 1 .. n : f[i] = f[j] => i = j
      /\ \A x \in K : \E i \in 1 .. n : f[i] = x
  <2> HIDE DEF K
  <2> QED
    BY <1>1, SortedLists
<1> HIDE DEF K, f, n
<1>4. ToSet(f) = K
  BY <1>3 DEF ToSet
<1> QED
  BY <1>2, <1>3, <1>4 DEF K, n

LEMMA Divided ==
  ASSUME NEW n \in Nat, NEW d \in Nat \ {0}
  PROVE  n \div d \in Nat /\ (n \div d) * d <= n /\ n < (n \div d) * d + d
OBVIOUS

(* There are as many pages as the list fills. *)
LEMMA PagesFit ==
  ASSUME clock \in Nat, bonds \in Seq(Bond), NEW v, v.sort \in Sorts
  PROVE  /\ Pages(v) \in Nat \ {0}
         /\ Len(filterBonds(v)) > 0 =>
              /\ (Pages(v) - 1) * PAGE_SIZE < Len(filterBonds(v))
              /\ Len(filterBonds(v)) <= Pages(v) * PAGE_SIZE
<1> DEFINE n == Len(filterBonds(v))
           d == PAGE_SIZE
<1>1. n \in Nat /\ d \in Nat \ {0}
  BY ListOf, MarketplaceAssumption
<1>2. Pages(v) = IF n = 0 THEN 1 ELSE (n + d - 1) \div d
  BY DEF Pages
<1> HIDE DEF n, d
<1>3. CASE n = 0
  BY <1>2, <1>3 DEF n
<1>4. CASE n # 0
  <2> DEFINE p == (n + d - 1) \div d
  <2>1. p \in Nat /\ p * d <= n + d - 1 /\ n + d - 1 < p * d + d
    <3>1. n + d - 1 \in Nat
      BY <1>1
    <3> QED
      BY <1>1, <3>1, Divided
  <2> HIDE DEF p
  <2>2. p # 0
    <3>1. p = 0 => p * d = 0
      BY <1>1
    <3> QED
      BY <1>1, <1>4, <2>1, <3>1
  <2>3. (p - 1) * d = p * d - d /\ p * d \in Nat
    BY <1>1, <2>1
  <2>4. (p - 1) * d < n /\ n <= p * d
    BY <1>1, <2>1, <2>3
  <2>5. Pages(v) = p
    BY <1>2, <1>4 DEF p
  <2> QED
    BY <2>1, <2>2, <2>4, <2>5 DEF n, d
<1> QED
  BY <1>3, <1>4

LEMMA CurrentIsThere ==
  ASSUME clock \in Nat, bonds \in Seq(Bond), NEW v, v.sort \in Sorts, v.page \in Nat \ {0}
  PROVE  Current(v) \in 1 .. Pages(v)
BY PagesFit DEF Current

-----------------------------------------------------------------------------
LEMMA ViewOf ==
  ASSUME NEW q \in Queries, NEW c \in Statuses \cup {"all"}, NEW s \in Sorts
  PROVE  [q |-> q, chip |-> c, sort |-> s, page |-> 1] \in Views
<1>1. 1 \in Nat \ {0}
  OBVIOUS
<1> QED
  BY <1>1 DEF Views

LEMMA ViewChanged ==
  ASSUME NEW v \in Views
  PROVE  /\ \A q \in Queries : [v EXCEPT !.q = q, !.page = 1] \in Views
         /\ \A c \in Statuses \cup {"all"} :
              [v EXCEPT !.chip = c, !.page = 1] \in Views /\ [v EXCEPT !.chip = c, !.page = 1].q = v.q
         /\ \A s \in Sorts :
              [v EXCEPT !.sort = s, !.page = 1] \in Views /\ [v EXCEPT !.sort = s, !.page = 1].q = v.q
<1>1. 1 \in Nat \ {0}
  OBVIOUS
<1>2. \A q \in Queries : [v EXCEPT !.q = q, !.page = 1] \in Views
  BY <1>1 DEF Views
<1>3. \A c \in Statuses \cup {"all"} :
        [v EXCEPT !.chip = c, !.page = 1] \in Views /\ [v EXCEPT !.chip = c, !.page = 1].q = v.q
  BY <1>1 DEF Views
<1>4. \A s \in Sorts :
        [v EXCEPT !.sort = s, !.page = 1] \in Views /\ [v EXCEPT !.sort = s, !.page = 1].q = v.q
  BY <1>1 DEF Views
<1> QED
  BY <1>2, <1>3, <1>4

LEMMA MarketplaceStarts == MarketplaceInit => MarketplaceIInv
<1> SUFFICES ASSUME MarketplaceInit PROVE MarketplaceIInv
  OBVIOUS
<1>1. /\ bonds = <<>> /\ clock = 0
      /\ view = [q |-> "", chip |-> "all", sort |-> "apy", page |-> 1]
      /\ search = [route |-> "", edited |-> FALSE]
  BY DEF MarketplaceInit
<1>2. view \in Views
  BY <1>1, ViewOf DEF Queries, Sorts
<1>3. search \in [route: Queries, edited: BOOLEAN]
  BY <1>1 DEF Queries
<1>4. bonds = <<>>
  BY <1>1
<1>6. bonds \in Seq(Bond) /\ DOMAIN bonds = {}
  BY <1>4
<1>5. SearchIsListed
  <2>1. view.q = "" /\ search.route = ""
    BY <1>1
  <2> QED
    BY <2>1 DEF SearchIsListed
<1> QED
  BY <1>1, <1>2, <1>3, <1>4, <1>5, <1>6 DEF MarketplaceIInv, MarketplaceTypeOK, Views

LEMMA MarketplaceHas ==
  ASSUME MarketplaceIInv
  PROVE  /\ bonds \in Seq(Bond) /\ clock \in Nat /\ view \in Views
         /\ search \in [route: Queries, edited: BOOLEAN] /\ SearchIsListed
         /\ Len(bonds) \in Nat /\ DOMAIN bonds = 1 .. Len(bonds)
         /\ \A i \in DOMAIN bonds :
              /\ bonds[i] \in Bond
              /\ bonds[i].supply <= bonds[i].faceValue
              /\ (bonds[i].settled => isMatured(bonds[i]))
              /\ bonds[i].faceValue \in Nat /\ bonds[i].maturity \in Nat /\ bonds[i].supply \in Nat
<1>1. /\ bonds \in Seq(Bond) /\ clock \in Nat /\ view \in Views
      /\ search \in [route: Queries, edited: BOOLEAN] /\ SearchIsListed
      /\ \A i \in DOMAIN bonds : bonds[i].supply <= bonds[i].faceValue
                                 /\ (bonds[i].settled => isMatured(bonds[i]))
  BY DEF MarketplaceIInv, MarketplaceTypeOK, Views
<1>2. Len(bonds) \in Nat /\ DOMAIN bonds = 1 .. Len(bonds) /\ \A i \in DOMAIN bonds : bonds[i] \in Bond
  BY <1>1
<1>3. \A b \in Bond : b.faceValue \in Nat /\ b.maturity \in Nat /\ b.supply \in Nat
  <2>1. \A b \in Bond : b.supply \in Nat
    BY DEF Bond
  <2> QED
    BY <1>1, <2>1, BondHas
<1> QED
  BY <1>1, <1>2, <1>3

(* Listings that stand go on to be what they are. *)
LEMMA OfferKeeps ==
  ASSUME MarketplaceIInv, Listing
  PROVE  MarketplaceIInv'
<1>1. PICK o \in Offers :
        bonds' = Append(bonds, [issuer |-> o.issuer, discountRateBps |-> o.rate,
                                faceValue |-> o.face, supply |-> 0, settled |-> FALSE,
                                maturity |-> clock + 2 * o.days, named |-> o.named])
  BY DEF Listing
<1> DEFINE b == [issuer |-> o.issuer, discountRateBps |-> o.rate, faceValue |-> o.face, supply |-> 0,
                 settled |-> FALSE, maturity |-> clock + 2 * o.days, named |-> o.named]
<1>2. UNCHANGED <<clock, view, search>>
  BY DEF Listing
<1>3. o.days \in Nat /\ o.face \in Nat /\ o.named \in BOOLEAN
  BY MarketplaceAssumption
<1>4. b \in Bond
  <2>1. clock + 2 * o.days \in Nat
    BY <1>3, MarketplaceHas
  <2> QED
    BY <1>3, <2>1 DEF Bond
<1>5. b.supply <= b.faceValue /\ ~b.settled
  BY <1>3
<1> HIDE DEF b
<1>6. bonds' = Append(bonds, b) /\ bonds \in Seq(Bond)
  BY <1>1, MarketplaceHas DEF b
<1>7. /\ bonds' \in Seq(Bond) /\ DOMAIN bonds' = 1 .. Len(bonds) + 1
      /\ bonds'[Len(bonds) + 1] = b /\ \A i \in 1 .. Len(bonds) : bonds'[i] = bonds[i]
  BY <1>4, <1>6
<1>8. \A i \in DOMAIN bonds' : bonds'[i].supply <= bonds'[i].faceValue
                               /\ (bonds'[i].settled => clock >= bonds'[i].maturity)
  <2> TAKE i \in DOMAIN bonds'
  <2>1. CASE i = Len(bonds) + 1
    BY <1>5, <1>7, <2>1
  <2>2. CASE i \in 1 .. Len(bonds)
    BY <1>7, <2>2, MarketplaceHas DEF isMatured
  <2> QED
    BY <1>7, <2>1, <2>2, MarketplaceHas
<1>9. clock' \in Nat /\ view' \in Views /\ search' \in [route: Queries, edited: BOOLEAN] /\ SearchIsListed'
  BY <1>2, MarketplaceHas DEF SearchIsListed
<1> QED
  BY <1>2, <1>7, <1>8, <1>9 DEF MarketplaceIInv, MarketplaceTypeOK, isMatured, Views

LEMMA FundingKeeps ==
  ASSUME MarketplaceIInv, NEW i \in DOMAIN bonds, Funding(i)
  PROVE  MarketplaceIInv'
<1>1. bonds' = [bonds EXCEPT ![i].supply = bonds[i].faceValue] /\ UNCHANGED <<clock, view, search>>
  BY DEF Funding
<1> DEFINE b == [bonds[i] EXCEPT !.supply = bonds[i].faceValue]
<1>2. bonds[i] \in Bond /\ bonds[i].faceValue \in Nat
  BY MarketplaceHas
<1>3. b \in Bond /\ b.supply = b.faceValue /\ b.settled = bonds[i].settled /\ b.maturity = bonds[i].maturity
      /\ b.faceValue \in Nat
  BY <1>2 DEF Bond
<1>4. bonds' = [bonds EXCEPT ![i] = b]
  BY <1>1
<1> HIDE DEF b
<1>5. /\ bonds' \in Seq(Bond) /\ DOMAIN bonds' = DOMAIN bonds /\ bonds'[i] = b
      /\ \A k \in DOMAIN bonds \ {i} : bonds'[k] = bonds[k]
  BY <1>3, <1>4, MarketplaceHas
<1>6. \A k \in DOMAIN bonds' : bonds'[k].supply <= bonds'[k].faceValue
                               /\ (bonds'[k].settled => clock >= bonds'[k].maturity)
  <2> TAKE k \in DOMAIN bonds'
  <2>1. CASE k = i
    BY <1>3, <1>5, <2>1, MarketplaceHas DEF isMatured
  <2>2. CASE k # i
    BY <1>5, <2>2, MarketplaceHas DEF isMatured
  <2> QED
    BY <2>1, <2>2
<1>7. clock' \in Nat /\ view' \in Views /\ search' \in [route: Queries, edited: BOOLEAN] /\ SearchIsListed'
  BY <1>1, MarketplaceHas DEF SearchIsListed
<1> QED
  BY <1>1, <1>5, <1>6, <1>7 DEF MarketplaceIInv, MarketplaceTypeOK, isMatured, Views

LEMMA RepaymentKeeps ==
  ASSUME MarketplaceIInv, NEW i \in DOMAIN bonds, Repayment(i)
  PROVE  MarketplaceIInv'
<1>1. /\ bondStatus(bonds[i]) = "matured"
      /\ bonds' = [bonds EXCEPT ![i].settled = TRUE] /\ UNCHANGED <<clock, view, search>>
  BY DEF Repayment
<1> DEFINE b == [bonds[i] EXCEPT !.settled = TRUE]
<1>2. bonds[i] \in Bond /\ clock >= bonds[i].maturity
  BY <1>1, MarketplaceHas DEF bondStatus, isMatured
<1>3. b \in Bond /\ b.supply = bonds[i].supply /\ b.faceValue = bonds[i].faceValue
      /\ b.maturity = bonds[i].maturity
  BY <1>2 DEF Bond
<1>4. bonds' = [bonds EXCEPT ![i] = b]
  BY <1>1
<1> HIDE DEF b
<1>5. /\ bonds' \in Seq(Bond) /\ DOMAIN bonds' = DOMAIN bonds /\ bonds'[i] = b
      /\ \A k \in DOMAIN bonds \ {i} : bonds'[k] = bonds[k]
  BY <1>3, <1>4, MarketplaceHas
<1>6. \A k \in DOMAIN bonds' : bonds'[k].supply <= bonds'[k].faceValue
                               /\ (bonds'[k].settled => clock >= bonds'[k].maturity)
  <2> TAKE k \in DOMAIN bonds'
  <2>1. CASE k = i
    BY <1>2, <1>3, <1>5, <2>1, MarketplaceHas
  <2>2. CASE k # i
    BY <1>5, <2>2, MarketplaceHas DEF isMatured
  <2> QED
    BY <2>1, <2>2
<1>7. clock' \in Nat /\ view' \in Views /\ search' \in [route: Queries, edited: BOOLEAN] /\ SearchIsListed'
  BY <1>1, MarketplaceHas DEF SearchIsListed
<1> QED
  BY <1>1, <1>5, <1>6, <1>7 DEF MarketplaceIInv, MarketplaceTypeOK, isMatured, Views

LEMMA HalfDayKeeps ==
  ASSUME MarketplaceIInv, HalfDay
  PROVE  MarketplaceIInv'
<1>1. clock' = clock + 1 /\ UNCHANGED <<bonds, view, search>>
  BY DEF HalfDay
<1>2. \A i \in DOMAIN bonds : bonds[i].settled => clock + 1 >= bonds[i].maturity
  BY MarketplaceHas DEF isMatured
<1>3. clock' \in Nat /\ view' \in Views /\ search' \in [route: Queries, edited: BOOLEAN] /\ SearchIsListed'
  BY <1>1, MarketplaceHas DEF SearchIsListed
<1>4. \A i \in DOMAIN bonds : bonds[i].supply <= bonds[i].faceValue
  BY MarketplaceHas
<1>5. bonds' \in Seq(Bond)
  BY <1>1, MarketplaceHas
<1> QED
  BY <1>1, <1>2, <1>3, <1>4, <1>5 DEF MarketplaceIInv, MarketplaceTypeOK, isMatured, Views

(* What is typed, chosen and turned concerns the view alone. *)
LEMMA ViewKeeps ==
  ASSUME MarketplaceIInv, UNCHANGED <<bonds, clock>>, view' \in Views,
         search' \in [route: Queries, edited: BOOLEAN], search'.edited \/ view'.q = search'.route
  PROVE  MarketplaceIInv'
<1>1. bonds' \in Seq(Bond) /\ clock' \in Nat
  BY MarketplaceHas
<1>2. \A i \in DOMAIN bonds : bonds[i].supply <= bonds[i].faceValue
                               /\ (bonds[i].settled => clock >= bonds[i].maturity)
  BY MarketplaceHas DEF isMatured
<1>3. SearchIsListed'
  BY DEF SearchIsListed
<1> QED
  BY <1>1, <1>2, <1>3 DEF MarketplaceIInv, MarketplaceTypeOK, isMatured, Views

LEMMA ChooseKeeps ==
  ASSUME MarketplaceIInv, Choose
  PROVE  MarketplaceIInv'
<1>1. UNCHANGED <<bonds, clock>>
  BY DEF Choose
<1>2. view \in Views /\ search \in [route: Queries, edited: BOOLEAN] /\ (search.edited \/ view.q = search.route)
  BY MarketplaceHas DEF SearchIsListed
<1>3. CASE \E q \in Queries : view' = [view EXCEPT !.q = q, !.page = 1]
                              /\ search' = [search EXCEPT !.edited = TRUE]
  <2>1. PICK q \in Queries : view' = [view EXCEPT !.q = q, !.page = 1]
                             /\ search' = [search EXCEPT !.edited = TRUE]
    BY <1>3
  <2>2. [view EXCEPT !.q = q, !.page = 1] \in Views
    BY <1>2, ViewChanged
  <2>3. [search EXCEPT !.edited = TRUE] \in [route: Queries, edited: BOOLEAN]
        /\ [search EXCEPT !.edited = TRUE].edited
    BY <1>2
  <2> QED
    BY <1>1, <2>1, <2>2, <2>3, ViewKeeps
<1>4. CASE /\ \/ \E c \in Statuses \cup {"all"} : view' = [view EXCEPT !.chip = c, !.page = 1]
              \/ \E s \in Sorts : view' = [view EXCEPT !.sort = s, !.page = 1]
              \/ \E p \in Turnable(Current(view), Pages(view)) : view' = [view EXCEPT !.page = p]
           /\ UNCHANGED search
  <2>1. view' \in Views /\ view'.q = view.q
    <3>1. CASE \E c \in Statuses \cup {"all"} : view' = [view EXCEPT !.chip = c, !.page = 1]
      <4>1. PICK c \in Statuses \cup {"all"} : view' = [view EXCEPT !.chip = c, !.page = 1]
        BY <3>1
      <4>2. /\ [view EXCEPT !.chip = c, !.page = 1] \in Views
            /\ [view EXCEPT !.chip = c, !.page = 1].q = view.q
        BY <1>2, ViewChanged, Zenon
      <4> QED
        BY <4>1, <4>2, Zenon
    <3>2. CASE \E s \in Sorts : view' = [view EXCEPT !.sort = s, !.page = 1]
      <4>1. PICK s \in Sorts : view' = [view EXCEPT !.sort = s, !.page = 1]
        BY <3>2
      <4>2. /\ [view EXCEPT !.sort = s, !.page = 1] \in Views
            /\ [view EXCEPT !.sort = s, !.page = 1].q = view.q
        BY <1>2, ViewChanged, Zenon
      <4> QED
        BY <4>1, <4>2, Zenon
    <3>3. CASE \E p \in Turnable(Current(view), Pages(view)) : view' = [view EXCEPT !.page = p]
      <4>1. view.sort \in Sorts /\ view.page \in Nat \ {0}
        BY <1>2 DEF Views
      <4>2. Pages(view) \in Nat \ {0} /\ Current(view) \in 1 .. Pages(view)
        BY <4>1, MarketplaceHas, PagesFit, CurrentIsThere
      <4>3. \A p \in Turnable(Current(view), Pages(view)) : p \in Nat \ {0}
        <5>1. pageNumbers(Current(view), Pages(view)) \subseteq Nat \ {0}
          <6>1. 1 .. Pages(view) \subseteq Nat \ {0}
            BY <4>2
          <6> QED
            BY <6>1 DEF pageNumbers
        <5>2. Current(view) # 1 => Current(view) - 1 \in Nat \ {0}
          BY <4>2
        <5>3. Current(view) + 1 \in Nat \ {0}
          BY <4>2
        <5> QED
          BY <5>1, <5>2, <5>3 DEF Turnable
      <4> QED
        BY <1>2, <3>3, <4>3 DEF Views
    <3> QED
      BY <1>4, <3>1, <3>2, <3>3
  <2> QED
    BY <1>1, <1>2, <1>4, <2>1, ViewKeeps
<1> QED
  BY <1>3, <1>4 DEF Choose

LEMMA SearchKeeps ==
  ASSUME MarketplaceIInv, NEW q \in Queries, SubmitSearch(q) \/ OpenSuggestion(q)
  PROVE  MarketplaceIInv'
<1>1. UNCHANGED <<bonds, clock>>
  BY DEF SubmitSearch, OpenSuggestion
<1>2. search \in [route: Queries, edited: BOOLEAN]
  BY MarketplaceHas
<1>3. CASE SubmitSearch(q)
  <2>1. search' = [route |-> q, edited |-> FALSE]
        /\ view' = [q |-> q, chip |-> "all", sort |-> "apy", page |-> 1]
    BY <1>3 DEF SubmitSearch, Explore
  <2>2. [q |-> q, chip |-> "all", sort |-> "apy", page |-> 1] \in Views
    BY DEF Views, Sorts
  <2>3. [route |-> q, edited |-> FALSE] \in [route: Queries, edited: BOOLEAN]
    OBVIOUS
  <2>4. view'.q = search'.route
    BY <2>1
  <2> QED
    BY <1>1, <2>1, <2>2, <2>3, <2>4, ViewKeeps
<1>4. CASE OpenSuggestion(q)
  <2>1. search' = [search EXCEPT !.edited = FALSE]
        /\ view' = [q |-> search.route, chip |-> "all", sort |-> "apy", page |-> 1]
    BY <1>4 DEF OpenSuggestion
  <2>2. [q |-> search.route, chip |-> "all", sort |-> "apy", page |-> 1] \in Views
    BY <1>2 DEF Views, Sorts
  <2>3. [search EXCEPT !.edited = FALSE] \in [route: Queries, edited: BOOLEAN]
    BY <1>2
  <2>4. view'.q = search'.route
    BY <1>2, <2>1
  <2> QED
    BY <1>1, <2>1, <2>2, <2>3, <2>4, ViewKeeps
<1> QED
  BY <1>3, <1>4

LEMMA MarketplaceSteps == MarketplaceIInv /\ MarketplaceNext => MarketplaceIInv'
<1> SUFFICES ASSUME MarketplaceIInv, MarketplaceNext PROVE MarketplaceIInv'
  OBVIOUS
<1>1. CASE Listing
  BY <1>1, OfferKeeps
<1>2. CASE HalfDay
  BY <1>2, HalfDayKeeps
<1>3. CASE Choose
  BY <1>3, ChooseKeeps
<1>4. CASE \E q \in Queries : SubmitSearch(q) \/ OpenSuggestion(q)
  BY <1>4, SearchKeeps
<1>5. CASE \E i \in DOMAIN bonds : Funding(i)
  BY <1>5, FundingKeeps
<1>6. CASE \E i \in DOMAIN bonds : Repayment(i)
  BY <1>6, RepaymentKeeps
<1> QED
  BY <1>1, <1>2, <1>3, <1>4, <1>5, <1>6 DEF MarketplaceNext

LEMMA MarketplaceRests == MarketplaceIInv /\ UNCHANGED marketplaceVars => MarketplaceIInv'
<1> SUFFICES ASSUME MarketplaceIInv, UNCHANGED marketplaceVars PROVE MarketplaceIInv'
  OBVIOUS
<1>1. bonds' = bonds /\ clock' = clock /\ view' = view /\ search' = search
  BY DEF marketplaceVars
<1> QED
  BY <1>1, ViewKeeps, MarketplaceHas DEF SearchIsListed

-----------------------------------------------------------------------------
LEMMA PagesShow == MarketplaceIInv => PagesAreNotEmpty
<1> SUFFICES ASSUME MarketplaceIInv, Len(filterBonds(view)) > 0
             PROVE  /\ Items(view) # {}
                    /\ Cardinality(Items(view)) = Label(view).end - Label(view).start + 1
  BY DEF PagesAreNotEmpty
<1> DEFINE n == Len(filterBonds(view))
           f == filterBonds(view)
           c == Current(view)
           d == PAGE_SIZE
           K == Kept(view)
           lo == (c - 1) * d + 1
           hi == IF c * d < n THEN c * d ELSE n
           P == PageOf(view, c)
           I == Items(view)
<1>1. clock \in Nat /\ bonds \in Seq(Bond) /\ view.sort \in Sorts /\ view.page \in Nat \ {0}
  BY MarketplaceHas DEF Views
<1>2. /\ n \in Nat /\ IsFiniteSet(K) /\ f \in [1 .. n -> K]
      /\ \A i, j \in 1 .. n : f[i] = f[j] => i = j
  BY <1>1, ListOf
<1>3. Pages(view) \in Nat \ {0} /\ c \in 1 .. Pages(view) /\ (Pages(view) - 1) * d < n
  BY <1>1, PagesFit, CurrentIsThere
<1>4. d \in Nat \ {0}
  BY MarketplaceAssumption
<1>5. P = {i \in lo .. c * d : i <= n} /\ I = {f[i] : i \in P}
      /\ Label(view).start = lo /\ Label(view).end = hi
  BY <1>2 DEF PageOf, Items, Label
<1> HIDE DEF n, f, c, d, K, P, I, lo, hi
<1>6. lo \in Nat /\ hi \in Nat /\ lo >= 1 /\ lo <= hi /\ P = lo .. hi /\ hi <= n
  <2> DEFINE q == Pages(view)
  <2>1. c \in Nat /\ q \in Nat /\ c >= 1 /\ c - 1 <= q - 1
    BY <1>3
  <2> HIDE DEF q
  <2>2. (c - 1) * d <= (q - 1) * d
    <3>1. c - 1 \in Nat /\ q - 1 \in Nat /\ d \in Nat
      BY <1>4, <2>1
    <3>2. \A x, y, z \in Nat : x <= y => x * z <= y * z
      OBVIOUS
    <3> QED
      BY <2>1, <3>1, <3>2
  <2>3. (c - 1) * d = c * d - d /\ c * d \in Nat /\ (c - 1) * d \in Nat /\ (q - 1) * d \in Int
    BY <1>4, <2>1
  <2>4. (c - 1) * d < n
    BY <1>2, <1>3, <2>2, <2>3 DEF q
  <2> DEFINE x == c * d
  <2>5. x \in Nat /\ lo = x - d + 1 /\ lo \in Nat /\ lo <= n
    BY <1>2, <2>3, <2>4 DEF lo
  <2>6. hi = IF x < n THEN x ELSE n
    BY DEF hi
  <2>7. P = {i \in lo .. x : i <= n}
    BY <1>5
  <2> HIDE DEF x
  <2>8. hi \in Nat /\ lo <= hi /\ hi <= n
    BY <1>2, <1>4, <2>5, <2>6
  <2>9. P = lo .. hi
    <3>1. CASE x < n
      BY <1>2, <2>5, <2>6, <2>7, <3>1
    <3>2. CASE ~(x < n)
      BY <1>2, <2>5, <2>6, <2>7, <3>2
    <3> QED
      BY <3>1, <3>2
  <2>10. lo >= 1
    BY <2>3, <2>4 DEF lo
  <2> QED
    BY <2>5, <2>8, <2>9, <2>10
<1>7. P \subseteq 1 .. n /\ lo \in P
  BY <1>2, <1>6
<1>8. I # {} /\ I \subseteq K
  BY <1>2, <1>5, <1>7
<1>9. IsFiniteSet(I)
  BY <1>2, <1>8, FS_Subset
<1> DEFINE g == [i \in P |-> f[i]]
<1>10. g \in Injection(P, I) /\ g \in Surjection(P, I)
  <2>1. g \in [P -> I]
    BY <1>5
  <2>2. \A i, j \in P : g[i] = g[j] => i = j
    BY <1>2, <1>7
  <2>3. \A y \in I : \E i \in P : g[i] = y
    BY <1>5
  <2> HIDE DEF g
  <2> QED
    BY <2>1, <2>2, <2>3 DEF Injection, IsInjective, Surjection
<1>11. Cardinality(P) = Cardinality(I)
  BY <1>9, <1>10, FS_Injection
<1>12. Cardinality(P) = hi - lo + 1
  BY <1>6, FS_Interval
<1> QED
  BY <1>5, <1>8, <1>11, <1>12 DEF I

LEMMA BondsAreReached == MarketplaceIInv => EveryBondIsSomewhere
<1> SUFFICES ASSUME MarketplaceIInv, NEW s \in Sorts, NEW i \in DOMAIN bonds
             PROVE  LET v == [q |-> "", sort |-> s, page |-> 1,
                              chip |-> IF bonds[i].settled THEN "settled" ELSE "all"]
                    IN  \E p \in 1 .. Pages(v) : \E k \in PageOf(v, p) : filterBonds(v)[k] = i
  BY Zenon DEF EveryBondIsSomewhere
<1> DEFINE chip == IF bonds[i].settled THEN "settled" ELSE "all"
           v == [q |-> "", sort |-> s, page |-> 1, chip |-> IF bonds[i].settled THEN "settled" ELSE "all"]
           n == Len(filterBonds(v))
           d == PAGE_SIZE
<1>1. clock \in Nat /\ bonds \in Seq(Bond)
  BY MarketplaceHas
<1>2. v.sort = s /\ v.q = "" /\ v.chip = chip
  OBVIOUS
<1> HIDE DEF v
<1>3. i \in Kept(v)
  <2>1. matches(bonds[i], v.q)
    BY <1>2 DEF matches
  <2>2. CASE bonds[i].settled
    <3>1. v.chip = "settled" /\ bondStatus(bonds[i]) = "settled"
      BY <1>2, <2>2 DEF bondStatus
    <3> QED
      BY <2>1, <3>1 DEF Kept, Listed
  <2>3. CASE ~bonds[i].settled
    <3>1. v.chip = "all" /\ bondStatus(bonds[i]) # "settled"
      BY <1>2, <2>3 DEF bondStatus
    <3> QED
      BY <2>1, <3>1 DEF Kept, Listed
  <2> QED
    BY <2>2, <2>3
<1>4. n \in Nat /\ \E k \in 1 .. n : filterBonds(v)[k] = i
  <2>1. /\ Len(filterBonds(v)) = Cardinality(Kept(v)) /\ Cardinality(Kept(v)) \in Nat
        /\ \A x \in Kept(v) : \E k \in 1 .. Cardinality(Kept(v)) : filterBonds(v)[k] = x
    BY <1>1, <1>2, ListOf
  <2> QED
    BY <1>3, <2>1
<1>5. PICK k \in 1 .. n : filterBonds(v)[k] = i
  BY <1>4
<1>6. /\ Pages(v) \in Nat \ {0} /\ (n > 0 => n <= Pages(v) * d)
      /\ d \in Nat \ {0}
  BY <1>1, <1>2, PagesFit, MarketplaceAssumption
<1> DEFINE b == (k - 1) \div d
<1>7. b \in Nat /\ b * d <= k - 1 /\ k - 1 < b * d + d
  <2>1. k - 1 \in Nat
    BY <1>4
  <2> QED
    BY <1>6, <2>1, Divided
<1> HIDE DEF b, d, n
<1>8. (b + 1 - 1) * d = b * d /\ (b + 1) * d = b * d + d /\ b * d \in Nat
  BY <1>6, <1>7
<1>9. k \in PageOf(v, b + 1)
  <2> DEFINE x == b * d
             y == (b + 1) * d
             z == (b + 1 - 1) * d
  <2>1. x \in Nat /\ y = x + d /\ z = x /\ x <= k - 1 /\ k - 1 < x + d
    BY <1>7, <1>8
  <2>2. k \in Nat /\ k <= n
    BY <1>4
  <2>4. \A p, l : l \in PageOf(v, p) <=> l \in (p - 1) * d + 1 .. p * d /\ l <= n
    BY DEF PageOf, d, n
  <2>5. k \in PageOf(v, b + 1) <=> k \in z + 1 .. y /\ k <= n
    <3> HIDE DEF d, n
    <3>1. k \in PageOf(v, b + 1) <=> k \in (b + 1 - 1) * d + 1 .. (b + 1) * d /\ k <= n
      BY <1>4, <1>6, <1>7, <2>4
    <3> QED
      BY <3>1
  <2> HIDE DEF x, y, z
  <2>3. k \in z + 1 .. y
    BY <1>6, <2>1, <2>2
  <2> QED
    BY <2>2, <2>3, <2>5
<1>10. b + 1 \in 1 .. Pages(v)
  <2> DEFINE q == Pages(v)
  <2>1. q \in Nat /\ n <= q * d
    BY <1>4, <1>6
  <2> HIDE DEF q
  <2>2. ASSUME b + 1 > q PROVE FALSE
    <3>1. q <= b
      BY <1>7, <2>1, <2>2
    <3>2. \A x, y, z \in Nat : x <= y => x * z <= y * z
      OBVIOUS
    <3>3. q * d <= b * d /\ q * d \in Nat /\ b * d \in Nat
      BY <1>6, <1>7, <2>1, <3>1, <3>2
    <3> QED
      BY <1>4, <1>7, <2>1, <3>3
  <2>3. b + 1 <= q
    BY <1>7, <2>1, <2>2
  <2> QED
    BY <1>7, <2>1, <2>3 DEF q
<1> QED
  BY <1>5, <1>9, <1>10 DEF v

(* The first few of a sorted list, and what is under a chip. *)
LEMMA TopIs ==
  ASSUME clock \in Nat, bonds \in Seq(Bond), NEW s \in Sorts, NEW K \in SUBSET DOMAIN bonds, NEW m \in Nat
  PROVE  /\ ToSet(Top(m, K, s)) \subseteq K
         /\ ToSet(Top(m, K, s)) = {Sorted(K, s)[i] : i \in {j \in 1 .. Cardinality(K) : j <= m}}
<1> DEFINE f == Sorted(K, s)
           n == Cardinality(K)
           l == IF n < m THEN n ELSE m
           t == SubSeq(f, 1, l)
<1>1. n \in Nat /\ f \in [1 .. n -> K] /\ Len(f) = n /\ f \in Seq(DOMAIN bonds)
  BY SortedLists
<1>2. Top(m, K, s) = t
  BY <1>1 DEF Top
<1> HIDE DEF f, n
<1>3. l \in Nat /\ l <= n /\ 1 .. l = {j \in 1 .. n : j <= m}
  BY <1>1
<1> HIDE DEF l
<1>4. t = [i \in 1 .. l |-> f[i]]
  <2>1. t = [i \in 1 .. l |-> f[1 + i - 1]]
    BY <1>1, <1>3
  <2>2. \A i \in 1 .. l : 1 + i - 1 = i
    BY <1>3
  <2> HIDE DEF t
  <2> QED
    BY <2>1, <2>2
<1> HIDE DEF t
<1>5. ToSet(t) = {f[i] : i \in 1 .. l}
  BY <1>4 DEF ToSet
<1>6. {f[i] : i \in 1 .. l} \subseteq K
  BY <1>1, <1>3
<1> QED
  BY <1>2, <1>3, <1>5, <1>6 DEF f, n

Chip(c) == ToSet(filterBonds([q |-> "", chip |-> c, sort |-> "newest", page |-> 1]))

LEMMA ChipIs ==
  ASSUME MarketplaceIInv, NEW c
  PROVE  Chip(c) = {i \in DOMAIN bonds :
                      IF c = "all" THEN bondStatus(bonds[i]) # "settled" ELSE bondStatus(bonds[i]) = c}
<1> DEFINE v == [q |-> "", chip |-> c, sort |-> "newest", page |-> 1]
<1>1. v.sort = "newest" /\ v.q = "" /\ v.chip = c
  OBVIOUS
<1> HIDE DEF v
<1>2. v.sort \in Sorts
  BY <1>1 DEF Sorts
<1>3. ToSet(filterBonds(v)) = Kept(v)
  BY <1>2, MarketplaceHas, ListOf
<1>4. Kept(v) = {i \in DOMAIN bonds :
                   IF c = "all" THEN bondStatus(bonds[i]) # "settled" ELSE bondStatus(bonds[i]) = c}
  BY <1>1 DEF Kept, Listed, matches
<1> QED
  BY <1>3, <1>4 DEF Chip, v

LEMMA ListsAreOne == MarketplaceIInv => ListsAgree
<1> SUFFICES ASSUME MarketplaceIInv PROVE ListsAgree
  OBVIOUS
<1>1. clock \in Nat /\ bonds \in Seq(Bond) /\ "apy" \in Sorts /\ "maturity" \in Sorts
  BY MarketplaceHas DEF Sorts
<1>2. TOP \in Nat /\ SUGGESTED \in Nat /\ TOP <= SUGGESTED
  BY MarketplaceAssumption
<1> DEFINE O == WithStatus({"open"})
           S == Sorted(O, "apy")
           n == Cardinality(O)
<1>3. O \in SUBSET DOMAIN bonds /\ WithStatus({"open", "funded"}) \in SUBSET DOMAIN bonds
  BY DEF WithStatus
<1>4. Chip("open") = O
  BY ChipIs DEF WithStatus
<1>5. WithStatus({"open", "funded"}) = Chip("open") \cup Chip("funded")
  BY ChipIs DEF WithStatus
<1>6. ToSet(TopYields) = {S[i] : i \in {j \in 1 .. n : j <= TOP}} /\ ToSet(TopYields) \subseteq O
  BY <1>1, <1>2, <1>3, TopIs DEF TopYields
<1>7. ToSet(Suggestions("")) = {S[i] : i \in {j \in 1 .. n : j <= SUGGESTED}}
  BY <1>1, <1>2, <1>3, TopIs DEF Suggestions
<1>8. ToSet(MaturingSoon) \subseteq Chip("open") \cup Chip("funded")
  BY <1>1, <1>2, <1>3, <1>5, TopIs DEF MaturingSoon
<1>9. /\ n \in Nat
      /\ S \in [1 .. n -> O]
      /\ \A i, j \in 1 .. n : i < j => Ahead("apy", S[i], S[j])
      /\ \A x \in O : \E i \in 1 .. n : S[i] = x
  BY <1>1, <1>3, SortedLists
<1> HIDE DEF O, S, n
<1>10. ToSet(TopYields) \subseteq ToSet(Suggestions(""))
  <2>1. \A j \in 1 .. n : j <= TOP => j <= SUGGESTED
    BY <1>2, <1>9
  <2> QED
    BY <1>6, <1>7, <2>1
<1>11. ASSUME NEW i \in ToSet(TopYields), NEW j \in Chip("open") \ ToSet(TopYields)
       PROVE  ~YieldsMore(bonds[j], bonds[i])
  <2>1. PICK a \in 1 .. n : a <= TOP /\ S[a] = i
    BY <1>6, <1>11
  <2>2. PICK b \in 1 .. n : S[b] = j
    BY <1>4, <1>9, <1>11
  <2>3. b > TOP
    BY <1>2, <1>6, <1>11, <2>2
  <2>4. a < b
    BY <1>2, <1>9, <2>1, <2>3
  <2>5. Ahead("apy", i, j)
    BY <1>9, <2>1, <2>2, <2>4
  <2>6. i \in DOMAIN bonds /\ j \in DOMAIN bonds
    BY <1>3, <1>4, <1>6, <1>11
  <2>7. bonds[i] \in Bond /\ bonds[j] \in Bond
    BY <2>6, MarketplaceHas
  <2>8. \A x, y : Before("apy", x, y) <=> YieldsMore(x, y)
    BY DEF Before
  <2>9. YieldsMore(bonds[i], bonds[j]) \/ ~YieldsMore(bonds[j], bonds[i])
    BY <2>5, <2>8, Zenon DEF Ahead
  <2> QED
    BY <1>1, <2>7, <2>9, YieldsAreOrdered
<1>12. ASSUME NEW i \in DOMAIN bonds
       PROVE  /\ CanFund(bonds[i]) <=> i \in Chip("open")
              /\ CanTrade(bonds[i]) <=> i \in Chip("all") \ Chip("matured")
  <2>1. bondStatus(bonds[i]) \in {"open", "funded", "matured", "settled"}
    BY DEF bondStatus
  <2> QED
    BY <2>1, ChipIs DEF CanFund, CanTrade
<1>13. \A w \in {o.issuer : o \in Offers} : Outstanding(w) = MyInvoices(w) \cap Chip("all")
  BY ChipIs DEF Outstanding, MyInvoices
<1>14. ListsAgree <=>
         /\ ToSet(TopYields) \subseteq Chip("open")
         /\ ToSet(MaturingSoon) \subseteq Chip("open") \cup Chip("funded")
         /\ \A i \in DOMAIN bonds :
              /\ CanFund(bonds[i]) <=> i \in Chip("open")
              /\ CanTrade(bonds[i]) <=> i \in Chip("all") \ Chip("matured")
         /\ \A w \in {o.issuer : o \in Offers} : Outstanding(w) = MyInvoices(w) \cap Chip("all")
         /\ ToSet(TopYields) \subseteq ToSet(Suggestions(""))
         /\ \A i \in ToSet(TopYields) : \A j \in Chip("open") \ ToSet(TopYields) :
              ~YieldsMore(bonds[j], bonds[i])
  BY Zenon DEF ListsAgree, Chip
<1>15. ToSet(TopYields) \subseteq Chip("open")
  BY <1>4, <1>6
<1>16. \A i \in DOMAIN bonds : /\ CanFund(bonds[i]) <=> i \in Chip("open")
                               /\ CanTrade(bonds[i]) <=> i \in Chip("all") \ Chip("matured")
  BY <1>12
<1>17. \A i \in ToSet(TopYields) : \A j \in Chip("open") \ ToSet(TopYields) : ~YieldsMore(bonds[j], bonds[i])
  BY <1>11
<1> QED
  BY <1>8, <1>10, <1>13, <1>14, <1>15, <1>16, <1>17

-----------------------------------------------------------------------------
(* The payoff line.  What the fold adds up is the sum of the function. *)
Summed(f, P) == Cardinality(UNION {UnitsAt(f, x) : x \in P})

LEMMA SummedOf ==
  ASSUME NEW S, IsFiniteSet(S), NEW f \in [S -> Nat], NEW P \in SUBSET S
  PROVE  /\ Summed(f, P) \in Nat /\ Summed(f, {}) = 0
         /\ \A x \in P : Summed(f, P) = f[x] + Summed(f, P \ {x})
<1> DEFINE g == [x \in P |-> f[x]]
<1>1. IsFiniteSet(P) /\ g \in [P -> Nat] /\ DOMAIN g = P
  BY FS_Subset
<1>2. \A Q \in SUBSET P : {UnitsAt(g, x) : x \in Q} = {UnitsAt(f, x) : x \in Q}
  BY DEF UnitsAt
<1>3. Total(g) = Summed(f, P)
  <2> HIDE DEF g
  <2> QED
    BY <1>1, <1>2 DEF Total, Summed
<1>4. Total(g) \in Nat
  <2> HIDE DEF g
  <2> QED
    BY <1>1, TotalType
<1>5. ASSUME NEW x \in P PROVE Summed(f, P) = f[x] + Summed(f, P \ {x})
  <2>1. g[x] = f[x] /\ f[x] \in Nat
    BY <1>5
  <2>2. Cardinality(UNION {UnitsAt(g, y) : y \in P \ {x}}) = Summed(f, P \ {x})
    BY <1>2 DEF Summed
  <2> HIDE DEF g
  <2>3. /\ Total(g) = Cardinality(UNION {UnitsAt(g, y) : y \in P \ {x}}) + g[x]
        /\ Cardinality(UNION {UnitsAt(g, y) : y \in P \ {x}}) \in Nat
    BY <1>1, <1>5, TotalSplit
  <2> QED
    BY <1>3, <2>1, <2>2, <2>3
<1>6. Summed(f, {}) = 0
  <2>1. UNION {UnitsAt(f, x) : x \in {}} = {}
    OBVIOUS
  <2> QED
    BY <2>1, FS_EmptySet DEF Summed
<1> QED
  BY <1>3, <1>4, <1>5, <1>6

AnyOf(P) == CHOOSE x \in P : TRUE

AddsUp(g, f, S) ==
  \A P \in SUBSET S : g[P] = IF P = {} THEN 0 ELSE f[AnyOf(P)] + g[P \ {AnyOf(P)}]

(* A function on the subsets of S that obeys the equation of the sum is it. *)
LEMMA SumIsUnique ==
  ASSUME NEW S, IsFiniteSet(S), NEW f \in [S -> Nat], NEW g, AddsUp(g, f, S)
  PROVE  \A P \in SUBSET S : g[P] = Summed(f, P)
<1> SUFFICES ASSUME NEW P \in SUBSET S, g[P] # Summed(f, P) PROVE FALSE
  OBVIOUS
<1> DEFINE B == {Cardinality(Q) : Q \in {R \in SUBSET S : g[R] # Summed(f, R)}}
<1>1. \A Q \in SUBSET S : IsFiniteSet(Q) /\ Cardinality(Q) \in Nat /\ Cardinality(Q) <= Cardinality(S)
  BY FS_Subset, FS_CardinalityType
<1>2. B \in SUBSET Int /\ B \subseteq 0 .. Cardinality(S) /\ Cardinality(P) \in B
  BY <1>1
<1>3. IsFiniteSet(B)
  <2>1. Cardinality(S) \in Nat
    BY FS_CardinalityType
  <2>2. IsFiniteSet(0 .. Cardinality(S))
    BY <2>1, FS_Interval
  <2> HIDE DEF B
  <2> QED
    BY <1>2, <2>2, FS_Subset
<1>4. \E i \in B : \A j \in B : i <= j
  <2> HIDE DEF B
  <2>1. B # {}
    BY <1>2
  <2> QED
    BY <1>2, <1>3, <2>1, Smallest
<1>5. PICK Q \in SUBSET S : /\ g[Q] # Summed(f, Q)
                            /\ \A j \in B : Cardinality(Q) <= j
  BY <1>4
<1>6. CASE Q = {}
  BY <1>5, <1>6, SummedOf DEF AddsUp
<1>7. CASE Q # {}
  <2> DEFINE x == AnyOf(Q)
  <2>1. x \in Q
    BY <1>7 DEF AnyOf
  <2>2. g[Q] = f[x] + g[Q \ {x}]
    BY <1>7 DEF AddsUp
  <2> HIDE DEF x
  <2>3. Cardinality(Q \ {x}) = Cardinality(Q) - 1 /\ Cardinality(Q) \in Nat
    BY <1>1, <2>1, FS_RemoveElement
  <2>4. Q \ {x} \in SUBSET S
    OBVIOUS
  <2>5. Cardinality(Q \ {x}) \in Nat
    BY <1>1, <2>4
  <2>6. g[Q \ {x}] = Summed(f, Q \ {x})
    <3>1. Cardinality(Q \ {x}) \notin B
      <4> HIDE DEF B
      <4>1. ~(Cardinality(Q) <= Cardinality(Q \ {x}))
        BY <2>3
      <4> QED
        BY <1>5, <4>1
    <3> QED
      BY <2>4, <3>1
  <2>7. Summed(f, Q) = f[x] + Summed(f, Q \ {x})
    BY <2>1, SummedOf
  <2> QED
    BY <1>5, <2>2, <2>6, <2>7
<1> QED
  BY <1>6, <1>7

LEMMA AddedIsTotal ==
  ASSUME NEW S, IsFiniteSet(S), NEW f \in [S -> Nat]
  PROVE  Added(f) = Total(f)
<1> DEFINE step(g) == [P \in SUBSET S |-> IF P = {} THEN 0
                                              ELSE f[AnyOf(P)] + g[P \ {AnyOf(P)}]]
           iter == CHOOSE g : g = step(g)
           w == [P \in SUBSET S |-> Summed(f, P)]
<1>1. Added(f) = iter[S]
  <2>1. DOMAIN f = S
    OBVIOUS
  <2> QED
    BY <2>1 DEF Added, FoldFunction, FoldFunctionOnSet, MapThenFoldSet, AnyOf
<1>2. \A P \in SUBSET S :
        w[P] = IF P = {} THEN 0 ELSE f[AnyOf(P)] + w[P \ {AnyOf(P)}]
  <2> TAKE P \in SUBSET S
  <2>1. CASE P = {}
    BY <2>1, SummedOf
  <2>2. CASE P # {}
    <3> DEFINE x == AnyOf(P)
    <3>1. x \in P
      BY <2>2 DEF AnyOf
    <3> HIDE DEF x
    <3>2. Summed(f, P) = f[x] + Summed(f, P \ {x})
      BY <3>1, SummedOf
    <3>3. P \ {x} \in SUBSET S
      OBVIOUS
    <3>4. w[P] = f[x] + w[P \ {x}]
      BY <3>2, <3>3
    <3> HIDE DEF w
    <3> QED
      BY <2>2, <3>4 DEF x
  <2> QED
    BY <2>1, <2>2
<1>3. w = step(w)
  <2>1. w = [P \in SUBSET S |-> w[P]]
    OBVIOUS
  <2> HIDE DEF w
  <2> QED
    BY <1>2, <2>1
<1>4. iter = step(iter)
  <2> HIDE DEF step, w
  <2> QED
    BY <1>3
<1>5. \A P \in SUBSET S :
        iter[P] = IF P = {} THEN 0 ELSE f[AnyOf(P)] + iter[P \ {AnyOf(P)}]
  <2> HIDE DEF iter
  <2> DEFINE h == [P \in SUBSET S |-> IF P = {} THEN 0 ELSE f[AnyOf(P)] + iter[P \ {AnyOf(P)}]]
  <2>1. iter = h
    BY <1>4, Zenon
  <2>2. \A P \in SUBSET S : h[P] = IF P = {} THEN 0 ELSE f[AnyOf(P)] + iter[P \ {AnyOf(P)}]
    OBVIOUS
  <2>3. \A P \in SUBSET S : iter[P] = h[P]
    <3> HIDE DEF h
    <3> QED
      BY <2>1
  <2> HIDE DEF h
  <2> TAKE P \in SUBSET S
  <2>4. iter[P] = h[P]
    BY <2>3
  <2>5. h[P] = IF P = {} THEN 0 ELSE f[AnyOf(P)] + iter[P \ {AnyOf(P)}]
    BY <2>2
  <2> QED
    BY <2>4, <2>5, Zenon
<1>6. iter[S] = Summed(f, S)
  <2> HIDE DEF iter
  <2>1. AddsUp(iter, f, S)
    BY <1>5, Zenon DEF AddsUp
  <2>2. \A P \in SUBSET S : iter[P] = Summed(f, P)
    BY <2>1, SumIsUnique
  <2> QED
    BY <2>2
<1>7. Total(f) = Summed(f, S)
  BY DEF Total, Summed
<1> QED
  BY <1>1, <1>6, <1>7

(* What is added up grows with what is added. *)
LEMMA TotalGrows ==
  ASSUME NEW S, IsFiniteSet(S), NEW f \in [S -> Nat], NEW g \in [S -> Nat], \A x \in S : f[x] <= g[x]
  PROVE  /\ Total(f) <= Total(g)
         /\ (\E x \in S : f[x] < g[x]) => Total(f) < Total(g)
<1> DEFINE F == UNION {UnitsAt(f, x) : x \in S}
           G == UNION {UnitsAt(g, x) : x \in S}
<1>1. DOMAIN f = S /\ DOMAIN g = S /\ \A x \in S : f[x] \in Nat /\ g[x] \in Nat
  OBVIOUS
<1>2. Total(f) = Cardinality(F) /\ Total(g) = Cardinality(G)
  BY <1>1 DEF Total
<1>3. IsFiniteSet(G)
  BY UnitsFinite
<1>4. \A x \in S : UnitsAt(f, x) \subseteq UnitsAt(g, x)
  BY <1>1 DEF UnitsAt
<1>5. F \in SUBSET G
  BY <1>4
<1> HIDE DEF F, G
<1>6. /\ Cardinality(F) <= Cardinality(G) /\ IsFiniteSet(F)
      /\ (Cardinality(F) = Cardinality(G) => F = G)
  BY <1>3, <1>5, FS_Subset
<1>7. Cardinality(F) \in Nat /\ Cardinality(G) \in Nat
  BY <1>3, <1>6, FS_CardinalityType
<1>8. ASSUME NEW x \in S, f[x] < g[x] PROVE F # G
  <2>1. <<x, g[x]>> \in UnitsAt(g, x)
    BY <1>1, <1>8 DEF UnitsAt
  <2>2. \A y \in S : <<x, g[x]>> \notin UnitsAt(f, y)
    BY <1>1, <1>8 DEF UnitsAt
  <2> QED
    BY <2>1, <2>2 DEF F, G
<1> QED
  BY <1>2, <1>6, <1>7, <1>8

-----------------------------------------------------------------------------
(* Numbers. *)
LEMMA ProductsGrow ==
  ASSUME NEW x \in Nat, NEW y \in Nat, NEW z \in Nat
  PROVE  /\ x * z \in Nat
         /\ x <= y => x * z <= y * z
         /\ x < y /\ z > 0 => x * z < y * z
         /\ x * z = z * x
<1>1. x * z \in Nat /\ y * z \in Nat /\ x * z = z * x
  OBVIOUS
<1>2. x <= y => x * z <= y * z
  OBVIOUS
<1>3. ASSUME x < y, z > 0 PROVE x * z < y * z
  <2>1. (x + 1) * z <= y * z
    <3>1. x + 1 <= y /\ x + 1 \in Nat
      BY <1>3
    <3>2. \A a, b, c \in Nat : a <= b => a * c <= b * c
      OBVIOUS
    <3> QED
      BY <3>1, <3>2
  <2>2. (x + 1) * z = x * z + z
    OBVIOUS
  <2> QED
    BY <1>1, <1>3, <2>1, <2>2
<1> QED
  BY <1>1, <1>2, <1>3

LEMMA DividesExactly ==
  ASSUME NEW d \in Nat \ {0}
  PROVE  /\ \A s \in Nat \ {0} : s % d = 0 => /\ s \div d \in Nat \ {0}
                                             /\ (s \div d) * d = s
         /\ \A a \in Nat : (a * d) \div d = a
<1>1. ASSUME NEW s \in Nat \ {0}, s % d = 0
      PROVE  s \div d \in Nat \ {0} /\ (s \div d) * d = s
  <2>1. s = d * (s \div d) + (s % d) /\ s \div d \in Nat
    OBVIOUS
  <2>2. s = d * (s \div d)
    BY <1>1, <2>1
  <2>3. s \div d # 0
    <3>1. s \div d = 0 => d * (s \div d) = 0
      OBVIOUS
    <3> QED
      BY <2>2, <3>1
  <2>4. (s \div d) * d = d * (s \div d)
    BY <2>1
  <2> QED
    BY <2>1, <2>2, <2>3, <2>4
<1>2. \A a \in Nat : (a * d) \div d = a
  OBVIOUS
<1> QED
  BY <1>1, <1>2

-----------------------------------------------------------------------------
(* The value of a unit of face from today on: it rises by the same amount each
   day, from the discounted cost to par. *)
LEMMA UnitClimbs ==
  ASSUME NEW h \in Holding, NEW t \in Nat, h.maturity > t
  PROVE  LET n == h.maturity - t
             q == Scale \div n
             cost == (Bps - h.rate) * Scale
         IN  /\ n \in Nat \ {0} /\ q \in Nat \ {0} /\ q * n = Scale /\ cost \in Nat
             /\ h.rate \in Nat \ {0} /\ h.rate <= Bps
             /\ cost + (h.rate * n) * q = Bps * Scale
             /\ \A e \in Int : e <= t => unitValue(h, e, t) = cost
             /\ \A i \in 0 .. n : unitValue(h, t + i, t) = cost + (h.rate * i) * q
             /\ \A e \in Int : e >= h.maturity => unitValue(h, e, t) = Bps * Scale
<1> DEFINE n == h.maturity - t
           q == Scale \div n
           r == h.rate
           S == Scale
           cost == (Bps - r) * S
<1>1. h.maturity \in Maturities /\ h.maturity \in Nat \ {0} /\ r \in 1 .. Bps /\ S \in Nat \ {0}
  BY PayoffAssumption DEF Holding
<1>2. n \in Nat \ {0} /\ n \in 1 .. h.maturity
  BY <1>1
<1>3. S % n = 0
  BY <1>1, <1>2, PayoffAssumption
<1> HIDE DEF n
<1>4. q \in Nat \ {0} /\ q * n = S
  BY <1>1, <1>2, <1>3, DividesExactly
<1>5. r \in Nat \ {0} /\ r <= Bps /\ Bps - r \in Nat /\ Bps \in Nat
  <2> HIDE DEF r
  <2>1. r \in 1 .. 10000
    BY <1>1 DEF Bps
  <2>2. Bps = 10000
    BY DEF Bps
  <2> QED
    BY <2>1, <2>2
<1>6. cost \in Nat
  BY <1>1, <1>5
<1>7. cost + (r * n) * q = Bps * S
  <2> HIDE DEF r, S, q
  <2>1. (r * n) * q = r * (q * n)
    BY <1>2, <1>4, <1>5
  <2>2. (r * n) * q = r * S
    BY <1>4, <2>1
  <2>3. (Bps - r) * S = Bps * S - r * S
    BY <1>1, <1>5
  <2>4. Bps * S \in Int /\ r * S \in Int
    BY <1>1, <1>5
  <2> QED
    BY <2>2, <2>3, <2>4
<1>8. ASSUME NEW e \in Int, e <= t PROVE unitValue(h, e, t) = cost
  <2>1. ~(e >= h.maturity \/ h.maturity <= t)
    BY <1>1, <1>8
  <2> QED
    BY <1>8, <2>1 DEF unitValue
<1>9. ASSUME NEW e \in Int, e >= h.maturity PROVE unitValue(h, e, t) = Bps * S
  BY <1>9 DEF unitValue
<1>10. ASSUME NEW i \in 0 .. n PROVE unitValue(h, t + i, t) = cost + (r * i) * q
  <2> HIDE DEF q, r, S, cost
  <2>1. CASE i = 0
    <3>1. unitValue(h, t + i, t) = cost
      BY <1>8, <2>1
    <3>2. (r * i) * q = 0
      BY <1>4, <1>5, <2>1
    <3> QED
      BY <1>6, <3>1, <3>2
  <2>2. CASE i = n
    <3>1. t + i >= h.maturity /\ t + i \in Int
      BY <1>1, <1>2, <2>2 DEF n
    <3>2. unitValue(h, t + i, t) = Bps * S
      BY <1>9, <3>1
    <3> QED
      BY <1>7, <2>2, <3>2
  <2>3. CASE i # 0 /\ i # n
    <3>1. i \in Nat /\ t + i - t = i /\ ~(t + i >= h.maturity \/ h.maturity <= t) /\ ~(t + i <= t)
      BY <1>1, <1>2, <2>3 DEF n
    <3>2. unitValue(h, t + i, t) = (Bps - h.rate) * Scale + h.rate * (t + i - t) * (Scale \div (h.maturity - t))
      BY <3>1 DEF unitValue
    <3> QED
      BY <3>1, <3>2 DEF q, r, S, cost, n
  <2> QED
    BY <2>1, <2>2, <2>3
<1> QED
  BY <1>2, <1>4, <1>5, <1>6, <1>7, <1>8, <1>9, <1>10 DEF n

LEMMA UnitIsPar ==
  ASSUME NEW h \in Holding, NEW t \in Nat, h.maturity <= t, NEW e
  PROVE  unitValue(h, e, t) = Bps * Scale
BY DEF unitValue

LEMMA UnitGrows ==
  ASSUME NEW h \in Holding, NEW t \in Nat
  PROVE  /\ \A d \in Int : unitValue(h, d, t) \in Nat /\ unitValue(h, d, t) <= Bps * Scale
         /\ \A d, e \in Int : d <= e => unitValue(h, d, t) <= unitValue(h, e, t)
         /\ \A d, e \in Int : t <= d /\ d < e /\ d < h.maturity =>
              unitValue(h, d, t) < unitValue(h, e, t)
         /\ \A d \in Int : d >= h.maturity => unitValue(h, d, t) = Bps * Scale
<1> DEFINE P == Bps * Scale
           v(d) == unitValue(h, d, t)
<1>1. P \in Nat /\ h.maturity \in Nat
  <2>1. h.maturity \in Maturities /\ Scale \in Nat /\ Maturities \subseteq Nat
    BY PayoffAssumption DEF Holding
  <2>2. h.maturity \in Nat
    BY <2>1
  <2>3. Bps \in Nat
    BY DEF Bps
  <2> QED
    BY <2>1, <2>2, <2>3
<1>2. CASE h.maturity <= t
  <2>1. \A d : v(d) = P
    BY <1>2, UnitIsPar
  <2> HIDE DEF P, v
  <2>2. \A d, e \in Int : ~(t <= d /\ d < e /\ d < h.maturity)
    BY <1>1, <1>2
  <2>3. P <= P
    BY <1>1
  <2>4. (\A d \in Int : v(d) \in Nat /\ v(d) <= P) /\ (\A d, e \in Int : d <= e => v(d) <= v(e))
    BY <1>1, <2>1, <2>3
  <2> QED
    BY <2>1, <2>2, <2>4 DEF P, v
<1>3. CASE h.maturity > t
  <2> DEFINE n == h.maturity - t
             q == Scale \div n
             r == h.rate
             cost == (Bps - r) * Scale
             c(i) == cost + (r * i) * q
  <2>1. /\ n \in Nat \ {0} /\ q \in Nat \ {0} /\ cost \in Nat /\ r \in Nat \ {0}
        /\ c(n) = P
        /\ \A d \in Int : d <= t => v(d) = cost
        /\ \A i \in 0 .. n : v(t + i) = c(i)
        /\ \A d \in Int : d >= h.maturity => v(d) = P
    BY <1>3, UnitClimbs
  <2>2. h.maturity = t + n
    BY <1>1
  <2> HIDE DEF n, q, r, cost, P, v
  <2>3. \A i, j \in Nat : /\ c(i) \in Nat /\ (i <= j => c(i) <= c(j))
                          /\ (i < j => c(i) < c(j))
    <3> SUFFICES ASSUME NEW i \in Nat, NEW j \in Nat
                 PROVE  c(i) \in Nat /\ (i <= j => c(i) <= c(j)) /\ (i < j => c(i) < c(j))
      OBVIOUS
    <3>1. r * i = i * r /\ r * j = j * r /\ i * r \in Nat /\ j * r \in Nat
          /\ (i <= j => i * r <= j * r) /\ (i < j => i * r < j * r)
      BY <2>1, ProductsGrow
    <3> DEFINE x == i * r
               y == j * r
    <3>2. x \in Nat /\ y \in Nat /\ (i <= j => x <= y) /\ (i < j => x < y)
      BY <3>1
    <3>3. c(i) = cost + x * q /\ c(j) = cost + y * q
      BY <3>1
    <3> HIDE DEF x, y
    <3>4. x * q \in Nat /\ y * q \in Nat /\ (x <= y => x * q <= y * q) /\ (x < y => x * q < y * q)
      BY <2>1, <3>2, ProductsGrow
    <3> HIDE DEF c
    <3> QED
      BY <2>1, <3>2, <3>3, <3>4
  <2>4. cost = c(0)
    <3>1. (r * 0) * q = 0
      BY <2>1
    <3> QED
      BY <2>1, <3>1
  <2> DEFINE i(d) == IF d <= t THEN 0 ELSE IF d >= h.maturity THEN n ELSE d - t
  <2> HIDE DEF c
  <2>5. \A d \in Int : i(d) \in 0 .. n /\ v(d) = c(i(d))
    <3> TAKE d \in Int
    <3>1. CASE d <= t
      BY <2>1, <2>4, <3>1
    <3>2. CASE d > t /\ d >= h.maturity
      BY <2>1, <3>2
    <3>3. CASE d > t /\ d < h.maturity
      <4>1. d - t \in 0 .. n /\ t + (d - t) = d /\ i(d) = d - t
        BY <1>1, <2>1, <2>2, <3>3
      <4> HIDE DEF i
      <4> QED
        BY <2>1, <4>1
    <3> QED
      BY <1>1, <3>1, <3>2, <3>3
  <2>6. \A d, e \in Int : /\ (d <= e => i(d) <= i(e))
                          /\ (t <= d /\ d < e /\ d < h.maturity => i(d) < i(e))
    BY <1>1, <2>1, <2>2
  <2> HIDE DEF i
  <2>7. \A d \in Int : i(d) \in Nat /\ i(d) <= n
    BY <2>1, <2>5
  <2>8. \A d \in Int : v(d) \in Nat /\ v(d) <= P
    BY <2>1, <2>3, <2>5, <2>7
  <2>9. \A d, e \in Int : d <= e => v(d) <= v(e)
    BY <2>3, <2>5, <2>6, <2>7
  <2>10. \A d, e \in Int : t <= d /\ d < e /\ d < h.maturity => v(d) < v(e)
    BY <2>3, <2>5, <2>6, <2>7
  <2> QED
    BY <2>1, <2>8, <2>9, <2>10 DEF v, P
<1> QED
  BY <1>1, <1>2, <1>3

-----------------------------------------------------------------------------
PayoffIInv == PayoffTypeOK

LEMMA HoldingHas ==
  ASSUME PayoffTypeOK, NEW k \in Slots
  PROVE  /\ holdings[k] \in Holding /\ today \in Nat
         /\ holdings[k].maturity \in Nat /\ holdings[k].maturity \in Maturities
         /\ holdings[k].units \in Nat \ {0} /\ holdings[k].claimable \in Nat
         /\ (holdings[k].settled => holdings[k].maturity <= today)
<1>1. holdings[k] \in Holding /\ today \in Nat /\ (holdings[k].settled => holdings[k].maturity <= today)
  BY DEF PayoffTypeOK
<1>2. /\ holdings[k].maturity \in Maturities /\ holdings[k].units \in Units
      /\ holdings[k].claimable \in {0} \cup Units
  BY <1>1 DEF Holding
<1>3. holdings[k].maturity \in Nat /\ holdings[k].units \in Nat \ {0}
  BY <1>2, PayoffAssumption
<1>4. holdings[k].claimable \in Nat
  <2>1. Units \subseteq Nat /\ 0 \in Nat
    BY PayoffAssumption
  <2> QED
    BY <1>2, <2>1
<1> QED
  BY <1>1, <1>2, <1>3, <1>4

LEMMA PayoffStarts == PayoffInit => PayoffIInv
<1> SUFFICES ASSUME PayoffInit PROVE PayoffIInv
  OBVIOUS
<1> DEFINE New == [units: Units, rate: RatesBps, maturity: Maturities, settled: {FALSE}, claimable: {0}]
<1>1. holdings \in [Slots -> New] /\ today = 0 /\ window = All
  BY DEF PayoffInit
<1>2. ASSUME NEW h \in New PROVE h \in Holding /\ ~h.settled
  BY DEF Holding
<1> HIDE DEF New
<1>3. \A k \in Slots : holdings[k] \in Holding /\ ~holdings[k].settled
  BY <1>1, <1>2
<1>4. holdings \in [Slots -> Holding]
  BY <1>1, <1>3
<1> QED
  BY <1>1, <1>3, <1>4 DEF PayoffIInv, PayoffTypeOK

LEMMA PayoffSteps == PayoffIInv /\ PayoffNext => PayoffIInv'
<1> SUFFICES ASSUME PayoffTypeOK, PayoffNext PROVE PayoffTypeOK'
  BY DEF PayoffIInv
<1>1. /\ holdings \in [Slots -> Holding] /\ today \in Nat /\ window \in Windows \cup {All}
      /\ \A k \in Slots : holdings[k].settled => holdings[k].maturity <= today
  BY DEF PayoffTypeOK
<1>2. CASE NextDay
  <2>1. today' = today + 1 /\ holdings' = holdings /\ window' = window
    BY <1>2 DEF NextDay
  <2>2. \A k \in Slots : holdings[k].settled => holdings[k].maturity <= today + 1
    BY HoldingHas
  <2> QED
    BY <1>1, <2>1, <2>2 DEF PayoffTypeOK
<1>3. CASE SetRange
  BY <1>1, <1>3 DEF SetRange, PayoffTypeOK
<1>4. ASSUME NEW k \in Slots, Settle(k) PROVE PayoffTypeOK'
  <2>1. PICK c \in Units : holdings' = [holdings EXCEPT ![k].settled = TRUE, ![k].claimable = c]
    BY <1>4 DEF Settle
  <2>2. holdings[k].maturity <= today /\ today' = today /\ window' = window
    BY <1>4 DEF Settle
  <2> DEFINE h == [holdings[k] EXCEPT !.settled = TRUE, !.claimable = c]
  <2>3. holdings[k] \in Holding
    BY <1>1
  <2>4. h \in Holding /\ h.maturity = holdings[k].maturity
    BY <2>3 DEF Holding
  <2>5. holdings' = [holdings EXCEPT ![k] = h]
    BY <1>1, <2>1
  <2> HIDE DEF h
  <2>6. /\ holdings' \in [Slots -> Holding] /\ holdings'[k] = h
        /\ \A j \in Slots \ {k} : holdings'[j] = holdings[j]
    BY <1>1, <2>4, <2>5
  <2>7. \A j \in Slots : holdings'[j].settled => holdings'[j].maturity <= today
    <3> TAKE j \in Slots
    <3>1. CASE j = k
      BY <2>2, <2>4, <2>6, <3>1
    <3>2. CASE j # k
      BY <1>1, <2>6, <3>2
    <3> QED
      BY <3>1, <3>2
  <2> QED
    BY <1>1, <2>2, <2>6, <2>7 DEF PayoffTypeOK
<1>5. ASSUME NEW k \in Slots, ClaimAll(k) PROVE PayoffTypeOK'
  <2>1. holdings' = [holdings EXCEPT ![k].claimable = 0] /\ today' = today /\ window' = window
    BY <1>5 DEF ClaimAll
  <2> DEFINE h == [holdings[k] EXCEPT !.claimable = 0]
  <2>3. holdings[k] \in Holding
    BY <1>1
  <2>4. h \in Holding /\ h.maturity = holdings[k].maturity /\ h.settled = holdings[k].settled
    BY <2>3 DEF Holding
  <2>5. holdings' = [holdings EXCEPT ![k] = h]
    BY <1>1, <2>1
  <2> HIDE DEF h
  <2>6. /\ holdings' \in [Slots -> Holding] /\ holdings'[k] = h
        /\ \A j \in Slots \ {k} : holdings'[j] = holdings[j]
    BY <1>1, <2>4, <2>5
  <2>7. \A j \in Slots : holdings'[j].settled => holdings'[j].maturity <= today
    <3> TAKE j \in Slots
    <3>1. CASE j = k
      BY <1>1, <2>4, <2>6, <3>1
    <3>2. CASE j # k
      BY <1>1, <2>6, <3>2
    <3> QED
      BY <3>1, <3>2
  <2> QED
    BY <1>1, <2>1, <2>6, <2>7 DEF PayoffTypeOK
<1> QED
  BY <1>2, <1>3, <1>4, <1>5 DEF PayoffNext

LEMMA PayoffRests == PayoffIInv /\ UNCHANGED payoffVars => PayoffIInv'
BY DEF PayoffIInv, PayoffTypeOK, payoffVars

-----------------------------------------------------------------------------
(* What one bond pays, and what they pay together. *)
PaysAt(d) == [k \in Slots |-> Payout(holdings[k], d, today)]
Due == [k \in Slots |-> Bps * Scale * (IF holdings[k].settled THEN holdings[k].claimable ELSE holdings[k].units)]

LEMMA PayoutGrows ==
  ASSUME PayoffTypeOK, NEW k \in Slots
  PROVE  /\ \A d \in Int : PaysAt(d)[k] \in Nat /\ PaysAt(d)[k] <= Due[k]
         /\ Due[k] \in Nat
         /\ \A d, e \in Int : d <= e => PaysAt(d)[k] <= PaysAt(e)[k]
         /\ \A d, e \in Int : Climbing(holdings[k]) /\ today <= d /\ d < e /\ d < holdings[k].maturity =>
              PaysAt(d)[k] < PaysAt(e)[k]
         /\ \A d \in Int : d >= holdings[k].maturity => PaysAt(d)[k] = Due[k]
         /\ \A d, e \in Int : ~Climbing(holdings[k]) => PaysAt(d)[k] = PaysAt(e)[k]
<1> DEFINE h == holdings[k]
           P == Bps * Scale
           v(d) == unitValue(h, d, today)
           u == h.units
           c == h.claimable
           m == h.maturity
<1>1. /\ h \in Holding /\ today \in Nat /\ m \in Nat /\ u \in Nat \ {0} /\ c \in Nat
      /\ (h.settled => m <= today)
  BY HoldingHas
<1>2. P \in Nat
  <2>1. Bps \in Nat /\ Scale \in Nat
    BY PayoffAssumption DEF Bps
  <2> QED
    BY <2>1
<1>3. /\ \A d : PaysAt(d)[k] = IF h.settled THEN c * Bps * Scale ELSE u * v(d)
      /\ Due[k] = P * (IF h.settled THEN c ELSE u)
  BY DEF PaysAt, Payout, Due
<1>4. c * Bps * Scale = P * c /\ P * c \in Nat
  <2>1. Bps \in Nat /\ Scale \in Nat
    BY PayoffAssumption DEF Bps
  <2> HIDE DEF c
  <2> QED
    BY <1>1, <2>1
<1>5. /\ \A d \in Int : v(d) \in Nat /\ v(d) <= P
      /\ \A d, e \in Int : d <= e => v(d) <= v(e)
      /\ \A d, e \in Int : today <= d /\ d < e /\ d < m => v(d) < v(e)
      /\ \A d \in Int : d >= m => v(d) = P
  BY <1>1, UnitGrows
<1>6. \A d \in Int : m <= today => v(d) = P
  BY <1>1, UnitIsPar
<1>7. Climbing(h) <=> ~h.settled /\ today < m
  BY DEF Climbing
<1> HIDE DEF h, P, v, u, c, m
<1>8. CASE h.settled
  <2>1. (\A d : PaysAt(d)[k] = P * c) /\ Due[k] = P * c
    BY <1>3, <1>4, <1>8
  <2>2. P * c <= P * c
    BY <1>4
  <2>3. ~Climbing(h)
    BY <1>7, <1>8
  <2> HIDE DEF PaysAt, Due
  <2> QED
    BY <1>4, <2>1, <2>2, <2>3 DEF h
<1>9. CASE ~h.settled
  <2>1. (\A d : PaysAt(d)[k] = u * v(d)) /\ Due[k] = P * u
    BY <1>3, <1>9
  <2>2. u * P = P * u /\ P * u \in Nat
    BY <1>1, <1>2
  <2>3. \A x, y \in Nat : u * x \in Nat /\ (x <= y => u * x <= u * y) /\ (x < y => u * x < u * y)
    <3> TAKE x, y \in Nat
    <3>1. u * x = x * u /\ u * y = y * u
      BY <1>1
    <3>2. x * u \in Nat /\ (x <= y => x * u <= y * u) /\ (x < y => x * u < y * u)
      BY <1>1, ProductsGrow
    <3> QED
      BY <3>1, <3>2
  <2>4. \A d \in Int : u * v(d) \in Nat /\ u * v(d) <= P * u
    BY <1>2, <1>5, <2>2, <2>3
  <2>5. \A d, e \in Int : d <= e => u * v(d) <= u * v(e)
    BY <1>5, <2>3
  <2>6. \A d, e \in Int : today <= d /\ d < e /\ d < m => u * v(d) < u * v(e)
    BY <1>5, <2>3
  <2>7. \A d \in Int : d >= m => u * v(d) = P * u
    BY <1>5, <2>2
  <2>8. \A d, e \in Int : ~Climbing(h) => u * v(d) = u * v(e)
    BY <1>1, <1>6, <1>7, <1>9
  <2> HIDE DEF PaysAt, Due
  <2>9. /\ \A d \in Int : PaysAt(d)[k] \in Nat /\ PaysAt(d)[k] <= Due[k]
        /\ Due[k] \in Nat
    BY <2>1, <2>2, <2>4
  <2>10. \A d, e \in Int : d <= e => PaysAt(d)[k] <= PaysAt(e)[k]
    BY <2>1, <2>5
  <2>11. \A d, e \in Int : today <= d /\ d < e /\ d < m => PaysAt(d)[k] < PaysAt(e)[k]
    BY <2>1, <2>6
  <2>12. \A d \in Int : d >= m => PaysAt(d)[k] = Due[k]
    BY <2>1, <2>7
  <2>13. \A d, e \in Int : ~Climbing(h) => PaysAt(d)[k] = PaysAt(e)[k]
    BY <2>1, <2>8
  <2> QED
    BY <2>9, <2>10, <2>11, <2>12, <2>13 DEF h, m
<1> QED
  BY <1>8, <1>9

LEMMA ValueIs ==
  ASSUME PayoffTypeOK
  PROVE  /\ Owed \in Nat
         /\ \A d \in Int : Value(d) \in Nat /\ Value(d) <= Owed
         /\ \A d, e \in Int : d <= e => Value(d) <= Value(e)
         /\ \A d, e \in Int : (\E k \in Slots : Climbing(holdings[k]) /\ d < holdings[k].maturity)
                              /\ today <= d /\ d < e => Value(d) < Value(e)
         /\ \A d \in Int : (\A k \in Slots : holdings[k].maturity <= d) => Value(d) = Owed
         /\ \A d, e \in Int : (\A k \in Slots : ~Climbing(holdings[k])) => Value(d) = Value(e)
<1>1. \A d : Value(d) = Added(PaysAt(d))
  BY DEF Value, PaysAt
<1>2. Owed = Added(Due)
  BY DEF Owed, Due
<1>3. Due \in [Slots -> Nat] /\ \A d \in Int : PaysAt(d) \in [Slots -> Nat]
  <2>1. Due = [k \in Slots |-> Due[k]] /\ \A d : PaysAt(d) = [k \in Slots |-> PaysAt(d)[k]]
    BY DEF Due, PaysAt
  <2> QED
    BY <2>1, PayoutGrows
<1>4. IsFiniteSet(Slots)
  BY PayoffAssumption
<1>5. Owed = Total(Due) /\ \A d \in Int : Value(d) = Total(PaysAt(d))
  BY <1>1, <1>2, <1>3, <1>4, AddedIsTotal
<1>6. Owed \in Nat /\ \A d \in Int : Value(d) \in Nat
  BY <1>3, <1>4, <1>5, TotalType
<1>7. ASSUME NEW d \in Int PROVE Value(d) <= Owed
  <2>1. \A k \in Slots : PaysAt(d)[k] <= Due[k]
    BY PayoutGrows
  <2> QED
    BY <1>3, <1>4, <1>5, <2>1, TotalGrows
<1>8. ASSUME NEW d \in Int, NEW e \in Int, d <= e PROVE Value(d) <= Value(e)
  <2>1. \A k \in Slots : PaysAt(d)[k] <= PaysAt(e)[k]
    BY <1>8, PayoutGrows
  <2> QED
    BY <1>3, <1>4, <1>5, <2>1, TotalGrows
<1>9. ASSUME NEW d \in Int, NEW e \in Int, NEW k \in Slots, Climbing(holdings[k]), d < holdings[k].maturity,
             today <= d, d < e
      PROVE  Value(d) < Value(e)
  <2>1. \A j \in Slots : PaysAt(d)[j] <= PaysAt(e)[j]
    BY <1>9, PayoutGrows
  <2>2. PaysAt(d)[k] < PaysAt(e)[k]
    BY <1>9, PayoutGrows
  <2> QED
    BY <1>3, <1>4, <1>5, <2>1, <2>2, TotalGrows
<1>10. ASSUME NEW d \in Int, \A k \in Slots : holdings[k].maturity <= d PROVE Value(d) = Owed
  <2>1. \A k \in Slots : PaysAt(d)[k] = Due[k]
    BY <1>10, HoldingHas, PayoutGrows
  <2>2. PaysAt(d) = Due
    BY <1>3, <2>1
  <2> QED
    BY <1>5, <2>2
<1>11. ASSUME NEW d \in Int, NEW e \in Int, \A k \in Slots : ~Climbing(holdings[k]) PROVE Value(d) = Value(e)
  <2>1. \A k \in Slots : PaysAt(d)[k] = PaysAt(e)[k]
    BY <1>11, PayoutGrows
  <2>2. PaysAt(d) = PaysAt(e)
    BY <1>3, <2>1
  <2> QED
    BY <1>5, <2>2
<1> QED
  BY <1>6, <1>7, <1>8, <1>9, <1>10, <1>11

-----------------------------------------------------------------------------
(* The day at which all has matured, and where the line ends. *)
LEMMA LastIs ==
  ASSUME PayoffTypeOK
  PROVE  /\ LastMaturity \in Nat
         /\ \A k \in Slots : holdings[k].maturity <= LastMaturity
         /\ \E k \in Slots : holdings[k].maturity = LastMaturity
<1> DEFINE M == {holdings[k].maturity : k \in Slots}
           n == Cardinality(M)
           s == Ascending(M)
<1>1. M \in SUBSET Int /\ M \subseteq Nat
  BY HoldingHas
<1>2. IsFiniteSet(M)
  <2> DEFINE f == [k \in Slots |-> holdings[k].maturity]
  <2>1. f \in Surjection(Slots, M)
    BY DEF Surjection
  <2> HIDE DEF f, M
  <2> QED
    BY <2>1, FS_Surjection, PayoffAssumption
<1>3. M # {}
  BY PayoffAssumption
<1>4. LastMaturity = CHOOSE d \in M : \A k \in Slots : holdings[k].maturity <= d
  BY DEF LastMaturity
<1>5. \A d : (\A m \in M : m <= d) => (\A k \in Slots : holdings[k].maturity <= d)
  OBVIOUS
<1>6. \A d \in M : \E k \in Slots : holdings[k].maturity = d
  OBVIOUS
<1> HIDE DEF M
<1>7. /\ n \in Nat /\ s \in [1 .. n -> M]
      /\ \A i, j \in 1 .. n : i < j => s[i] < s[j]
      /\ \A x \in M : \E i \in 1 .. n : s[i] = x
  BY <1>1, <1>2, AscendingLists
<1> HIDE DEF n, s
<1>8. n \in 1 .. n
  BY <1>3, <1>7
<1>9. s[n] \in M /\ \A m \in M : m <= s[n]
  <2>1. s[n] \in M
    BY <1>7, <1>8
  <2>2. ASSUME NEW m \in M PROVE m <= s[n]
    <3>1. PICK i \in 1 .. n : s[i] = m
      BY <1>7
    <3>2. CASE i = n
      BY <1>1, <3>1, <3>2
    <3>3. CASE i # n
      <4>1. i < n
        BY <1>7, <3>3
      <4>2. s[i] < s[n]
        BY <1>7, <1>8, <4>1
      <4>3. s[i] \in Int /\ s[n] \in Int
        BY <1>1, <2>1, <3>1
      <4> QED
        BY <3>1, <4>2, <4>3
    <3> QED
      BY <3>2, <3>3
  <2> QED
    BY <2>1, <2>2
<1>10. \E d \in M : \A k \in Slots : holdings[k].maturity <= d
  BY <1>5, <1>9
<1>11. LastMaturity \in M /\ \A k \in Slots : holdings[k].maturity <= LastMaturity
  <2> DEFINE Bounds(d) == \A k \in Slots : holdings[k].maturity <= d
  <2>1. LastMaturity = CHOOSE d \in M : Bounds(d)
    BY <1>4
  <2>2. \E d \in M : Bounds(d)
    BY <1>10
  <2> HIDE DEF Bounds
  <2>3. LastMaturity \in M /\ Bounds(LastMaturity)
    BY <2>1, <2>2, Zenon
  <2> QED
    BY <2>3 DEF Bounds
<1> QED
  BY <1>1, <1>6, <1>11

LEMMA EndIs ==
  ASSUME PayoffTypeOK, NEW w \in Windows \cup {All}
  PROVE  /\ End(w) \in Nat /\ End(w) <= LastMaturity /\ End(All) = LastMaturity
         /\ End(w) <= today <=> LastMaturity <= today
<1>1. LastMaturity \in Nat /\ today \in Nat
  BY LastIs DEF PayoffTypeOK
<1>2. w = All \/ (w \in Nat /\ w > 0)
  BY PayoffAssumption
<1>3. End(All) = LastMaturity
  BY DEF End
<1>4. CASE w = All \/ LastMaturity < today + w
  BY <1>1, <1>3, <1>4 DEF End
<1>5. CASE ~(w = All \/ LastMaturity < today + w)
  <2>1. End(w) = today + w
    BY <1>5 DEF End
  <2> QED
    BY <1>1, <1>2, <1>3, <1>5, <2>1
<1> QED
  BY <1>4, <1>5

LEMMA LineIs ==
  ASSUME PayoffTypeOK, NEW w \in Windows \cup {All}
  PROVE  /\ today \in Nat /\ today \in DOMAIN holdingsCurve(w)
         /\ DOMAIN holdingsCurve(w) \subseteq Int
         /\ LastMaturity > today => /\ DOMAIN holdingsCurve(w) = today .. End(w)
                                    /\ \A d \in DOMAIN holdingsCurve(w) : holdingsCurve(w)[d] = Value(d)
         /\ LastMaturity <= today => /\ DOMAIN holdingsCurve(w) = {today - 30, today}
                                     /\ \A d \in DOMAIN holdingsCurve(w) : holdingsCurve(w)[d] = Value(today)
<1>1. LastMaturity \in Nat /\ today \in Nat /\ End(w) \in Nat
  BY LastIs, EndIs DEF PayoffTypeOK
<1>2. CASE LastMaturity > today
  <2>1. ~(End(w) <= today)
    BY <1>1, <1>2, EndIs
  <2>2. holdingsCurve(w) = [d \in today .. End(w) |-> Value(d)]
    BY <2>1, Zenon DEF holdingsCurve
  <2>3. /\ DOMAIN holdingsCurve(w) = today .. End(w)
        /\ \A d \in DOMAIN holdingsCurve(w) : holdingsCurve(w)[d] = Value(d)
    BY <2>2
  <2>4. today \in today .. End(w) /\ today .. End(w) \subseteq Int
    BY <1>1, <2>1
  <2> QED
    BY <1>1, <1>2, <2>3, <2>4
<1>3. CASE ~(LastMaturity > today)
  <2>1. End(w) <= today
    BY <1>1, <1>3, EndIs
  <2>2. holdingsCurve(w) = [d \in {today - 30, today} |-> Value(today)]
    BY <2>1, Zenon DEF holdingsCurve
  <2>3. /\ DOMAIN holdingsCurve(w) = {today - 30, today}
        /\ \A d \in DOMAIN holdingsCurve(w) : holdingsCurve(w)[d] = Value(today)
    BY <2>2
  <2> QED
    BY <1>1, <1>3, <2>3
<1> QED
  BY <1>2, <1>3

LEMMA LineIsHonest ==
  ASSUME PayoffTypeOK
  PROVE  LineEndsAtWhatIsOwed
<1> DEFINE w == window
           line == holdingsCurve(w)
           whole == holdingsCurve(All)
           L == LastMaturity
<1>1. w \in Windows \cup {All} /\ All \in Windows \cup {All}
  BY DEF PayoffTypeOK
<1>2. /\ Owed \in Nat
      /\ \A d \in Int : Value(d) \in Nat /\ Value(d) <= Owed
      /\ \A d, e \in Int : d <= e => Value(d) <= Value(e)
  BY ValueIs
<1>3. \A d \in Int : d >= L => Value(d) = Owed
  <2> TAKE d \in Int
  <2> HAVE d >= L
  <2>1. \A k \in Slots : holdings[k].maturity <= d
    BY LastIs, HoldingHas
  <2> QED
    BY <2>1, ValueIs
<1>4. /\ today \in Nat /\ today \in DOMAIN line /\ DOMAIN line \subseteq Int
      /\ L > today => /\ DOMAIN line = today .. End(w)
                      /\ \A d \in DOMAIN line : line[d] = Value(d)
      /\ L <= today => /\ DOMAIN line = {today - 30, today}
                       /\ \A d \in DOMAIN line : line[d] = Value(today)
  BY <1>1, LineIs
<1>5. /\ DOMAIN whole \subseteq Int
      /\ L > today => /\ DOMAIN whole = today .. L
                      /\ \A d \in DOMAIN whole : whole[d] = Value(d)
      /\ L <= today => /\ DOMAIN whole = {today - 30, today}
                       /\ \A d \in DOMAIN whole : whole[d] = Value(today)
  <2>1. End(All) = L
    BY <1>1, EndIs
  <2> QED
    BY <1>1, <2>1, LineIs
<1>6. L \in Nat /\ End(w) \in Nat /\ End(w) <= L
  BY <1>1, LastIs, EndIs
<1> HIDE DEF w, line, whole, L
<1>7. CASE L > today
  <2>1. /\ DOMAIN line = today .. End(w) /\ \A d \in DOMAIN line : line[d] = Value(d)
        /\ DOMAIN whole = today .. L /\ \A d \in DOMAIN whole : whole[d] = Value(d)
    BY <1>4, <1>5, <1>7
  <2>2. \A d, e \in DOMAIN line : d <= e => line[d] <= line[e]
    BY <1>2, <1>4, <2>1
  <2>3. \A d \in DOMAIN line : line[d] <= Owed
    BY <1>2, <1>4, <2>1
  <2>4. ASSUME NEW d \in DOMAIN whole, \A e \in DOMAIN whole : e <= d PROVE whole[d] = Owed
    <3>1. L \in DOMAIN whole
      BY <1>4, <1>6, <1>7, <2>1
    <3>2. d \in Int /\ d >= L
      BY <1>5, <1>6, <2>4, <3>1
    <3> QED
      BY <1>3, <2>1, <3>2
  <2>5. DOMAIN line \subseteq DOMAIN whole
    BY <1>4, <1>6, <2>1
  <2>6. \A d \in DOMAIN line : line[d] = whole[d]
    BY <2>1, <2>5
  <2> QED
    BY <2>2, <2>3, <2>4, <2>5, <2>6 DEF LineEndsAtWhatIsOwed, line, whole, w
<1>8. CASE ~(L > today)
  <2>1. /\ DOMAIN line = {today - 30, today} /\ \A d \in DOMAIN line : line[d] = Value(today)
        /\ DOMAIN whole = {today - 30, today} /\ \A d \in DOMAIN whole : whole[d] = Value(today)
    BY <1>4, <1>5, <1>6, <1>8
  <2>2. Value(today) = Owed
    BY <1>3, <1>4, <1>6, <1>8
  <2>3. Owed <= Owed
    BY <1>2
  <2> QED
    BY <2>1, <2>2, <2>3 DEF LineEndsAtWhatIsOwed, line, whole, w
<1> QED
  BY <1>7, <1>8

LEMMA TrendIs ==
  ASSUME PayoffTypeOK
  PROVE  TrendIsHonest
<1> DEFINE w == window
           line == holdingsCurve(w)
           L == LastMaturity
           Climbs == \E k \in Slots : Climbing(holdings[k])
<1>1. w \in Windows \cup {All} /\ today \in Nat
  BY DEF PayoffTypeOK
<1>2. /\ today \in DOMAIN line /\ DOMAIN line \subseteq Int
      /\ L > today => /\ DOMAIN line = today .. End(w)
                      /\ \A d \in DOMAIN line : line[d] = Value(d)
      /\ L <= today => \A d \in DOMAIN line : line[d] = Value(today)
  BY <1>1, LineIs
<1>3. Trend = "up" <=> Climbs
  BY DEF Trend
<1>4. L \in Nat /\ End(w) \in Nat /\ (End(w) <= today <=> L <= today)
  BY <1>1, LastIs, EndIs
<1>5. \A d \in Int : Value(d) \in Nat
  BY ValueIs
<1>6. ASSUME Climbs PROVE \E d, e \in DOMAIN line : line[d] < line[e]
  <2>1. PICK k \in Slots : Climbing(holdings[k])
    BY <1>6
  <2>2. today < holdings[k].maturity
    BY <2>1 DEF Climbing
  <2>3. holdings[k].maturity <= L /\ holdings[k].maturity \in Nat
    BY LastIs, HoldingHas
  <2> HIDE DEF L, w, line
  <2>4. L > today /\ End(w) > today
    BY <1>1, <1>4, <2>2, <2>3
  <2>5. Value(today) < Value(End(w))
    <3>1. today \in Int /\ End(w) \in Int /\ today < End(w) /\ today <= today
      BY <1>1, <1>4, <2>4
    <3> QED
      BY <2>1, <2>2, <3>1, ValueIs
  <2>6. End(w) \in DOMAIN line
    BY <1>1, <1>2, <1>4, <2>4
  <2>7. line[today] = Value(today) /\ line[End(w)] = Value(End(w))
    BY <1>2, <2>4, <2>6
  <2> QED
    BY <1>2, <2>5, <2>6, <2>7
<1>7. ASSUME ~Climbs, NEW d \in DOMAIN line, NEW e \in DOMAIN line PROVE ~(line[d] < line[e])
  <2>1. d \in Int /\ e \in Int /\ today \in Int
    BY <1>1, <1>2
  <2>2. Value(d) = Value(e)
    <3>1. \A k \in Slots : ~Climbing(holdings[k])
      BY <1>7
    <3> QED
      BY <2>1, <3>1, ValueIs
  <2> HIDE DEF L, w, line
  <2>3. line[d] = line[e] /\ line[d] \in Int
    <3>1. CASE L > today
      <4>1. line[d] = Value(d) /\ line[e] = Value(e)
        BY <1>2, <3>1
      <4> QED
        BY <1>5, <2>1, <2>2, <4>1
    <3>2. CASE ~(L > today)
      <4>1. line[d] = Value(today) /\ line[e] = Value(today)
        BY <1>1, <1>2, <1>4, <3>2
      <4> QED
        BY <1>5, <2>1, <4>1
    <3> QED
      BY <3>1, <3>2
  <2> QED
    BY <2>3
<1> HIDE DEF Climbs
<1> QED
  BY <1>3, <1>6, <1>7 DEF TrendIsHonest

-----------------------------------------------------------------------------
(* The three drawings of one bond. *)
OfIssue(u, b, S, r, n, i) == u * (b - r) * S + ((u * b * S - u * (b - r) * S) \div n) * i
OfUnit(b, S, r, n, i) == (b - r) * S + ((b * S - (b - r) * S) * i) \div n
ByDay(b, S, r, n, i) == (b - r) * S + (r * i) * (S \div n)
ForUnits(u, x) == u * x
InDays(S, n) == (S \div n) * n = S

LEMMA Scaled ==
  ASSUME NEW u \in Nat, NEW b \in Nat, NEW S \in Nat, NEW r \in Nat, r <= b, NEW n \in Nat \ {0},
         InDays(S, n), NEW i \in Nat
  PROVE  /\ OfIssue(u, b, S, r, n, i) = ForUnits(u, ByDay(b, S, r, n, i))
         /\ OfUnit(b, S, r, n, i) = ByDay(b, S, r, n, i)
<1> DEFINE c == b - r
           q == S \div n
<1>0. q \in Nat /\ q * n = S
  BY DEF InDays
<1> HIDE DEF q
<1>1. c \in Nat /\ b = c + r
  OBVIOUS
<1> HIDE DEF c
<1>2. u * b * S - u * c * S = (u * r * q) * n
  <2>1. u * b * S = u * c * S + u * r * S
    BY <1>1
  <2>2. u * r * S = (u * r * q) * n
    <3> DEFINE x == u * r
    <3>1. x \in Nat
      OBVIOUS
    <3> HIDE DEF x
    <3>2. x * (q * n) = (x * q) * n
      BY <1>0, <3>1
    <3>3. x * S = (x * q) * n
      BY <1>0, <3>2
    <3> QED
      BY <3>3 DEF x
  <2>3. u * c * S \in Nat /\ u * r * S \in Nat
    BY <1>1
  <2> QED
    BY <2>1, <2>2, <2>3
<1>3. b * S - c * S = r * S
  BY <1>1
<1>4. (r * S) * i = (r * i * q) * n
  <2> DEFINE x == r * i
  <2>1. x \in Nat
    OBVIOUS
  <2>2. (r * S) * i = x * S
    OBVIOUS
  <2> HIDE DEF x
  <2>3. x * (q * n) = (x * q) * n
    BY <1>0, <2>1
  <2>4. x * S = (x * q) * n
    BY <1>0, <2>3
  <2> QED
    BY <2>2, <2>4 DEF x
<1>5. \A a \in Nat : (a * n) \div n = a
  BY DividesExactly
<1>6. (u * b * S - u * c * S) \div n = u * r * q
  <2>1. u * r * q \in Nat
    BY <1>0
  <2> QED
    BY <1>2, <1>5, <2>1
<1>7. ((b * S - c * S) * i) \div n = r * i * q
  <2>1. r * i * q \in Nat
    BY <1>0
  <2> QED
    BY <1>3, <1>4, <1>5, <2>1
<1>8. u * c * S + (u * r * q) * i = u * (c * S + (r * i) * q)
  <2>1. u * c * S = u * (c * S)
    BY <1>1
  <2>2. (u * r * q) * i = u * ((r * i) * q)
    BY <1>0
  <2>3. \A x, y \in Nat : u * (x + y) = u * x + u * y
    OBVIOUS
  <2>4. c * S \in Nat /\ (r * i) * q \in Nat
    BY <1>0, <1>1
  <2> QED
    BY <2>1, <2>2, <2>3, <2>4
<1> QED
  BY <1>6, <1>7, <1>8 DEF c, q, OfIssue, OfUnit, ByDay, ForUnits

LEMMA DrawnAlike ==
  ASSUME PayoffTypeOK, NEW k \in Slots, ~holdings[k].settled
  PROVE  LET h == holdings[k]
             steps == IF h.maturity > today THEN h.maturity - today ELSE 1
         IN  /\ \A d \in DOMAIN Accretion(h) : d >= today => Accretion(h)[d] = Payout(h, d, today)
             /\ \A i \in 0 .. steps : h.units * pricePath(h, steps)[i] = Payout(h, today + i, today)
             /\ \A d \in DOMAIN Accretion(h) : d < today => Accretion(h)[d] = Payout(h, today, today)
<1> DEFINE h == holdings[k]
           m == h.maturity
           u == h.units
           r == h.rate
           S == Scale
           P == Bps * S
           steps == IF m > today THEN m - today ELSE 1
<1>1. h \in Holding /\ today \in Nat /\ m \in Nat /\ u \in Nat
  BY HoldingHas
<1>2. Bps \in Nat /\ S \in Nat
  BY PayoffAssumption DEF Bps
<1>3. P \in Nat
  BY <1>2
<1>4. \A d : Payout(h, d, today) = u * unitValue(h, d, today)
  BY DEF Payout
<1>5. u * Bps * S = u * P
  <2> HIDE DEF u, S
  <2> QED
    BY <1>1, <1>2
<1>6. CASE m <= today
  <2>1. \A d : Payout(h, d, today) = u * P
    <3>1. \A d : unitValue(h, d, today) = P
      BY <1>1, <1>6, UnitIsPar
    <3> QED
      BY <1>4, <3>1
  <2>2. \A d \in DOMAIN Accretion(h) : Accretion(h)[d] = u * P
    <3>1. Accretion(h) = [d \in {m - 30, m} |-> u * Bps * S]
      BY <1>6, Zenon DEF Accretion
    <3> HIDE DEF h, m, u, S, P
    <3> QED
      BY <1>5, <3>1
  <2>3. steps = 1
    BY <1>1, <1>6
  <2>4. \A i \in 0 .. steps : pricePath(h, steps)[i] = P
    <3>1. \A i \in 0 .. steps : pricePath(h, steps)[i] = P + ((P - P) * i) \div steps
      <4>1. today >= h.maturity
        BY <1>1, <1>6
      <4> QED
        BY <4>1 DEF pricePath
    <3> HIDE DEF P, steps
    <3>2. \A i \in 0 .. 1 : P + ((P - P) * i) \div 1 = P
      BY <1>3
    <3> QED
      BY <2>3, <3>1, <3>2
  <2> HIDE DEF P, u, m, steps
  <2>5. \A d \in DOMAIN Accretion(h) : Accretion(h)[d] = Payout(h, d, today) /\ Accretion(h)[d] = Payout(h, today, today)
    BY <2>1, <2>2
  <2>6. \A i \in 0 .. steps : u * pricePath(h, steps)[i] = Payout(h, today + i, today)
    BY <2>1, <2>4
  <2> QED
    BY <2>5, <2>6 DEF u, steps, m
<1>7. CASE m > today
  <2> DEFINE n == m - today
             q == S \div n
             cost == (Bps - r) * S
  <2>1. /\ n \in Nat \ {0} /\ q \in Nat \ {0} /\ q * n = S /\ cost \in Nat
        /\ r \in Nat \ {0} /\ r <= Bps
        /\ \A i \in 0 .. n : unitValue(h, today + i, today) = cost + (r * i) * q
    BY <1>1, <1>7, UnitClimbs
  <2>2. \A i \in 0 .. n : Payout(h, today + i, today) = u * (cost + (r * i) * q)
    BY <1>4, <2>1
  <2>3. steps = n /\ m = today + n
    BY <1>1, <1>7
  <2>4. \A i \in 0 .. n :
          /\ OfIssue(u, Bps, S, r, n, i) = u * (cost + (r * i) * q)
          /\ OfUnit(Bps, S, r, n, i) = cost + (r * i) * q
    <3> TAKE i \in 0 .. n
    <3>1. i \in Nat /\ q \in Nat /\ r \in Nat
      BY <2>1
    <3>2. InDays(S, n)
      BY <2>1 DEF InDays
    <3>3. /\ OfIssue(u, Bps, S, r, n, i) = ForUnits(u, ByDay(Bps, S, r, n, i))
          /\ OfUnit(Bps, S, r, n, i) = ByDay(Bps, S, r, n, i)
      <4>1. u \in Nat /\ Bps \in Nat /\ S \in Nat
        BY <1>1, <1>2
      <4>2. r \in Nat /\ r <= Bps /\ n \in Nat \ {0} /\ i \in Nat
        BY <2>1, <3>1
      <4> HIDE DEF n, r, u, S, cost, P, steps, m, h, q
      <4> QED
        BY <3>2, <4>1, <4>2, Scaled
    <3>4. ByDay(Bps, S, r, n, i) = cost + (r * i) * q
      BY Zenon DEF ByDay
    <3>5. ForUnits(u, ByDay(Bps, S, r, n, i)) = u * (cost + (r * i) * q)
      BY <3>4, Zenon DEF ForUnits
    <3> HIDE DEF n, r, u, S, cost, P, steps, m, h, q
    <3> QED
      BY <3>3, <3>4, <3>5, Zenon
  <2>5. \A d \in today .. m :
          Accretion(h)[d] = OfIssue(u, Bps, S, r, n, d - today)
    <3>1. ~(h.maturity <= today)
      BY <1>1, <1>7
    <3>2. Accretion(h) = [d \in today .. m |->
             OfIssue(u, Bps, S, r, n, d - today)]
      BY <3>1, Zenon DEF Accretion, OfIssue
    <3> HIDE DEF u, r, S, n, m, h
    <3> QED
      BY <3>2
  <2>6. DOMAIN Accretion(h) = today .. m
    <3>1. ~(h.maturity <= today)
      BY <1>1, <1>7
    <3> QED
      BY <3>1 DEF Accretion
  <2>7. \A i \in 0 .. n : pricePath(h, steps)[i] = OfUnit(Bps, S, r, n, i)
    <3>1. ~(today >= h.maturity)
      BY <1>1, <1>7
    <3>2. pricePath(h, n) = [i \in 0 .. n |-> OfUnit(Bps, S, r, n, i)]
      BY <3>1, Zenon DEF pricePath, OfUnit
    <3> HIDE DEF cost, n, steps
    <3> QED
      BY <2>3, <3>2
  <2> HIDE DEF n, q, cost, r, u, S, m, h, steps
  <2>8. ASSUME NEW d \in today .. m PROVE Accretion(h)[d] = Payout(h, d, today)
    <3>1. d - today \in 0 .. n /\ today + (d - today) = d
      BY <1>1, <2>1, <2>3
    <3> QED
      BY <2>2, <2>4, <2>5, <3>1
  <2>9. \A d \in today .. m : ~(d < today)
    BY <1>1
  <2>10. \A i \in 0 .. n : u * pricePath(h, steps)[i] = Payout(h, today + i, today)
    BY <2>2, <2>4, <2>7
  <2> QED
    BY <2>3, <2>6, <2>8, <2>9, <2>10 DEF h, u, steps, m
<1> QED
  BY <1>1, <1>6, <1>7

LEMMA PayoffHolds == PayoffIInv => PayoffIsHonest
<1> SUFFICES ASSUME PayoffTypeOK PROVE PayoffIsHonest
  BY DEF PayoffIInv
<1>1. LinesAgree
  BY DrawnAlike, Zenon DEF LinesAgree
<1> QED
  BY <1>1, LineIsHonest, TrendIs DEF PayoffIsHonest

-----------------------------------------------------------------------------
(* What is declared. *)
(* FormsAreDecided holds of every form the page lets through
   (kyc.ts:156-216, policy.go:47-86). *)
THEOREM WhatIsFilledInIsDecided == FormsAreDecided
<1> SUFFICES ASSUME NEW f \in Filled, missingAnswers(f) = {}
             PROVE  LET a == AnswersOf(f)
                    IN  /\ a \in Answers /\ ~Incomplete(a)
                        /\ Evaluate("green", a) =
                             IF "true" \in {f.us_person, f.sanctioned} THEN "blocked"
                             ELSE IF f.pep = "true" \/ f.beneficial_owner = "false" THEN "held"
                             ELSE "eligible"
    BY DEF FormsAreDecided
<1> DEFINE a == AnswersOf(f)
<1>0. DOMAIN f = {"residence", "us_person", "sanctioned", "investor_class", "experience",
                  "source_of_funds", "source_other", "pep", "beneficial_owner"}
    BY DEF Filled
<1>1. \A q \in questionnaire : f[q] # Blank
    BY DEF missingAnswers
<1>2. questionnaire = {"residence", "us_person", "sanctioned", "investor_class", "experience",
                       "source_of_funds", "pep", "beneficial_owner"}
  <2>1. (CHOOSE g \in Filled : TRUE) \in Filled
      OBVIOUS
  <2> QED
      BY <2>1 DEF questionnaire, Filled
<1>3. /\ f.residence = "ok"
      /\ f.us_person \in {"true", "false"} /\ f.sanctioned \in {"true", "false"}
      /\ f.investor_class = "given" /\ f.source_of_funds # Blank
      /\ f.pep \in {"true", "false"} /\ f.beneficial_owner \in {"true", "false"}
    BY <1>1, <1>2 DEF Filled, yesNo, Text
<1>4. a = [residence |-> "ok", us_person |-> Heard(f.us_person),
           sanctioned |-> Heard(f.sanctioned), investor_class |-> "given",
           source_of_funds |-> "given", pep |-> Heard(f.pep),
           beneficial_owner |-> Heard(f.beneficial_owner)]
    BY <1>3 DEF AnswersOf
<1>5. \A v \in {"true", "false"} : Heard(v) = IF v = "true" THEN "yes" ELSE "no"
    BY DEF Heard, Blank
<1>6. a \in Answers
    BY <1>3, <1>4, <1>5 DEF Answers, Residences, YesNo, Text
<1>7. ~Incomplete(a)
    BY <1>3, <1>4, <1>5 DEF Incomplete, Blank
<1>8. Excluded(a) <=> "true" \in {f.us_person, f.sanctioned}
    BY <1>3, <1>4, <1>5 DEF Excluded
<1>9. NeedsReview(a) <=> f.pep = "true" \/ f.beneficial_owner = "false"
    BY <1>3, <1>4, <1>5 DEF NeedsReview
<1> HIDE DEF a
<1>10. Evaluate("green", a) =
         IF Excluded(a) THEN "blocked" ELSE IF NeedsReview(a) THEN "held" ELSE "eligible"
    BY <1>7 DEF Evaluate
<1> QED
    BY <1>6, <1>7, <1>8, <1>9, <1>10 DEF a

-----------------------------------------------------------------------------
(* The site.  A step is a step of one page, and the others stay as they are, so
   that each page keeps its own invariant whichever of them runs. *)
Scenes == {"two wallets", "one wallet", "issuing", "arrival", "trail",
           "marketplace", "holdings", "payoff", "landing"}

SiteIInv ==
  /\ scene \in Scenes
  /\ OnboardingIInv /\ IssuanceIInv /\ VisitorIInv
  /\ ReaderIInv /\ MarketplaceIInv /\ HoldingsIInv /\ PayoffIInv /\ LandingIInv

LEMMA SiteStarts == Init => SiteIInv
<1> SUFFICES ASSUME Init PROVE SiteIInv
  OBVIOUS
<1>1. /\ scene \in Scenes /\ OnboardingInit /\ IssuanceInit /\ ReaderInit /\ MarketplaceInit
      /\ HoldingsInit /\ PayoffInit /\ LandingInit
  BY DEF Init, Scenes
<1>2. VisitorInit \/ (h1 \in Visitors /\ Arrived)
  BY SiteAssumption DEF Init
<1> QED
  BY <1>1, <1>2, OnboardingStarts, IssuanceStarts, VisitorStarts, ReaderStarts,
     MarketplaceStarts, HoldingsStarts, PayoffStarts, LandingStarts DEF SiteIInv

LEMMA SiteSteps == SiteIInv /\ [Next]_siteVars => SiteIInv'
<1> SUFFICES ASSUME SiteIInv, [Next]_siteVars PROVE SiteIInv'
  OBVIOUS
<1>1. /\ scene \in Scenes /\ OnboardingIInv /\ IssuanceIInv /\ VisitorIInv
      /\ ReaderIInv /\ MarketplaceIInv /\ HoldingsIInv /\ PayoffIInv /\ LandingIInv
  BY DEF SiteIInv
<1>2. scene' = scene
  BY DEF Next, siteVars
<1>3. OnboardingNext \/ UNCHANGED onboardingVars
  BY DEF Next, siteVars, wizardVars, Wizards, ReadingPages
<1>4. IssuanceNext \/ UNCHANGED issuanceVars
  BY DEF Next, siteVars, wizardVars, Wizards, ReadingPages
<1>5. VisitorNext \/ UNCHANGED visitorVars
  BY DEF Next, siteVars, wizardVars, Wizards, ReadingPages
<1>6. ReaderNext \/ UNCHANGED readerVars
  BY DEF Next, siteVars, readingVars, Wizards, ReadingPages
<1>7. MarketplaceNext \/ UNCHANGED marketplaceVars
  BY DEF Next, siteVars, readingVars, Wizards, ReadingPages
<1>8. HoldingsNext \/ UNCHANGED holdingsVars
  BY DEF Next, siteVars, readingVars, Wizards, ReadingPages
<1>9. PayoffNext \/ UNCHANGED payoffVars
  BY DEF Next, siteVars, readingVars, Wizards, ReadingPages
<1>10. LandingNext \/ UNCHANGED landingVars
  BY DEF Next, siteVars, readingVars, Wizards, ReadingPages
<1>11. OnboardingIInv' /\ IssuanceIInv' /\ VisitorIInv'
  BY <1>1, <1>3, <1>4, <1>5, OnboardingSteps, OnboardingRests, IssuanceSteps, IssuanceRests,
     VisitorSteps, VisitorRests
<1>12. ReaderIInv' /\ MarketplaceIInv' /\ HoldingsIInv'
  BY <1>1, <1>6, <1>7, <1>8, ReaderSteps, ReaderRests, MarketplaceSteps, MarketplaceRests,
     HoldingsSteps, HoldingsRests
<1>13. PayoffIInv' /\ LandingIInv'
  BY <1>1, <1>9, <1>10, PayoffSteps, PayoffRests, LandingSteps, LandingRests
<1> QED
  BY <1>1, <1>2, <1>11, <1>12, <1>13 DEF SiteIInv

LEMMA SiteHolds == Spec => []SiteIInv
  BY SiteStarts, SiteSteps, PTL DEF Spec

(* OnboardingInv holds for every set of wallets, whatever fails, expires or is
   answered late: the identity check is reached with a file to attach it to, and
   no reviewed wallet is held for want of an answer (kyc-wizard.tsx:366-385,
   kyc.ts:156-216, policy.go:47-86). *)
THEOREM OnboardingIsSafe == Spec => []OnboardingInv
<1>1. SiteIInv => OnboardingInv
  BY IdentityCheckHasAFile, WhatIsFilledInIsDecided DEF SiteIInv, OnboardingInv
<1> QED
  BY <1>1, SiteHolds, PTL

(* FiledByItsOwner holds for every set of wallets: no form is filed under
   another wallet's token, but where an answer came too late
   (kyc-wizard.tsx:292-298, 366-385). *)
THEOREM FormsAreFiledByTheirOwner == Spec => FiledByItsOwner
<1>1. SiteIInv /\ [Next]_siteVars =>
        [\A x \in calls \ calls' :
           x.kind = "submit" /\ Valid(x.auth) /\ ~late => x.profile = x.auth.of]_onboardingVars
  BY StepsFileOwnForms DEF SiteIInv
<1> QED
  BY <1>1, SiteHolds, PTL DEF Spec, FiledByItsOwner

(* WalletPagesInv holds for every set of wallets, files, bonds and orders: every
   page has its type, what is anchored is what was named and listed, orders are
   offered to the allowed, and the rows are the wallet's own
   (issuer-form.tsx:88-143, 348-355, buy-form.tsx:82-91, use-bonds.ts:50,
   portfolio.tsx:176-187). *)
THEOREM PagesAreTheWallets == Spec => []WalletPagesInv
<1>1. SiteIInv => WalletPagesInv
  <2> SUFFICES ASSUME SiteIInv PROVE WalletPagesInv
    OBVIOUS
  <2>1. /\ OnboardingTypeOK /\ IssuanceTypeOK /\ VisitorTypeOK /\ ReaderTypeOK
        /\ MarketplaceTypeOK /\ HoldingsTypeOK /\ PayoffTypeOK /\ LandingTypeOK
    BY OnboardingTypes, AnchorsAreNamed, OrdersAreAllowed, ReaderTypes, RowsAreOwnAndLeadOn,
       LandingIsWhole DEF SiteIInv, MarketplaceIInv, PayoffIInv
  <2>2. scene \in Scenes
    BY DEF SiteIInv
  <2>3. TypeOK
    BY <2>1, <2>2 DEF TypeOK, Scenes
  <2> QED
    BY <2>3, AnchorsAreNamed, OrdersAreAllowed, RowsAreOwnAndLeadOn DEF SiteIInv, WalletPagesInv
<1> QED
  BY <1>1, SiteHolds, PTL

(* ReadingsAreWhole holds for every set of submissions and chunks, and whatever
   reads fail: what is put together from many reads is whole
   (hcs.ts:67-176, audit-trail.tsx:44-53, bonds.ts:94-144). *)
THEOREM WhatIsReadIsWhole == Spec => []ReadingsAreWhole
<1>1. SiteIInv => ReadingsAreWhole
  BY RecordsAreWhole, EmptyIsEmpty, LogoIsLatest, LandingIsWhole DEF SiteIInv, ReadingsAreWhole
<1> QED
  BY <1>1, SiteHolds, PTL

(* BondsAreFound holds for every number of bonds, rates, pages and searches: no
   page is empty, each bond is on one, and the sorts list the same bonds
   (marketplace.tsx:212-309, 380-386, 488-504). *)
THEOREM EveryBondIsFound == Spec => []BondsAreFound
<1>1. SiteIInv => BondsAreFound
  BY PagesShow, BondsAreReached, ListsAreOne DEF SiteIInv, MarketplaceIInv, BondsAreFound
<1> QED
  BY <1>1, SiteHolds, PTL

(* PayoffIsHonest holds for every holding, rate, maturity and window: the line
   ends at what is owed, is drawn as rising exactly when it rises, and the three
   pages draw the same (market.ts:192-313, portfolio.tsx:111-113,
   bond-detail.tsx:52-66). *)
THEOREM PayoffLinesAreHonest == Spec => []PayoffIsHonest
<1>1. SiteIInv => PayoffIsHonest
  BY PayoffHolds DEF SiteIInv
<1> QED
  BY <1>1, SiteHolds, PTL
=============================================================================
