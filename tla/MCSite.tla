-------------------------------- MODULE MCSite --------------------------------
(***************************************************************************)
(* The pages of the web app and the landing page: the onboarding wizard, the *)
(* issuer's form, and what the others show.  They share only the wallet,     *)
(* so each behaviour has one of them run while the others stand still.       *)
(* Onboarding runs with two wallets where nothing goes wrong, and with one   *)
(* where requests fail, signatures expire and the visitor goes back.         *)
(***************************************************************************)
EXTENDS Onboarding, Issuance, Questionnaire, Visitor, TrailReader, Marketplace, Holdings, PayoffLine,
  LandingPage

CONSTANTS h1, h2, a1, a2, flat

VARIABLE scene

(* Who orders is one of the visitors. *)
ASSUME SiteAssumption == h1 \in Visitors

wizardVars == <<onboardingVars, issuanceVars, visitorVars>>
readingVars == <<readerVars, marketplaceVars, holdingsVars, payoffVars, landingVars>>
siteVars == <<wizardVars, readingVars, scene>>

(* Logos that take two messages, and one that takes one. *)
Sizes == [s \in Submissions |-> IF s \in Marked /\ s # flat THEN 2 ELSE 1]
TwoOffers == {[issuer |-> a1, rate |-> 1, face |-> 2, days |-> 1, named |-> TRUE],
              [issuer |-> a2, rate |-> 2, face |-> 3, days |-> 2, named |-> FALSE]}

(* The types of the page that runs. *)
TypeOK ==
  CASE scene \in {"two wallets", "one wallet"} -> OnboardingTypeOK
    [] scene = "issuing" -> IssuanceTypeOK
    [] scene = "arrival" -> VisitorTypeOK
    [] scene = "trail" -> ReaderTypeOK
    [] scene = "marketplace" -> MarketplaceTypeOK
    [] scene = "holdings" -> HoldingsTypeOK
    [] scene = "payoff" -> PayoffTypeOK
    [] scene = "landing" -> LandingTypeOK

(* A visitor who has an order to make. *)
Arrived ==
  /\ at = [account |-> h1, onChain |-> TRUE] /\ dialog = "none" /\ associating = NoOne
  /\ allowed = {h1} /\ associated = {h1} /\ mirrored = {h1} /\ reads = {}
  /\ known = [v \in Visitors |-> [g \in Gates |-> IF v = h1 THEN "yes" ELSE "no"]] /\ upsets = 0
  /\ overtaken = [cached |-> {}, asked |-> {}]

(* A page that does not run stays in one state, in which nothing is due. *)
Init ==
  /\ scene \in {"two wallets", "one wallet", "issuing", "arrival", "trail",
               "marketplace", "holdings", "payoff", "landing"}
  /\ OnboardingInit /\ (scene # "one wallet" => selfieCheck = TRUE)
  /\ IssuanceInit /\ account = a1
  /\ IF scene = "arrival" THEN VisitorInit ELSE Arrived
  /\ ReaderInit /\ MarketplaceInit
  /\ HoldingsInit
  /\ IF scene = "holdings" THEN visit.page = "portfolio" /\ owner[1] = a1
     ELSE visit.page = "other" /\ owner[1] = Nobody
  /\ PayoffInit /\ LandingInit
  /\ scene # "payoff" => \A k \in Slots : holdings[k] =
       CHOOSE h \in Holding : h.maturity = 1 /\ ~h.settled /\ h.claimable = 0

TwoWallets ==
  /\ spent'.trouble + spent'.detours = 0 /\ spent'.switches <= 2
  /\ file'[h2] \in {"none", "pending"}
OneWallet ==
  /\ ui'.wallet # h2
  /\ spent'.trouble + spent'.detours <= 2 /\ spent'.switches + spent'.detours <= 2
FewMoves == moves'.trades + moves'.visits <= 2

Wizards ==
  /\ UNCHANGED readingVars
  /\ \/ scene = "two wallets" /\ OnboardingNext /\ TwoWallets /\ UNCHANGED <<issuanceVars, visitorVars>>
     \/ scene = "one wallet" /\ OnboardingNext /\ OneWallet /\ UNCHANGED <<issuanceVars, visitorVars>>
     \/ scene = "issuing" /\ IssuanceNext /\ UNCHANGED <<onboardingVars, visitorVars>>
     \/ scene = "arrival" /\ VisitorNext /\ UNCHANGED <<onboardingVars, issuanceVars>>

ReadingPages ==
  /\ UNCHANGED wizardVars
  /\ \/ /\ scene = "trail" /\ ReaderNext
        /\ UNCHANGED <<marketplaceVars, holdingsVars, payoffVars, landingVars>>
     \/ /\ scene = "marketplace" /\ MarketplaceNext
        /\ UNCHANGED <<readerVars, holdingsVars, payoffVars, landingVars>>
     \/ /\ scene = "holdings" /\ HoldingsNext /\ FewMoves
        /\ UNCHANGED <<readerVars, marketplaceVars, payoffVars, landingVars>>
     \/ /\ scene = "payoff" /\ PayoffNext
        /\ UNCHANGED <<readerVars, marketplaceVars, holdingsVars, landingVars>>
     \/ /\ scene = "landing" /\ LandingNext
        /\ UNCHANGED <<readerVars, marketplaceVars, holdingsVars, payoffVars>>

Next == (Wizards \/ ReadingPages) /\ UNCHANGED scene

(* The visitor of the wizard goes on and the window gets the focus now and then;
   an issuer that has a checklist in front of it works it off; a visitor who wants
   to order presses what the form offers and looks at the page again; reads are
   answered, and the wallet, the chain and the mirror come through.  Nothing is
   asked of Sumsub, nor that an identity check lets a wallet in. *)
OnboardingFairness ==
  /\ WF_onboardingVars(scene \in {"two wallets", "one wallet"} /\ Forward)
  /\ WF_onboardingVars(scene \in {"two wallets", "one wallet"} /\ Ask)
  /\ WF_onboardingVars(scene \in {"two wallets", "one wallet"} /\ \E r \in reading : Answered(r))
IssuanceFairness == WF_issuanceVars(scene = "issuing" /\ IssuerForward)
VisitorFairness ==
  /\ WF_visitorVars(scene = "arrival" /\ Pressing)
  /\ WF_visitorVars(scene = "arrival" /\ WalletAnswers)
  /\ WF_visitorVars(scene = "arrival" /\ PressAssociate)
  /\ WF_visitorVars(scene = "arrival" /\ AssociateEnds)
  /\ WF_visitorVars(scene = "arrival" /\ MirrorCatchesUp)
  /\ \A g \in Gates :
       /\ WF_visitorVars(scene = "arrival" /\ AskRead(g))
       /\ WF_visitorVars(scene = "arrival" /\ \E r \in reads : r.of = g /\ AnswerRead(r))
HoldingsFairness ==
  /\ WF_holdingsVars(scene = "holdings" /\ ReadBonds)
  /\ WF_holdingsVars(scene = "holdings" /\ ReadPositions)
  /\ WF_holdingsVars(scene = "holdings" /\ \E x \in inFlight : x.key = BondsKey /\ Delivered(x))
  /\ WF_holdingsVars(scene = "holdings" /\ \E x \in inFlight, call \in Calls : Called(x, call))
  /\ WF_holdingsVars(scene = "holdings" /\ \E x \in inFlight : x.key # BondsKey /\ Delivered(x))

Spec ==
  /\ Init /\ [][Next]_siteVars
  /\ OnboardingFairness /\ IssuanceFairness /\ VisitorFairness /\ HoldingsFairness

(* Who gets through the onboarding pages is decided on what it declared: the
   identity check has a file to go into, and a form that is let through never
   leaves a reviewed wallet held for want of an answer (kyc-wizard.tsx:366-385,
   kyc.ts:156-216, policy.go:47-86). *)
OnboardingInv == IdentityHasAFile /\ FormsAreDecided

(* What a page anchors, offers or lists for a wallet is that wallet's: its
   document is the one it named and listed, orders are offered to it only if the
   chain said when asked that it is allowed, and the rows are its holdings, each of
   which leads on unless it pays nothing or was moved between two reads
   (issuer-form.tsx:88-143, 348-355, buy-form.tsx:82-91, use-bonds.ts:50,
   portfolio.tsx:176-187). *)
WalletPagesInv ==
  /\ TypeOK
  /\ AnchorsWhatItNamed /\ AnchoredIsListed
  /\ OrdersAreForTheAllowed /\ RowsAreTheWallets /\ EveryRowLeadsOn

(* What is put together from many reads is whole, or says that it is not there:
   records of several chunks, the latest logo, an empty trail, the landing page
   (hcs.ts:67-176, audit-trail.tsx:44-53, bonds.ts:94-144). *)
ReadingsAreWhole == RowsAreRecords /\ EmptyMeansNone /\ LogoIsTheLatest /\ ShowsAllOrNothing

(* A bond that is listed can be found: on some page, under the chip that says
   what can be done with it, by the search that is in the address
   (marketplace.tsx:212-309, 380-386, 488-504). *)
BondsAreFound == PagesAreNotEmpty /\ SearchIsListed /\ EveryBondIsSomewhere /\ ListsAgree

(* One payoff line, everywhere it is drawn, that ends at what is owed
   (market.ts:192-313, portfolio.tsx:111-113, bond-detail.tsx:52-66). *)
PayoffIsHonest == LineEndsAtWhatIsOwed /\ TrendIsHonest /\ LinesAgree

(* A page that stays open catches up with the topic, the wallet's holdings, and
   its standing and association (hcs.ts:129-156, use-bonds.ts:39-56,
   association.ts:44-60). *)
PagesCatchUp == TrailCatchesUp /\ HoldingsCatchUp /\ VisitorsGetToOrder

(* Page numbers lead to every page, and the labels of the charts fit. *)
ASSUME PagesAndAxes == PageButtonsReach /\ AxesAreReadable
=============================================================================
