----------------------------- MODULE Marketplace -----------------------------
(***************************************************************************)
(* What the web app makes of the listings it read (apps/web/src/lib/market.ts *)
(* with marketplace.tsx, search-bonds.tsx, bond-card.tsx, bond-detail.tsx and *)
(* issuer-listings.tsx): the status of a bond, its yield, and the list that   *)
(* is searched, filtered, sorted and turned page by page while listings are   *)
(* refetched under it and time passes.                                        *)
(***************************************************************************)
EXTENDS Integers, Sequences, SequencesExt, Totals

CONSTANTS
  Offers,       \* what is listed: issuer, rate, face, days to maturity, and
                \* whether its names contain the query
  PAGE_SIZE,
  TOP,          \* rows of a top list: 3
  SUGGESTED,    \* suggestions of the search: 5
  MaxBonds,     \* bound: listings
  MaxDays       \* bound: days that pass, in halves

ASSUME MarketplaceAssumption ==
  /\ Offers \subseteq [issuer: {o.issuer : o \in Offers}, rate: Nat, face: Nat, days: Nat,
                       named: BOOLEAN]
  /\ PAGE_SIZE \in Nat \ {0} /\ TOP \in Nat /\ SUGGESTED \in Nat /\ TOP <= SUGGESTED

VARIABLES
  bonds,   \* the listings as the page last read them, oldest first
  clock,   \* now, in half days
  view,    \* the state of Explore: query, chip, sort, page
  search   \* the address's ?q=, and whether Explore's own box was used since

marketplaceVars == <<bonds, clock, view, search>>

Bond == [issuer: {o.issuer : o \in Offers}, discountRateBps: {o.rate : o \in Offers},
         faceValue: {o.face : o \in Offers}, supply: Nat, maturity: Nat,
         settled: BOOLEAN, named: BOOLEAN]
Statuses == {"open", "funded", "matured", "settled"}
Sorts == {"apy", "maturity", "size", "newest"}
Queries == {"", "acme"}

-----------------------------------------------------------------------------
isMatured(b) == clock >= b.maturity

bondStatus(b) ==
  IF b.settled THEN "settled"
  ELSE IF isMatured(b) THEN "matured"
  ELSE IF b.supply >= b.faceValue THEN "funded" ELSE "open"

(* tenorDays: whole days left, below zero once past. *)
tenorDays(b) == (b.maturity - clock) \div 2

(* impliedApr is a rate per day left; undefined without a whole day. *)
HasApr(b) == tenorDays(b) > 0

(* Does a yield more than b; without a yield it comes last. *)
YieldsMore(a, b) ==
  IF HasApr(a) /\ HasApr(b)
    THEN a.discountRateBps * tenorDays(b) > b.discountRateBps * tenorDays(a)
    ELSE HasApr(a) /\ ~HasApr(b)

Before(sort, a, b) ==
  CASE sort = "apy" -> YieldsMore(a, b)
    [] sort = "maturity" -> a.maturity < b.maturity
    [] sort = "size" -> a.faceValue > b.faceValue
    [] sort = "newest" -> FALSE

(* matches: the bond's names contain the query. *)
matches(b, q) == q = "" \/ b.named

(* The rows filterBonds keeps. *)
Listed(b, v) ==
  /\ matches(b, v.q)
  /\ IF v.chip = "all" THEN bondStatus(b) # "settled" ELSE bondStatus(b) = v.chip

(* A stable sort of positions in the listings; the newest are the last. *)
Sorted(kept, sort) ==
  Ordered(kept, LAMBDA i, j :
    \/ Before(sort, bonds[i], bonds[j])
    \/ ~Before(sort, bonds[j], bonds[i]) /\ (IF sort = "newest" THEN i > j ELSE i < j))

(* filterBonds: positions in the listings. *)
filterBonds(v) == Sorted({i \in DOMAIN bonds : Listed(bonds[i], v)}, v.sort)

Pages(v) == LET n == Len(filterBonds(v)) IN IF n = 0 THEN 1 ELSE (n + PAGE_SIZE - 1) \div PAGE_SIZE

(* Mutant of Current: the page that was chosen. *)
CurrentChosen(v) == v.page

(* The page shown: the one that was chosen or the last there is. *)
Current(v) == IF v.page > Pages(v) THEN Pages(v) ELSE v.page

(* "start-end of total". *)
Label(v) ==
  LET total == Len(filterBonds(v)) IN
  [start |-> IF total = 0 THEN 0 ELSE (Current(v) - 1) * PAGE_SIZE + 1,
   end |-> IF Current(v) * PAGE_SIZE < total THEN Current(v) * PAGE_SIZE ELSE total]

PageOf(v, p) == {i \in (p - 1) * PAGE_SIZE + 1 .. p * PAGE_SIZE : i <= Len(filterBonds(v))}
Items(v) == {filterBonds(v)[i] : i \in PageOf(v, Current(v))}

(* pageNumbers: the buttons; a gap is drawn between two that do not touch. *)
pageNumbers(current, pages) ==
  IF pages <= 7 THEN 1 .. pages
  ELSE {1, 2, current - 1, current, current + 1, pages - 1, pages} \cap 1 .. pages

(* Pagination: the pages a click leads to, Previous and Next included. *)
Turnable(current, pages) ==
  pageNumbers(current, pages) \cup (IF current = 1 THEN {} ELSE {current - 1})
                              \cup (IF current >= pages THEN {} ELSE {current + 1})

(* BuyForm and SecondaryMarket: what the bond's page offers. *)
CanFund(b) == bondStatus(b) = "open"
CanTrade(b) == bondStatus(b) \in {"open", "funded"}

(* TopLists and Suggestions: the first few bonds. *)
Top(n, kept, sort) ==
  LET sorted == Sorted(kept, sort)
  IN  SubSeq(sorted, 1, IF Len(sorted) < n THEN Len(sorted) ELSE n)
WithStatus(S) == {i \in DOMAIN bonds : bondStatus(bonds[i]) \in S}
TopYields == Top(TOP, WithStatus({"open"}), "apy")

MaturingSoon == Top(TOP, WithStatus({"open", "funded"}), "maturity")
NewlyIssued == Top(TOP, DOMAIN bonds, "newest")
Suggestions(q) ==
  Top(SUGGESTED, IF q = "" THEN WithStatus({"open"}) ELSE {i \in DOMAIN bonds : matches(bonds[i], q)}, "apy")

(* IssuerDashboard: the wallet's own listings. *)
MyInvoices(w) == {i \in DOMAIN bonds : bonds[i].issuer = w}
Outstanding(w) == {i \in MyInvoices(w) : bondStatus(bonds[i]) # "settled"}

-----------------------------------------------------------------------------
MarketplaceTypeOK ==
  /\ bonds \in Seq(Bond) /\ clock \in Nat
  /\ search \in [route: Queries, edited: BOOLEAN]
  /\ view \in [q: Queries, chip: Statuses \cup {"all"}, sort: Sorts, page: Nat \ {0}]
  /\ \A i \in DOMAIN bonds : bonds[i].supply <= bonds[i].faceValue
                             /\ (bonds[i].settled => isMatured(bonds[i]))

(* Explore as it is mounted, with the address's query. *)
Explore(q) == [q |-> q, chip |-> "all", sort |-> "apy", page |-> 1]

MarketplaceInit ==
  /\ bonds = <<>> /\ clock = 0
  /\ view = [q |-> "", chip |-> "all", sort |-> "apy", page |-> 1]
  /\ search = [route |-> "", edited |-> FALSE]

(* The listings are refetched after a listing, a purchase, a repayment. *)
Listing ==
  /\ Len(bonds) < MaxBonds
  /\ \E o \in Offers :
       bonds' = Append(bonds, [issuer |-> o.issuer, discountRateBps |-> o.rate,
                               faceValue |-> o.face, supply |-> 0, settled |-> FALSE,
                               maturity |-> clock + 2 * o.days, named |-> o.named])
  /\ UNCHANGED <<clock, view, search>>

Funding(i) ==
  /\ bondStatus(bonds[i]) = "open"
  /\ bonds' = [bonds EXCEPT ![i].supply = bonds[i].faceValue]
  /\ UNCHANGED <<clock, view, search>>

Repayment(i) ==
  /\ bondStatus(bonds[i]) = "matured"
  /\ bonds' = [bonds EXCEPT ![i].settled = TRUE]
  /\ UNCHANGED <<clock, view, search>>

HalfDay == clock < MaxDays /\ clock' = clock + 1 /\ UNCHANGED <<bonds, view, search>>

(* Explore's own box, its chips and its sort menu go back to the first page; goTo
   turns it. *)
Choose ==
  /\ \/ \E q \in Queries : /\ view' = [view EXCEPT !.q = q, !.page = 1]
                           /\ search' = [search EXCEPT !.edited = TRUE]
     \/ /\ \/ \E c \in Statuses \cup {"all"} : view' = [view EXCEPT !.chip = c, !.page = 1]
           \/ \E s \in Sorts : view' = [view EXCEPT !.sort = s, !.page = 1]
           \/ \E p \in Turnable(Current(view), Pages(view)) : view' = [view EXCEPT !.page = p]
        /\ UNCHANGED search
  /\ UNCHANGED <<bonds, clock>>

(* HeaderSearch: a term is typed and sent.  Explore is keyed by the address's
   query, so the term the address already has changes nothing, whatever Explore's
   own box says by now. *)
SubmitSearch(q) ==
  /\ search.route # q
  /\ search' = [route |-> q, edited |-> FALSE] /\ view' = Explore(q)
  /\ UNCHANGED <<bonds, clock>>

(* HeaderSearch, MobileSearch: from a suggestion to its bond's page, and back to
   the address. *)
OpenSuggestion(q) ==
  /\ Suggestions(q) # <<>>
  /\ search' = [search EXCEPT !.edited = FALSE]
  /\ view' = [q |-> search.route, chip |-> "all", sort |-> "apy", page |-> 1]
  /\ UNCHANGED <<bonds, clock>>

MarketplaceNext ==
  \/ Listing \/ HalfDay \/ Choose
  \/ \E q \in Queries : SubmitSearch(q) \/ OpenSuggestion(q)
  \/ \E i \in DOMAIN bonds : Funding(i) \/ Repayment(i)

-----------------------------------------------------------------------------
(* A page is never empty while something matches, whatever was filtered away,
   repaid or turned to before, and its label counts what it shows
   (marketplace.tsx:380-386). *)
PagesAreNotEmpty ==
  Len(filterBonds(view)) > 0 =>
    /\ Items(view) # {}
    /\ Cardinality(Items(view)) = Label(view).end - Label(view).start + 1

(* The list is the one the address asks for until Explore's own box is used,
   whatever was searched, opened and filtered before (marketplace.tsx:488-504). *)
SearchIsListed == search.edited \/ view.q = search.route

(* Every listing can be reached: in some order it is on some page under "all",
   or, once repaid, under its own chip; no row is on two pages
   (marketplace.tsx:266-296: "It stays reachable under the Settled chip"). *)
EveryBondIsSomewhere ==
  \A s \in Sorts : \A i \in DOMAIN bonds :
    LET v == [q |-> "", sort |-> s, page |-> 1,
              chip |-> IF bonds[i].settled THEN "settled" ELSE "all"]
    IN  \E p \in 1 .. Pages(v) : \E k \in PageOf(v, p) : filterBonds(v)[k] = i

(* Every page can be turned to: the first, the last and the neighbours have a
   button, and a gap hides something (marketplace.tsx:298-309). *)
PageButtonsReach ==
  \A pages \in 1 .. 12 : \A current \in 1 .. pages :
    LET shown == pageNumbers(current, pages)
    IN  /\ {1, current, pages} \subseteq shown
        /\ (current - 1 .. current + 1) \cap 1 .. pages \subseteq shown
        /\ Turnable(current, pages) \subseteq 1 .. pages

(* What is offered can be funded and what is due is not offered as maturing: the
   top lists agree with the chips, and an issuer sees as outstanding exactly what
   is not under "settled" (marketplace.tsx:212-220, issuer-listings.tsx:62-65). *)
ListsAgree ==
  LET Chip(c) == ToSet(filterBonds([q |-> "", chip |-> c, sort |-> "newest", page |-> 1]))
  IN  /\ ToSet(TopYields) \subseteq Chip("open")
      /\ ToSet(MaturingSoon) \subseteq Chip("open") \cup Chip("funded")
      /\ \A i \in DOMAIN bonds :
           /\ CanFund(bonds[i]) <=> i \in Chip("open")
           /\ CanTrade(bonds[i]) <=> i \in Chip("all") \ Chip("matured")
      /\ \A w \in {o.issuer : o \in Offers} : Outstanding(w) = MyInvoices(w) \cap Chip("all")
      /\ ToSet(TopYields) \subseteq ToSet(Suggestions(""))
      /\ \A i \in ToSet(TopYields) : \A j \in Chip("open") \ ToSet(TopYields) :
           ~YieldsMore(bonds[j], bonds[i])
=============================================================================
