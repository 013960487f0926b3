------------------------------- MODULE Holdings -------------------------------
(***************************************************************************)
(* The wallet's holdings on the marketplace (PortfolioSummary) and on the    *)
(* portfolio page (apps/web/src/lib/use-bonds.ts, fetchBonds and             *)
(* fetchPositions of lib/market.ts, marketplace.tsx, portfolio.tsx).  Both   *)
(* pages read through one query cache.  A query's key names the wallet and   *)
(* how many listings the page already had; what it read under a key is shown *)
(* until the next answer.  Reads are not atomic, balances and what can be    *)
(* claimed come from separate calls, and answers come late, after the page,  *)
(* the wallet or the chain moved on.                                         *)
(*                                                                           *)
(* External: the chain, the wallet, react-query's cache.                     *)
(***************************************************************************)
EXTENDS Integers, FiniteSets

CONSTANTS
  Accounts,
  MaxListings,
  MaxTrades,    \* bound: listings, units changing hands, repayments and claims
  MaxVisits     \* bound: pages opened and wallets switched

VARIABLES
  listings,   \* on chain: how many bonds are listed
  owner,      \* bond -> the account that holds its units, or Nobody
  repaid,     \* settled bonds
  paying,     \* those of them whose units pay their holder something: what a partial
              \* repayment owes a small holding rounds down to nothing
  visit,      \* the page on screen and the wallet that is connected; "other"
              \* pages read neither query
  bondsRead,  \* the cache: the listings, Unread before the first answer
  positions,  \* the cache: key -> rows, Unread before the first answer
  inFlight,   \* reads that were started
  everOwned,  \* history: account -> bonds it ever held
  movedOn,    \* history: settled bonds whose units were transferred or claimed since
  moves       \* counters against the bounds

CONSTANTS Nobody, Unread

holdingsVars == <<listings, owner, repaid, paying, visit, bondsRead, positions, inFlight, everOwned,
  movedOn, moves>>
bookVars == <<listings, owner, repaid, paying, everOwned, movedOn>>

Bonds == 1 .. MaxListings
Readers == {"marketplace", "portfolio"}
Row == [bond: Bonds, settled: BOOLEAN, claimable: BOOLEAN]
Read == [count: 0 .. MaxListings, settled: SUBSET Bonds]
Keys == [of: Accounts, count: 0 .. MaxListings]
BondsKey == [of |-> Nobody, count |-> 0]

ASSUME HoldingsAssumption ==
  /\ MaxListings \in Nat \ {0} /\ Accounts # {} /\ Nobody \notin Accounts
  /\ Unread \notin Read /\ \A rows \in SUBSET Row : Unread # rows

-----------------------------------------------------------------------------
(* Mutant of PositionsKey: the wallet is not part of it. *)
PositionsKeyShared ==
  [of |-> CHOOSE a \in Accounts : TRUE,
   count |-> IF visit.page # "marketplace" \/ bondsRead = Unread THEN 0 ELSE bondsRead.count]

(* usePositions: the key of the page on screen. *)
PositionsKey ==
  [of |-> visit.account,
   count |-> IF visit.page # "marketplace" \/ bondsRead = Unread THEN 0 ELSE bondsRead.count]

(* The listings passed to usePositions: none from the portfolio; from the
   marketplace those it has, which before the first answer is an empty list. *)
Known ==
  IF visit.page = "portfolio" THEN Unread
  ELSE IF bondsRead = Unread THEN [count |-> 0, settled |-> {}] ELSE bondsRead

(* What is on screen: rows, or Unread for the placeholder. *)
Shown == positions[PositionsKey]

(* The calls of fetchPositions: balanceOf and claimable, of every bond. *)
Calls == {"held", "claims"}
Held(a) == {b \in Bonds : owner[b] = a}
Claims(a) == Held(a) \cap paying
AnswerTo(call, a) == IF call = "held" THEN Held(a) ELSE Claims(a)

(* fetchPositions: non-zero balances only, with the listing they were read for. *)
RowsOf(known, held, claims) ==
  {[bond |-> b, settled |-> b \in known.settled, claimable |-> b \in claims] :
     b \in held \cap 1 .. known.count}

(* The card "Claimable Settlements". *)
ClaimRows(rows) == {r \in rows : r.claimable}

(* HoldingRow: the link or the word at the end of a holding's row. *)
RowOffers(r) == IF r.settled THEN "nothing" ELSE IF r.claimable THEN "claimable" ELSE "sell or wait"

OnChain == [count |-> listings, settled |-> repaid]

-----------------------------------------------------------------------------
HoldingsTypeOK ==
  /\ listings \in 0 .. MaxListings
  /\ owner \in [Bonds -> Accounts \cup {Nobody}] /\ repaid \subseteq 1 .. listings
  /\ paying \subseteq repaid /\ movedOn \subseteq repaid
  /\ visit \in [page: Readers \cup {"other"}, account: Accounts]
  /\ bondsRead \in Read \cup {Unread}
  /\ \A k \in Keys : positions[k] = Unread \/ positions[k] \subseteq Row
  /\ \A x, y \in inFlight : x.key = y.key => x = y
  /\ everOwned \in [Accounts -> SUBSET Bonds]

HoldingsInit ==
  /\ listings = 1
  /\ owner \in [Bonds -> Accounts \cup {Nobody}] /\ \A b \in 2 .. MaxListings : owner[b] = Nobody
  /\ repaid = {} /\ paying = {} /\ movedOn = {}
  /\ visit \in [page: Readers \cup {"other"}, account: {CHOOSE a \in Accounts : TRUE}]
  /\ bondsRead = Unread /\ positions = [k \in Keys |-> Unread]
  /\ inFlight = {}
  /\ everOwned = [a \in Accounts |-> {b \in Bonds : owner[b] = a}]
  /\ moves = [trades |-> 0, visits |-> 0]

Trading == moves.trades < MaxTrades /\ moves' = [moves EXCEPT !.trades = @ + 1]
Visiting == moves.visits < MaxVisits /\ moves' = [moves EXCEPT !.visits = @ + 1]
pageState == <<visit, bondsRead, positions, inFlight>>

(* The chain moves: a listing, units that change hands, a repayment, a claim. *)
ListAnother ==
  /\ listings < MaxListings /\ Trading
  /\ listings' = listings + 1
  /\ UNCHANGED <<owner, repaid, paying, everOwned, movedOn, pageState>>

Trade(b, a) ==
  /\ b \in 1 .. listings /\ owner[b] # a /\ Trading
  /\ owner' = [owner EXCEPT ![b] = a]
  /\ everOwned' = [everOwned EXCEPT ![a] = @ \cup {b}]
  /\ movedOn' = movedOn \cup ({b} \cap repaid)
  /\ UNCHANGED <<listings, repaid, paying, pageState>>

Repaid(b) ==
  /\ b \in 1 .. listings \ repaid /\ Trading
  /\ repaid' = repaid \cup {b} /\ paying' \in {paying, paying \cup {b}}
  /\ UNCHANGED <<listings, owner, everOwned, movedOn, pageState>>

Claimed(b) ==
  /\ b \in repaid /\ owner[b] # Nobody /\ Trading
  /\ owner' = [owner EXCEPT ![b] = Nobody] /\ movedOn' = movedOn \cup {b}
  /\ UNCHANGED <<listings, repaid, paying, everOwned, pageState>>

-----------------------------------------------------------------------------
(* Another page is opened or the wallet switched; the cache stays. *)
Visit(page, a) ==
  /\ visit # [page |-> page, account |-> a] /\ Visiting
  /\ visit' = [page |-> page, account |-> a]
  /\ UNCHANGED <<bookVars, bondsRead, positions, inFlight>>

(* A query on screen is read: on mount, when its key changes, on focus and when
   a write of the page is confirmed.  fetchBonds counts first. *)
Reading(key) == \E x \in inFlight : x.key = key

ReadBonds ==
  /\ visit.page \in Readers /\ ~Reading(BondsKey)
  /\ inFlight' = inFlight \cup {[key |-> BondsKey, count |-> listings]}
  /\ UNCHANGED <<bookVars, visit, bondsRead, positions, moves>>

(* fetchPositions: over the listings it was given, or over all it reads now. *)
ReadPositions ==
  /\ visit.page \in Readers /\ ~Reading(PositionsKey)
  /\ inFlight' = inFlight \cup
       {[key |-> PositionsKey, of |-> visit.account,
         known |-> IF Known = Unread THEN OnChain ELSE Known, first |-> "none", seen |-> {}]}
  /\ UNCHANGED <<bookVars, visit, bondsRead, positions, moves>>

(* One of the two calls for positions is answered, whichever. *)
Called(x, call) ==
  /\ x.key # BondsKey /\ x.first = "none"
  /\ inFlight' = (inFlight \ {x}) \cup {[x EXCEPT !.first = call, !.seen = AnswerTo(call, x.of)]}
  /\ UNCHANGED <<bookVars, visit, bondsRead, positions, moves>>

(* The listings are in, or the other call. *)
Delivered(x) ==
  /\ inFlight' = inFlight \ {x}
  /\ \/ /\ x.key = BondsKey
        /\ bondsRead' = [count |-> x.count, settled |-> repaid \cap 1 .. x.count]
        /\ UNCHANGED positions
     \/ /\ x.key # BondsKey /\ x.first = "held"
        /\ positions' = [positions EXCEPT ![x.key] = RowsOf(x.known, x.seen, Claims(x.of))]
        /\ UNCHANGED bondsRead
     \/ /\ x.key # BondsKey /\ x.first = "claims"
        /\ positions' = [positions EXCEPT ![x.key] = RowsOf(x.known, Held(x.of), x.seen)]
        /\ UNCHANGED bondsRead
  /\ UNCHANGED <<bookVars, visit, moves>>

HoldingsNext ==
  \/ ListAnother \/ ReadBonds \/ ReadPositions
  \/ \E b \in Bonds : Repaid(b) \/ Claimed(b) \/ \E a \in Accounts : Trade(b, a)
  \/ \E page \in Readers \cup {"other"}, a \in Accounts : Visit(page, a)
  \/ \E x \in inFlight : Delivered(x) \/ \E call \in Calls : Called(x, call)

-----------------------------------------------------------------------------
(* A wallet is shown holdings that were its own, never those of the wallet that
   was connected when a late answer was asked for (use-bonds.ts:50). *)
RowsAreTheWallets ==
  Shown # Unread => {r.bond : r \in Shown} \subseteq everOwned[visit.account]

(* Every holding on screen leads on: it can be sold, it waits for its repayment,
   or its payout can be claimed; also when the listings it was read with are older
   than the repayment.  A row that leads nowhere is one of a settled bond which
   pays that holding nothing, or whose units moved after it was settled, so that
   its balance and its claim were read on either side of the move
   (portfolio.tsx:176-187, 365-377, market.ts:119-146). *)
EveryRowLeadsOn ==
  Shown # Unread => \A r \in Shown \ ClaimRows(Shown) :
    RowOffers(r) = "nothing" => r.bond \in (repaid \ paying) \cup movedOn

(* A page that stays open comes to show exactly what its wallet holds, which of
   it is repaid and what can be claimed, whatever empty, older, torn or other
   wallet's answer its cache held before (use-bonds.ts:39-56, market.ts:119-146). *)
HoldingsCatchUp ==
  <>[](visit.page \in Readers) =>
    <>[](Shown = RowsOf(OnChain, Held(visit.account), Claims(visit.account)))
=============================================================================
