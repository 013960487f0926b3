------------------------------ MODULE LandingPage ------------------------------
(***************************************************************************)
(* The landing page's list of bonds (apps/landing/src/lib/bonds.ts): a       *)
(* rendering reads the number of listings, then every listing, while the     *)
(* market moves, and is kept for a minute.  A rendering that fails is one    *)
(* without bonds.                                                            *)
(*                                                                          *)
(* External: the market, which lists and sells and never takes back; the     *)
(* framework, which serves the kept page, renders a stale one again behind a *)
(* visit, and keeps what comes out.                                          *)
(***************************************************************************)
EXTENDS Integers, Sequences, FiniteSets

CONSTANTS
  MaxShown,   \* bound: bonds on the market
  FaceUnits,  \* units of a bond
  MaxBreaks   \* bound: reads that fail

ASSUME LandingAssumption == MaxShown \in Nat \ {0} /\ FaceUnits \in Nat /\ MaxBreaks \in Nat

VARIABLES
  supplies,  \* bond, in the order of listing -> units sold
  landing,   \* the kept page: its rows, what the market was when its rendering
             \* began, and whether that failed
  stale,     \* the page is older than a minute
  render,    \* the reading under way
  breaks

landingVars == <<supplies, landing, stale, render, breaks>>

Resting == [going |-> FALSE]
RowsRead == UNION {[1 .. n -> 0 .. FaceUnits] : n \in 0 .. MaxShown}

LandingTypeOK ==
  /\ supplies \in RowsRead /\ stale \in BOOLEAN /\ breaks \in 0 .. MaxBreaks
  /\ landing \in [rows: RowsRead, from: RowsRead, failed: BOOLEAN]
  /\ \/ render = Resting
     \/ /\ render.going /\ render.from \in RowsRead /\ render.left \subseteq DOMAIN supplies
        /\ render.rows \in RowsRead /\ render.counted \in BOOLEAN

LandingInit ==
  /\ supplies = <<0>>
  /\ landing = [rows |-> <<0>>, from |-> <<0>>, failed |-> FALSE]
  /\ stale = FALSE /\ render = Resting /\ breaks = 0

-----------------------------------------------------------------------------
(* The kept page ages; a visit to a stale one starts a rendering. *)
VisitLanding ==
  \/ ~stale /\ stale' = TRUE /\ UNCHANGED <<supplies, landing, render, breaks>>
  \/ /\ stale /\ render = Resting
     /\ render' = [going |-> TRUE, from |-> supplies, counted |-> FALSE,
                   left |-> {}, rows |-> <<>>]
     /\ UNCHANGED <<supplies, landing, stale, breaks>>

(* fetchBonds, listingCount and the ids, which never change. *)
CountBonds ==
  /\ render.going /\ ~render.counted
  /\ render' = [render EXCEPT !.counted = TRUE, !.left = DOMAIN supplies,
                              !.rows = [i \in DOMAIN supplies |-> 0]]
  /\ UNCHANGED <<supplies, landing, stale, breaks>>

(* One listing with its name, symbol and supply; all are asked for at once. *)
ReadRow(i) ==
  /\ render.going /\ i \in render.left
  /\ render' = [render EXCEPT !.left = @ \ {i}, !.rows[i] = supplies[i]]
  /\ UNCHANGED <<supplies, landing, stale, breaks>>

Keep(rows, failed) ==
  /\ landing' = [rows |-> rows, from |-> render.from, failed |-> failed]
  /\ stale' = FALSE /\ render' = Resting

(* Every read is answered. *)
Rendered ==
  /\ render.going /\ render.counted /\ render.left = {}
  /\ Keep(render.rows, FALSE)
  /\ UNCHANGED <<supplies, breaks>>

(* A read fails: nothing at all is shown. *)
RenderFails ==
  /\ render.going /\ breaks < MaxBreaks /\ breaks' = breaks + 1
  /\ Keep(<<>>, TRUE)
  /\ UNCHANGED supplies

MarketMoves ==
  /\ \/ Len(supplies) < MaxShown /\ supplies' = Append(supplies, 0)
     \/ \E i \in DOMAIN supplies :
          supplies[i] < FaceUnits /\ supplies' = [supplies EXCEPT ![i] = @ + 1]
  /\ UNCHANGED <<landing, stale, render, breaks>>

LandingNext ==
  \/ VisitLanding \/ CountBonds \/ Rendered \/ RenderFails \/ MarketMoves
  \/ \E i \in 1 .. MaxShown : ReadRow(i)

-----------------------------------------------------------------------------
(* "Returns nothing at all if the chain cannot be reached": the page shows every
   bond that was listed when its reading began, each as far sold as it was at some
   moment since, or nothing, and nothing over a market that has bonds only after a
   read failed (bonds.ts:94-144). *)
ShowsAllOrNothing ==
  LET shown == landing.rows
  IN  /\ shown = <<>> => landing.failed \/ landing.from = <<>>
      /\ shown # <<>> =>
           /\ DOMAIN landing.from \subseteq DOMAIN shown /\ DOMAIN shown \subseteq DOMAIN supplies
           /\ \A i \in DOMAIN shown :
                /\ shown[i] <= supplies[i]
                /\ i \in DOMAIN landing.from => landing.from[i] <= shown[i]
=============================================================================
