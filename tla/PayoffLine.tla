------------------------------ MODULE PayoffLine ------------------------------
(***************************************************************************)
(* The payoff line of a wallet's holdings and of one bond                     *)
(* (apps/web/src/lib/market.ts: unitValue, holdingsCurve, pricePath; the      *)
(* portfolio page, the strip on the marketplace and accretion in              *)
(* bond-detail.tsx).  Values are exact multiples of 1 / Scale of a cent, where *)
(* the code uses floating point; a point is drawn per day instead of 96 of    *)
(* them evenly spread.                                                        *)
(***************************************************************************)
EXTENDS Integers, FiniteSets, Functions

CONSTANTS
  Slots,       \* the bonds that are held
  Units,       \* face held of one bond
  RatesBps,    \* discount rates, in bps of face
  Maturities,  \* days at which bonds mature
  Windows,     \* how far forward the range buttons draw; All is the last maturity
  All,
  LastDay,     \* bound: days that pass
  Scale        \* divisible by every number of days to a maturity

VARIABLES
  holdings,   \* bond -> what is held of it
  today,
  window      \* the range button

payoffVars == <<holdings, today, window>>

Holding == [units: Units, rate: RatesBps, maturity: Maturities, settled: BOOLEAN,
            claimable: {0} \cup Units]
Bps == 10000

ASSUME PayoffAssumption ==
  /\ IsFiniteSet(Slots) /\ Slots # {}
  /\ Units \subseteq Nat \ {0} /\ RatesBps \subseteq 1 .. Bps
  /\ Maturities \subseteq Nat \ {0} /\ Windows \subseteq Nat \ {0} /\ All \notin Windows
  /\ Scale \in Nat \ {0} /\ \A m \in Maturities : \A d \in 1 .. m : Scale % d = 0

PayoffTypeOK ==
  /\ holdings \in [Slots -> Holding] /\ today \in Nat /\ window \in Windows \cup {All}
  /\ \A k \in Slots : holdings[k].settled => holdings[k].maturity <= today

PayoffInit ==
  /\ holdings \in [Slots -> [units: Units, rate: RatesBps, maturity: Maturities,
                             settled: {FALSE}, claimable: {0}]]
  /\ today = 0 /\ window = All

-----------------------------------------------------------------------------
(* Mutant of unitValue: it accretes on past maturity. *)
unitValueOn(h, at, from) ==
  IF at <= from THEN (Bps - h.rate) * Scale
  ELSE LET days == IF h.maturity > from THEN h.maturity - from ELSE 1
       IN  (Bps - h.rate) * Scale + h.rate * (at - from) * (Scale \div days)

(* unitValue: from the discounted cost today to par at maturity. *)
unitValue(h, at, from) ==
  IF at >= h.maturity \/ h.maturity <= from THEN Bps * Scale
  ELSE IF at <= from THEN (Bps - h.rate) * Scale
  ELSE (Bps - h.rate) * Scale + h.rate * (at - from) * (Scale \div (h.maturity - from))

(* payout: a settled bond is worth what can be claimed. *)
Payout(h, at, from) ==
  IF h.settled THEN h.claimable * Bps * Scale ELSE h.units * unitValue(h, at, from)

(* The values of a function, added up. *)
Added(f) == FoldFunction(LAMBDA a, b : a + b, 0, f)

Value(at) == Added([k \in Slots |-> Payout(holdings[k], at, today)])

LastMaturity == CHOOSE d \in {holdings[k].maturity : k \in Slots} :
          \A k \in Slots : holdings[k].maturity <= d

(* The end of the line; at or before today everything has matured. *)
End(w) == IF w = All \/ LastMaturity < today + w THEN LastMaturity ELSE today + w

(* holdingsCurve: day -> value; flat over 30 days when all has matured. *)
holdingsCurve(w) ==
  IF End(w) <= today THEN [d \in {today - 30, today} |-> Value(today)]
  ELSE [d \in today .. End(w) |-> Value(d)]

(* accretion, on the bond's page: the whole issue from its cost to face, flat at
   face once matured. *)
Accretion(h) ==
  LET face == h.units * Bps * Scale
      cost == h.units * (Bps - h.rate) * Scale
  IN  IF h.maturity <= today THEN [d \in {h.maturity - 30, h.maturity} |-> face]
      ELSE [d \in today .. h.maturity |->
              cost + ((face - cost) \div (h.maturity - today)) * (d - today)]

(* pricePath, on the bond's card: so many points for one unit, flat at par once
   matured. *)
pricePath(h, steps) ==
  LET p0 == (IF today >= h.maturity THEN Bps ELSE Bps - h.rate) * Scale
  IN  [i \in 0 .. steps |-> p0 + ((Bps * Scale - p0) * i) \div steps]

(* niceTicks, in halves: the labels of the value axis are the multiples of the
   smallest of 1, 2, 2.5, 5 and 10 times a power of ten that is a quarter of the
   range or more. *)
niceTicks(low, high) ==
  LET pow == CHOOSE p \in {2, 20, 200, 2000} : 4 * p <= high - low /\ high - low < 40 * p
      steps == {(b * pow) \div 2 : b \in {2, 4, 5, 10, 20}}
      step == CHOOSE s \in steps :
        high - low <= 4 * s /\ \A t \in steps : t < s => high - low > 4 * t
  IN  {t \in low .. high : t % step = 0}

(* xTickIdx: the points under the labels of the time axis, rounded to whole ones. *)
xTickIdx(points, labels) ==
  LET count == IF labels < 2 THEN 2 ELSE IF labels > 7 THEN 7 ELSE labels
  IN  {(2 * i * (points - 1) + count - 1) \div (2 * (count - 1)) : i \in 0 .. count - 1}

(* Sparkline and PriceChart: the height of a value, of 0 .. full; a flat series is
   drawn on the floor by the one and in the middle by the other. *)
Sparkline(v, low, high, full) ==
  ((v - low) * full) \div (IF high = low THEN 1 ELSE high - low)
PriceChart(v, low, high, full) ==
  IF high = low THEN full \div 2 ELSE ((v - low) * full) \div (high - low)

(* STATUS_TREND of a status, and of the whole line. *)
Climbing(h) == ~h.settled /\ today < h.maturity
Trend == IF \E k \in Slots : Climbing(holdings[k]) THEN "up" ELSE "flat"

-----------------------------------------------------------------------------
(* Time passes, a bond is repaid in part or whole, claimed, or a range picked. *)
NextDay == today < LastDay /\ today' = today + 1 /\ UNCHANGED <<holdings, window>>

Settle(k) ==
  /\ ~holdings[k].settled /\ holdings[k].maturity <= today
  /\ \E c \in Units : c <= holdings[k].units
       /\ holdings' = [holdings EXCEPT ![k].settled = TRUE, ![k].claimable = c]
  /\ UNCHANGED <<today, window>>

ClaimAll(k) ==
  /\ holdings[k].claimable > 0
  /\ holdings' = [holdings EXCEPT ![k].claimable = 0]
  /\ UNCHANGED <<today, window>>

SetRange == \E w \in Windows \cup {All} : w # window /\ window' = w /\ UNCHANGED <<holdings, today>>

PayoffNext == NextDay \/ SetRange \/ \E k \in Slots : Settle(k) \/ ClaimAll(k)

-----------------------------------------------------------------------------
(* What the holdings will have paid: face, or what a settlement really pays. *)
Owed ==
  Added([k \in Slots |->
    Bps * Scale * (IF holdings[k].settled THEN holdings[k].claimable ELSE holdings[k].units)])

(* The line never falls, ends at what the holdings pay when all is drawn, and a
   shorter window "zooms in on the near term without changing a single value on
   the line" (market.ts:251-313), before, between and after the maturities. *)
LineEndsAtWhatIsOwed ==
  LET line == holdingsCurve(window)
      whole == holdingsCurve(All)
  IN  /\ \A d, e \in DOMAIN line : d <= e => line[d] <= line[e]
      /\ \A d \in DOMAIN line : line[d] <= Owed
      /\ \A d \in DOMAIN whole : (\A e \in DOMAIN whole : e <= d) => whole[d] = Owed
      /\ DOMAIN line \subseteq DOMAIN whole
      /\ \A d \in DOMAIN line : line[d] = whole[d]

(* The line is drawn as rising exactly when it climbs: "a green rising line over
   a flat series claims a climb that is not happening" (portfolio.tsx:111-113). *)
TrendIsHonest ==
  LET line == holdingsCurve(window)
  IN  Trend = "up" <=> \E d, e \in DOMAIN line : line[d] < line[e]
(* One number is drawn by one line: what the bond's page and its card show of a
   bond is what the portfolio shows of it ("Two implementations of one number is
   how the two pages came to disagree", marketplace.tsx:49-50, bond-detail.tsx:52-66,
   market.ts:192-199). *)
LinesAgree ==
  \A k \in Slots :
    LET h == holdings[k]
        steps == IF h.maturity > today THEN h.maturity - today ELSE 1
    IN  ~h.settled =>
          /\ \A d \in DOMAIN Accretion(h) : d >= today => Accretion(h)[d] = Payout(h, d, today)
          /\ \A i \in 0 .. steps : h.units * pricePath(h, steps)[i] = Payout(h, today + i, today)
          /\ \A d \in DOMAIN Accretion(h) : d < today => Accretion(h)[d] = Payout(h, today, today)

(* Whatever range is drawn, the value axis has two to five labels inside it, the
   time axis one under each end, and every value is within the box
   (charts.tsx:24-34, 93-102, 122-148). *)
AxesAreReadable ==
  /\ \A low \in {0, 7, 333} : \A range \in 40 .. 4000 :
       Cardinality(niceTicks(low, low + range)) \in 2 .. 5
  /\ \A points \in {2, 24, 96}, labels \in 0 .. 9 :
       /\ {0, points - 1} \subseteq xTickIdx(points, labels)
       /\ xTickIdx(points, labels) \subseteq 0 .. points - 1
  /\ \A low \in {0, 3}, range \in 0 .. 20 : \A v \in low .. low + range :
       /\ Sparkline(v, low, low + range, 102) \in 0 .. 102
       /\ PriceChart(v, low, low + range, 336) \in 0 .. 336
=============================================================================
