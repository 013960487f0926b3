------------------------------ MODULE Api_proofs ------------------------------
(***************************************************************************)
(* What the payment gate, the faucet, the rate limiter and the quote service *)
(* promise, for every number of payloads, claims, keys and quotes, every     *)
(* lifetime and every rate; and what the operator's tools leave behind and   *)
(* say, for any number of invoices, securities, accounts, stops, races and   *)
(* claims.                                                                   *)
(***************************************************************************)
EXTENDS MCApi, Totals_proofs

(* The gate.  *)
On(r, p) == requests[r] # Free /\ requests[r].payload = p
Past(r, p) == On(r, p) /\ requests[r].at # "verify"

(* What the proof needs of the types. *)
GateTyped ==
  /\ now \in Nat
  /\ seen \in [Payloads -> Nat \cup {Never}]
  /\ requests \in [Requests -> {Free} \cup [at: {"verify", "settle", "record"}, payload: Payloads]]
  /\ signedAt \in [Payloads -> Nat \cup {Never}]
  /\ served \in [Payloads -> Nat]

(* Nothing is known of a payload before it is signed, and it is reserved after. *)
InTime(p) ==
  /\ signedAt[p] = Never =>
       seen[p] = Never /\ served[p] = 0 /\ \A r \in Requests : ~On(r, p)
  /\ signedAt[p] # Never => signedAt[p] <= now
  /\ seen[p] # Never => signedAt[p] <= seen[p] /\ seen[p] <= now

(* As long as the facilitator would take it, the replay set holds a payload that
   a request is on or that was served, and one request at most is on it. *)
Held(p) ==
  Valid(p) =>
    /\ \A r, s \in Requests : On(r, p) /\ On(s, p) => r = s
    /\ \A r \in Requests : On(r, p) => seen[p] # Never /\ served[p] = 0
    /\ served[p] # 0 => seen[p] # Never

(* And afterwards too, one request at most has come past verification, of a
   payload that was not served. *)
Once(p) ==
  /\ served[p] <= 1
  /\ \A r, s \in Requests : Past(r, p) /\ Past(s, p) => r = s
  /\ \A r \in Requests : Past(r, p) => served[p] = 0

GateInv == GateTyped /\ \A p \in Payloads : InTime(p) /\ Held(p) /\ Once(p)


ServedOf(y) == {p \in Payloads : PayerOf[p] = y /\ served[p] # 0}

(* What was served or is about to be was settled, and the meters count it. *)
Metered ==
  /\ \A p \in Payloads : served[p] # 0 => p \in ledger
  /\ \A r \in Requests : requests[r].at = "record" => requests[r].payload \in ledger
  /\ \A y \in Payers : usage[y] = Cardinality(ServedOf(y))

(* The faucet. *)
InFlight(c, w) == drips[c] # NoDrip /\ drips[c].wallet = w
LastPaid(w) == paid[w][Len(paid[w])]

(* A slot that is taken was taken by a claim in flight or one that paid. *)
Earned(w) ==
  last[w] # Never =>
    \/ \E c \in Drips : InFlight(c, w) /\ drips[c].since = last[w]
    \/ \E i \in DOMAIN paid[w] : paid[w][i] = last[w]

(* While no receipt was late a claim in flight holds the wallet's slot, alone,
   and came a cooldown after the last one that paid; so will the next. *)
Reserved(c) ==
  drips[c] # NoDrip =>
    LET w == drips[c].wallet
    IN  /\ drips[c].since <= now
        /\ IF Cooldown = 0 THEN drips[c].since = now
             ELSE last[w] = drips[c].since /\ now - drips[c].since < Cooldown
        /\ \A o \in Drips \ {c} : InFlight(o, w) => Cooldown = 0
        /\ paid[w] # <<>> => drips[c].since - LastPaid(w) >= Cooldown
Spaced(w) ==
  paid[w] # <<>> =>
    /\ LastPaid(w) <= now /\ (last[w] = LastPaid(w) \/ now - LastPaid(w) >= Cooldown)
    /\ \A i \in 2 .. Len(paid[w]) : paid[w][i] - paid[w][i - 1] >= Cooldown

FaucetInv ==
  /\ FaucetTypeOK
  /\ \A w \in Claimants : Earned(w)
  /\ timeouts = 0 => (\A c \in Drips : Reserved(c)) /\ (\A w \in Claimants : Spaced(w))

(* The limiter: buckets are touched after the last sweep, or at most IdleTTL
   before it, and the next one is due within a minute. *)
LimitInv ==
  /\ LimitTypeOK /\ now \in Times /\ lastSweep <= now
  /\ answer \in [Keys -> {"none", "served", "limited"}]
  /\ \A k \in Keys : buckets[k] # NoBucket =>
       buckets[k].last < lastSweep + Minute /\ lastSweep - buckets[k].last <= IdleTTL

(* The quotes: what their nonces say, and where the counter is after those of
   this second. *)
Age(i) == Len(quotes) + 1 - i
Low(i, k) == k \in 0 .. CounterMod - 1 /\ quotes[i].nonce = quotes[i].at * CounterMod + k
QuoteInv ==
  /\ QuoteTypeOK /\ now \in Times
  /\ \A i \in DOMAIN quotes :
       /\ quotes[i].at <= now /\ quotes[i].maturity > quotes[i].at
       /\ quotes[i].rate = RateBps(quotes[i].maturity - quotes[i].at)
       /\ \E k \in 0 .. CounterMod - 1 : Low(i, k)
  /\ \A i, j \in DOMAIN quotes : i <= j => quotes[i].at <= quotes[j].at
  /\ \A i \in SignedNow : \E k \in 0 .. CounterMod - 1 : Low(i, k) /\ k + Age(i) \in {counter, counter + CounterMod}
  /\ Cardinality(SignedNow) <= CounterMod
  /\ NoncesUnique

(* What stands still has not begun. *)
Idles ==
  /\ now \in Times
  /\ running # "gate" =>
       /\ seen = [p \in Payloads |-> Never] /\ usage = [y \in Payers |-> 0]
       /\ requests = [r \in Requests |-> Free] /\ signedAt = [p \in Payloads |-> Never]
       /\ ledger = {} /\ served = [p \in Payloads |-> 0]
  /\ running # "faucet" =>
       /\ last = [w \in Claimants |-> Never] /\ drips = [c \in Drips |-> NoDrip]
       /\ paid = [w \in Claimants |-> <<>>] /\ timeouts = 0
  /\ running # "limiter" =>
       /\ buckets = [k \in Keys |-> NoBucket] /\ lastSweep = -Minute /\ verified = {}
       /\ answer = [k \in Keys |-> "none"]
  /\ running # "quotes" => counter = 0 /\ quotes = <<>>

ServicesIInv ==
  /\ Idles
  /\ running = "gate" => GateInv /\ GateTypeOK /\ Metered
  /\ running = "faucet" => FaucetInv
  /\ running = "limiter" => LimitInv
  /\ running = "quotes" => QuoteInv

LEMMA NeverIsNoTime == Never \notin Nat /\ Never \in Int
BY DEF Never

LEMMA FreeIsNoRequest == Free \notin [at: {"verify", "settle", "record"}, payload: Payloads]
BY DEF Free

(* Pruning keeps what the facilitator would still take. *)
LEMMA PruneKeepsValid ==
  ASSUME GateTyped, NEW p \in Payloads, InTime(p), Valid(p),
         NEW s \in [Payloads -> Nat \cup {Never}],
         s[p] # Never, signedAt[p] # Never, signedAt[p] <= s[p]
  PROVE  Prune(s)[p] = s[p]
<1>1. now \in Nat /\ signedAt[p] \in Nat /\ s[p] \in Nat
    BY NeverIsNoTime DEF GateTyped
<1>2. now - s[p] <= MaxTimeout
    BY <1>1, GateAssumption DEF Valid
<1>3. ~(now - s[p] > ReplayTTL)
    BY <1>1, <1>2, GateAssumption
<1> QED
    BY <1>3 DEF Prune

LEMMA PruneTyped ==
  ASSUME GateTyped, NEW s \in [Payloads -> Nat \cup {Never}]
  PROVE  /\ Prune(s) \in [Payloads -> Nat \cup {Never}]
         /\ \A p \in Payloads : Prune(s)[p] \in {s[p], Never}
BY DEF Prune, GateTyped

LEMMA GateInit0 ==
  ASSUME now \in Times, seen = [p \in Payloads |-> Never], usage = [y \in Payers |-> 0],
         requests = [r \in Requests |-> Free], signedAt = [p \in Payloads |-> Never],
         ledger = {}, served = [p \in Payloads |-> 0]
  PROVE  GateInv
BY NeverIsNoTime, ClockAssumption DEF Times, GateInv, GateTyped, InTime, Held, Once, On, Past, Free

LEMMA GateInvSigned ==
  ASSUME GateInv, NEW q \in Payloads, SignPayment(q), UNCHANGED now
  PROVE  GateInv'
<1> USE DEF SignPayment, On, Past, Valid
<1>1. GateTyped'
    BY DEF GateInv, GateTyped
<1>2. ASSUME NEW p \in Payloads PROVE (InTime(p) /\ Held(p) /\ Once(p))'
  <2>0. InTime(p) /\ Held(p) /\ Once(p) /\ GateTyped
      BY DEF GateInv
  <2>1. CASE p = q
    <3>1. signedAt'[p] = now /\ seen'[p] = Never /\ served'[p] = 0
          /\ \A r \in Requests : ~On(r, p)'
        BY <2>0, <2>1 DEF InTime, GateTyped
    <3> QED
        BY <3>1, <2>0, NeverIsNoTime DEF InTime, Held, Once, GateTyped
  <2>2. CASE p # q
    <3>1. signedAt'[p] = signedAt[p]
        BY <2>0, <2>2 DEF GateTyped
    <3> QED
        BY <3>1, <2>0 DEF InTime, Held, Once
  <2> QED
      BY <2>1, <2>2
<1> QED
    BY <1>1, <1>2 DEF GateInv

LEMMA GateInvReserved ==
  ASSUME GateInv, NEW r \in Requests, NEW q \in Payloads, Reserve(r, q), UNCHANGED now
  PROVE  GateInv'
<1> USE DEF Reserve
<1>1. GateTyped'
    BY DEF GateInv, GateTyped
<1>2. ASSUME NEW p \in Payloads PROVE (InTime(p) /\ Held(p) /\ Once(p))'
  <2>0. InTime(p) /\ Held(p) /\ Once(p) /\ GateTyped
      BY DEF GateInv
  <2>1. \A s \in Requests :
          /\ s # r => (On(s, p)' <=> On(s, p)) /\ (Past(s, p)' <=> Past(s, p))
          /\ s = r => (On(s, p)' <=> p = q) /\ ~Past(s, p)' /\ ~On(s, p)
      BY <2>0, FreeIsNoRequest DEF On, Past, GateTyped, Free
  <2>2. seen' = [seen EXCEPT ![q] = now] /\ signedAt' = signedAt /\ served' = served
        /\ now' = now /\ seen[q] = Never /\ signedAt[q] # Never
      OBVIOUS
  <2> HIDE DEF Reserve
  <2>3. InTime(p)'
      BY <2>0, <2>1, <2>2, NeverIsNoTime DEF InTime, GateTyped
  <2>4. Held(p)'
    <3>1. CASE p = q
        BY <2>0, <2>1, <2>2, <3>1, NeverIsNoTime DEF Held, Valid, GateTyped, Once
    <3>2. CASE p # q
        BY <2>0, <2>1, <2>2, <3>2, NeverIsNoTime DEF Held, Valid, GateTyped
    <3> QED
        BY <3>1, <3>2
  <2>5. Once(p)'
      BY <2>0, <2>1, <2>2 DEF Once
  <2> QED
      BY <2>3, <2>4, <2>5
<1> QED
    BY <1>1, <1>2 DEF GateInv

LEMMA GateInvMoved ==
  ASSUME GateInv, NEW r \in Requests, Verified(r) \/ Settled(r), UNCHANGED now
  PROVE  GateInv'
<1> DEFINE q == requests[r].payload
<1>0. /\ GateTyped /\ requests[r] # Free /\ q \in Payloads
      /\ UNCHANGED <<seen, signedAt, served, now>>
      /\ \E at \in {"settle", "record"} : requests' = [requests EXCEPT ![r].at = at]
      /\ requests[r].at # "verify" \/ Valid(q)
    BY FreeIsNoRequest DEF GateInv, GateTyped, Verified, Settled, Moves, Free
<1>1. GateTyped'
    BY <1>0, FreeIsNoRequest DEF GateTyped
<1>2. ASSUME NEW p \in Payloads PROVE (InTime(p) /\ Held(p) /\ Once(p))'
  <2>0. InTime(p) /\ Held(p) /\ Once(p)
      BY DEF GateInv
  <2>1. \A s \in Requests :
          /\ On(s, p)' <=> On(s, p)
          /\ s # r => (Past(s, p)' <=> Past(s, p))
          /\ s = r => (Past(s, p)' <=> p = q)
      BY <1>0, FreeIsNoRequest DEF On, Past, GateTyped, Free
  <2>2. On(r, p) <=> p = q
      BY <1>0 DEF On
  <2>3. Valid(p)' <=> Valid(p)
      BY <1>0 DEF Valid
  <2>4. \A s \in Requests : Past(s, p) => On(s, p)
      BY DEF Past
  <2>5. p = q => Past(r, p) \/ Valid(p)
      BY <1>0, <2>2 DEF Past
  <2>6. InTime(p)'
      BY <1>0, <2>0, <2>1 DEF InTime
  <2>7. Held(p)'
      BY <1>0, <2>0, <2>1, <2>3 DEF Held
  <2>8. Once(p)'
      BY <1>0, <2>0, <2>1, <2>2, <2>4, <2>5 DEF Once, Held
  <2> QED
      BY <2>6, <2>7, <2>8
<1> QED
    BY <1>1, <1>2 DEF GateInv

(* A request that ends leaves its payload to the others. *)
LEMMA GateInvEnded ==
  ASSUME GateInv, NEW r \in Requests, Fails(r) \/ Record(r), UNCHANGED now
  PROVE  GateInv'
<1> DEFINE q == requests[r].payload
<1>0. /\ GateTyped /\ requests[r] # Free /\ q \in Payloads
      /\ requests' = [requests EXCEPT ![r] = Free] /\ UNCHANGED <<signedAt, now>>
    BY FreeIsNoRequest DEF GateInv, GateTyped, Fails, Record, Release, Ends, Free
<1>1. ASSUME NEW p \in Payloads
      PROVE  \A s \in Requests :
               /\ s # r => (On(s, p)' <=> On(s, p)) /\ (Past(s, p)' <=> Past(s, p))
               /\ s = r => ~On(s, p)' /\ ~Past(s, p)' /\ (On(s, p) <=> p = q)
    BY <1>0 DEF On, Past, GateTyped
<1>2. ASSUME NEW p \in Payloads PROVE InTime(p) /\ Held(p) /\ Once(p)
    BY DEF GateInv
<1>3. ASSUME NEW p \in Payloads PROVE Valid(p)' <=> Valid(p)
    BY <1>0 DEF Valid
<1>4. \A s \in Requests, p \in Payloads : Past(s, p) => On(s, p)
    BY DEF Past
<1>5. CASE Fails(r)
  <2>1. seen' = [seen EXCEPT ![q] = Never] /\ served' = served
      BY <1>5 DEF Fails, Release
  <2>2. GateTyped'
      BY <1>0, <2>1 DEF GateTyped
  <2>3. ASSUME NEW p \in Payloads PROVE (InTime(p) /\ Held(p) /\ Once(p))'
    <3>0. InTime(p) /\ Held(p) /\ Once(p)
        BY <1>2
    <3>1. seen'[p] = IF p = q THEN Never ELSE seen[p]
        BY <1>0, <2>1 DEF GateTyped
    <3>2. InTime(p)'
        BY <1>0, <1>1, <2>1, <3>0, <3>1 DEF InTime
    <3>3. Held(p)'
        BY <1>0, <1>1, <1>3, <2>1, <3>0, <3>1 DEF Held
    <3>4. Once(p)'
        BY <1>0, <1>1, <2>1, <3>0 DEF Once
    <3> QED
        BY <3>2, <3>3, <3>4
  <2> QED
      BY <2>2, <2>3 DEF GateInv
<1>6. CASE Record(r)
  <2> DEFINE s0 == [seen EXCEPT ![q] = now]
  <2>1. /\ seen' = Prune(s0) /\ served' = [served EXCEPT ![q] = @ + 1]
        /\ Past(r, q)
      BY <1>0, <1>6 DEF Record, Past, On
  <2>2. s0 \in [Payloads -> Nat \cup {Never}]
      BY <1>0 DEF GateTyped
  <2>3. /\ seen' \in [Payloads -> Nat \cup {Never}]
        /\ \A p \in Payloads : seen'[p] \in {s0[p], Never}
      BY <1>0, <2>1, <2>2, PruneTyped
  <2>4. GateTyped'
    <3>1. served' \in [Payloads -> Nat]
        BY <1>0, <2>1 DEF GateTyped
    <3>2. requests' \in [Requests ->
            {Free} \cup [at: {"verify", "settle", "record"}, payload: Payloads]]
        BY <1>0 DEF GateTyped
    <3> QED
        BY <1>0, <2>3, <3>1, <3>2 DEF GateTyped
  <2>5. ASSUME NEW p \in Payloads PROVE (InTime(p) /\ Held(p) /\ Once(p))'
    <3>0. InTime(p) /\ Held(p) /\ Once(p)
        BY <1>2
    <3>1. served'[p] = IF p = q THEN served[p] + 1 ELSE served[p]
        BY <1>0, <2>1 DEF GateTyped
    <3>2. s0[p] = IF p = q THEN now ELSE seen[p]
        BY <1>0 DEF GateTyped
    <3>3. p = q => signedAt[p] # Never /\ signedAt[p] <= now
        BY <1>0, <1>1, <3>0 DEF InTime
    <3>4. InTime(p)'
        BY <1>0, <1>1, <2>3, <3>0, <3>1, <3>2, <3>3, NeverIsNoTime DEF InTime, GateTyped
    <3>5. Valid(p) /\ s0[p] # Never => seen'[p] # Never
      <4> SUFFICES ASSUME Valid(p), s0[p] # Never PROVE seen'[p] # Never
          OBVIOUS
      <4>1. signedAt[p] # Never /\ signedAt[p] <= s0[p]
          BY <3>0, <3>2, <3>3, NeverIsNoTime DEF InTime
      <4> HIDE DEF s0
      <4> QED
          BY <1>0, <2>1, <2>2, <3>0, <4>1, PruneKeepsValid
    <3> HIDE DEF s0
    <3>6. Held(p)'
      <4>1. CASE p = q
          BY <1>0, <1>1, <1>3, <3>0, <3>1, <3>2, <3>5, <4>1, NeverIsNoTime DEF Held, GateTyped
      <4>2. CASE p # q
          BY <1>0, <1>1, <1>3, <3>0, <3>1, <3>2, <3>5, <4>2 DEF Held
      <4> QED
          BY <4>1, <4>2
    <3>7. Once(p)'
      <4>1. CASE p = q
        <5>1. served[p] = 0 /\ \A s \in Requests : Past(s, p) => s = r
            BY <2>1, <3>0, <4>1 DEF Once
        <5> QED
            BY <1>1, <3>1, <4>1, <5>1 DEF Once
      <4>2. CASE p # q
          BY <1>1, <3>0, <3>1, <4>2 DEF Once
      <4> QED
          BY <4>1, <4>2
    <3> QED
        BY <3>4, <3>6, <3>7
  <2> QED
      BY <2>4, <2>5 DEF GateInv
<1> QED
    BY <1>5, <1>6

(* A payload that has expired stays so. *)
LEMMA GateInvTicked ==
  ASSUME GateInv, Tick, UNCHANGED gateVars
  PROVE  GateInv'
<1>1. now' = now + 1 /\ UNCHANGED <<seen, requests, signedAt, served>>
    BY DEF Tick, gateVars
<1>2. GateTyped /\ GateTyped'
    BY <1>1 DEF GateInv, GateTyped
<1>3. ASSUME NEW p \in Payloads PROVE (InTime(p) /\ Held(p) /\ Once(p))'
  <2>1. InTime(p) /\ Held(p) /\ Once(p)
      BY DEF GateInv
  <2>2. Valid(p)' => Valid(p)
      BY <1>1, <1>2, GateAssumption, NeverIsNoTime DEF Valid, GateTyped
  <2>3. \A r \in Requests : (On(r, p)' <=> On(r, p)) /\ (Past(r, p)' <=> Past(r, p))
      BY <1>1 DEF On, Past
  <2>4. InTime(p)'
      BY <1>1, <1>2, <2>1, <2>3, NeverIsNoTime DEF InTime, GateTyped
  <2> QED
      BY <1>1, <2>1, <2>2, <2>3, <2>4 DEF Held, Once
<1> QED
    BY <1>2, <1>3 DEF GateInv

LEMMA GateStep ==
  ASSUME GateInv, [GateNext]_<<now, gateVars>>
  PROVE  GateInv'
<1>1. CASE GateNext
    BY <1>1, GateInvSigned, GateInvReserved, GateInvMoved, GateInvEnded, GateInvTicked
    DEF GateNext, RequestStep
<1>2. CASE UNCHANGED <<now, gateVars>>
    BY <1>2 DEF gateVars, GateInv, GateTyped, InTime, Held, Once, On, Past, Valid
<1> QED
    BY <1>1, <1>2

(* A payment is served at most once, however requests race, fail and are tried
   again, and whatever is pruned meanwhile (gate.go:127-134, 188-218). *)
THEOREM GateServesOnce == GateSpec => []PaidOnceServedOnce
<1>1. GateInit => GateInv
  BY GateInit0, ClockAssumption DEF GateInit, Times
<1>2. GateInv /\ [GateNext]_<<now, gateVars>> => GateInv'
  BY GateStep
<1>3. GateInv => PaidOnceServedOnce
  BY DEF GateInv, Once, PaidOnceServedOnce
<1> QED
  BY <1>1, <1>2, <1>3, PTL DEF GateSpec

-----------------------------------------------------------------------------
LEMMA NoDripIsNone == NoDrip \notin [at: {"send", "wait"}, wallet: Claimants, since: Times]
BY DEF NoDrip

LEMMA TimesAreNat == Times \subseteq Nat /\ Never \notin Times /\ Never \notin Nat /\ \A t \in Times : t <= MaxTime
BY ClockAssumption DEF Times, Never

(* A claim in flight is one. *)
LEMMA DripIs ==
  ASSUME FaucetTypeOK, NEW c \in Drips, drips[c] # NoDrip
  PROVE  /\ drips[c].wallet \in Claimants /\ drips[c].since \in Times /\ drips[c].since \in Nat
         /\ drips[c].at \in {"send", "wait"}
         /\ drips[c] = [at |-> drips[c].at, wallet |-> drips[c].wallet, since |-> drips[c].since]
BY TimesAreNat DEF FaucetTypeOK

(* The claim a step puts in place of another. *)
LEMMA DripsTake ==
  ASSUME FaucetTypeOK, NEW c \in Drips,
         NEW d \in {NoDrip} \cup [at: {"send", "wait"}, wallet: Claimants, since: Times],
         drips' = [drips EXCEPT ![c] = d]
  PROVE  /\ drips' \in [Drips -> {NoDrip} \cup [at: {"send", "wait"}, wallet: Claimants, since: Times]]
         /\ drips'[c] = d /\ \A o \in Drips \ {c} : drips'[o] = drips[o]
BY DEF FaucetTypeOK

(* What a payment adds to the history. *)
LEMMA PaidGrows ==
  ASSUME FaucetTypeOK, NEW w \in Claimants, NEW t \in Times, Pays(w, t)
  PROVE  /\ paid' \in [Claimants -> Seq(Times)]
         /\ \A v \in Claimants \ {w} : paid'[v] = paid[v]
         /\ Len(paid[w]) \in Nat /\ Len(paid'[w]) = Len(paid[w]) + 1 /\ paid'[w][Len(paid[w]) + 1] = t
         /\ paid'[w] # <<>>
         /\ \A i \in 1 .. Len(paid[w]) : paid'[w][i] = paid[w][i]
<1>1. paid[w] \in Seq(Times) /\ paid'[w] = Append(paid[w], t)
  BY DEF FaucetTypeOK, Pays
<1>2. paid' \in [Claimants -> Seq(Times)] /\ \A v \in Claimants \ {w} : paid'[v] = paid[v]
  BY <1>1 DEF FaucetTypeOK, Pays
<1> QED
  BY <1>1, <1>2

LEMMA SeqOfTimes ==
  ASSUME NEW s \in Seq(Times)
  PROVE  /\ Len(s) \in Nat /\ DOMAIN s = 1 .. Len(s)
         /\ \A i \in 1 .. Len(s) : s[i] \in Nat
         /\ s # <<>> => Len(s) \in 1 .. Len(s)
<1>1. \A i \in 1 .. Len(s) : s[i] \in Times
  OBVIOUS
<1>2. \A i \in 1 .. Len(s) : s[i] \in Nat
  BY <1>1, TimesAreNat
<1> QED
  BY <1>2

LEMMA LastPaidIs ==
  ASSUME FaucetTypeOK, NEW w \in Claimants
  PROVE  /\ Len(paid[w]) \in Nat /\ DOMAIN paid[w] = 1 .. Len(paid[w])
         /\ \A i \in 1 .. Len(paid[w]) : paid[w][i] \in Nat
         /\ paid[w] # <<>> => Len(paid[w]) \in 1 .. Len(paid[w]) /\ LastPaid(w) \in Nat
<1>1. paid[w] \in Seq(Times)
  BY DEF FaucetTypeOK
<1> QED
  BY <1>1, SeqOfTimes DEF LastPaid

LEMMA FaucetInit0 ==
  ASSUME now \in Times, last = [w \in Claimants |-> Never], drips = [c \in Drips |-> NoDrip],
         paid = [w \in Claimants |-> <<>>], timeouts = 0
  PROVE  FaucetInv
<1>1. FaucetTypeOK
  BY FaucetAssumption DEF FaucetTypeOK
<1> QED
  BY <1>1 DEF FaucetInv, Earned, Reserved, Spaced

LEMMA FaucetDrip ==
  ASSUME FaucetInv, NEW c \in Drips, NEW w \in Claimants, Drip(c, w), UNCHANGED now
  PROVE  FaucetInv'
<1> DEFINE d == [at |-> "send", wallet |-> w, since |-> now]
<1>1. FaucetTypeOK
  BY DEF FaucetInv
<1>2. /\ drips[c] = NoDrip /\ drips' = [drips EXCEPT ![c] = d] /\ d \in [at: {"send", "wait"}, wallet: Claimants, since: Times]
      /\ last' = [last EXCEPT ![w] = now] /\ UNCHANGED <<paid, timeouts, now>>
      /\ last[w] = Never \/ now - last[w] >= Cooldown
  BY <1>1 DEF Drip, FaucetTypeOK
<1>3. /\ drips' \in [Drips -> {NoDrip} \cup [at: {"send", "wait"}, wallet: Claimants, since: Times]]
      /\ drips'[c] = d /\ d # NoDrip /\ \A o \in Drips \ {c} : drips'[o] = drips[o]
  BY <1>1, <1>2, DripsTake, NoDripIsNone
<1>4. FaucetTypeOK' /\ last'[w] = now /\ \A v \in Claimants \ {w} : last'[v] = last[v]
  BY <1>1, <1>2, <1>3 DEF FaucetTypeOK
<1>5. d.wallet = w /\ d.since = now
  OBVIOUS
<1> HIDE DEF d
<1>6. ASSUME NEW v \in Claimants PROVE Earned(v)'
  BY <1>2, <1>3, <1>4, <1>5 DEF FaucetInv, Earned, InFlight
<1>7. ASSUME timeouts' = 0 PROVE (\A o \in Drips : Reserved(o)') /\ (\A v \in Claimants : Spaced(v)')
  <2>1. (\A o \in Drips : Reserved(o)) /\ (\A v \in Claimants : Spaced(v))
    BY <1>2, <1>7 DEF FaucetInv
  <2>2. now \in Nat /\ Cooldown \in Nat
    BY <1>1, TimesAreNat, FaucetAssumption DEF FaucetTypeOK
  <2>3. \A v \in Claimants : paid[v] # <<>> => LastPaid(v) \in Nat
    BY <1>1, LastPaidIs
  <2>4. paid[w] # <<>> => now - LastPaid(w) >= Cooldown
    BY <1>2, <2>1, <2>2, <2>3, TimesAreNat DEF Spaced
  <2>5. ASSUME NEW v \in Claimants PROVE Spaced(v)'
    BY <1>2, <1>4, <2>1, <2>2, <2>3, <2>4 DEF Spaced, LastPaid
  <2>6. ASSUME NEW o \in Drips, InFlight(o, w) PROVE Cooldown = 0
    <3>1. drips[o] # NoDrip /\ drips[o].wallet = w
      BY <2>6 DEF InFlight
    <3>2. drips[o].since \in Nat
      BY <1>1, <3>1, DripIs
    <3>3. Cooldown # 0 => last[w] = drips[o].since /\ now - drips[o].since < Cooldown
      BY <2>1, <3>1 DEF Reserved
    <3> QED
      BY <1>2, <2>2, <3>2, <3>3, TimesAreNat
  <2>7. Reserved(c)'
    BY <1>2, <1>3, <1>4, <1>5, <2>2, <2>4, <2>6 DEF Reserved, InFlight, LastPaid
  <2>8. ASSUME NEW o \in Drips \ {c} PROVE Reserved(o)'
    <3>1. CASE drips[o] = NoDrip
      BY <1>3, <3>1 DEF Reserved
    <3>2. CASE drips[o] # NoDrip
      <4>1. drips[o].wallet \in Claimants
        BY <1>1, <3>2, DripIs
      <4>2. drips[o].wallet = w => Cooldown = 0
        BY <2>6, <3>2 DEF InFlight
      <4>3. drips[o].wallet # w => last'[drips[o].wallet] = last[drips[o].wallet]
        BY <1>4, <4>1
      <4> QED
        BY <1>2, <1>3, <1>5, <2>1, <3>2, <4>2, <4>3 DEF Reserved, InFlight, LastPaid
    <3> QED
      BY <3>1, <3>2
  <2> QED
    BY <2>5, <2>7, <2>8
<1> QED
  BY <1>4, <1>6, <1>7 DEF FaucetInv

LEMMA FaucetSend ==
  ASSUME FaucetInv, NEW c \in Drips, Send(c), UNCHANGED now
  PROVE  FaucetInv'
<1> DEFINE d == [at |-> "wait", wallet |-> drips[c].wallet, since |-> drips[c].since]
<1>1. FaucetTypeOK /\ drips[c] # NoDrip
  BY DEF FaucetInv, Send, NoDrip
<1>2. d \in [at: {"send", "wait"}, wallet: Claimants, since: Times]
  BY <1>1, DripIs
<1>11. drips[c] = [at |-> drips[c].at, wallet |-> drips[c].wallet, since |-> drips[c].since]
  BY <1>1, DripIs
<1>3. [drips[c] EXCEPT !.at = "wait"] = d
  BY <1>11
<1>4. drips' = [drips EXCEPT ![c] = d] /\ UNCHANGED <<last, paid, timeouts, now>>
  BY <1>3 DEF Send
<1>5. d.wallet = drips[c].wallet /\ d.since = drips[c].since /\ d # NoDrip
  BY <1>2, NoDripIsNone
<1> HIDE DEF d
<1>6. /\ drips' \in [Drips -> {NoDrip} \cup [at: {"send", "wait"}, wallet: Claimants, since: Times]]
      /\ drips'[c] = d /\ \A o \in Drips \ {c} : drips'[o] = drips[o]
  BY <1>1, <1>2, <1>4, DripsTake
<1>7. FaucetTypeOK'
  BY <1>1, <1>4, <1>6 DEF FaucetTypeOK
<1>8. \A o \in Drips :
        /\ drips'[o] # NoDrip <=> drips[o] # NoDrip
        /\ drips'[o].wallet = drips[o].wallet /\ drips'[o].since = drips[o].since
  BY <1>1, <1>5, <1>6
<1>9. ASSUME NEW w \in Claimants PROVE (Earned(w) => Earned(w)') /\ (Spaced(w) => Spaced(w)')
  <2>1. \A b \in Drips : InFlight(b, w)' <=> InFlight(b, w)
    BY <1>8 DEF InFlight
  <2> QED
    BY <1>4, <1>8, <2>1 DEF Earned, Spaced, LastPaid
<1>10. ASSUME NEW o \in Drips, Reserved(o) PROVE Reserved(o)'
  <2>1. \A b \in Drips : \A w : InFlight(b, w)' <=> InFlight(b, w)
    BY <1>8 DEF InFlight
  <2>2. \A w : LastPaid(w)' = LastPaid(w)
    BY <1>4 DEF LastPaid
  <2> QED
    BY <1>4, <1>8, <1>10, <2>1, <2>2 DEF Reserved
<1> QED
  BY <1>4, <1>7, <1>9, <1>10 DEF FaucetInv

(* A claim that paid. *)
LEMMA FaucetMined ==
  ASSUME FaucetInv, NEW c \in Drips, Mined(c), UNCHANGED now
  PROVE  FaucetInv'
<1>1. FaucetTypeOK /\ drips[c] # NoDrip
  BY DEF FaucetInv, Mined, NoDrip
<1>2. PICK w \in Claimants, t \in Times : w = drips[c].wallet /\ t = drips[c].since
  BY <1>1, DripIs
<1>3. Pays(w, t) /\ drips' = [drips EXCEPT ![c] = NoDrip] /\ UNCHANGED <<last, timeouts, now>>
  BY <1>2 DEF Mined, Done
<1>4. /\ drips' \in [Drips -> {NoDrip} \cup [at: {"send", "wait"}, wallet: Claimants, since: Times]]
      /\ drips'[c] = NoDrip /\ \A o \in Drips \ {c} : drips'[o] = drips[o]
  BY <1>1, <1>3, DripsTake
<1>5. /\ paid' \in [Claimants -> Seq(Times)]
      /\ \A v \in Claimants \ {w} : paid'[v] = paid[v]
      /\ Len(paid[w]) \in Nat /\ Len(paid'[w]) = Len(paid[w]) + 1 /\ paid'[w][Len(paid[w]) + 1] = t
      /\ paid'[w] # <<>>
      /\ \A i \in 1 .. Len(paid[w]) : paid'[w][i] = paid[w][i]
  BY <1>1, <1>3, PaidGrows
<1>6. FaucetTypeOK'
  BY <1>1, <1>3, <1>4, <1>5 DEF FaucetTypeOK
<1>7. /\ DOMAIN paid'[w] = 1 .. Len(paid[w]) + 1 /\ DOMAIN paid[w] = 1 .. Len(paid[w])
      /\ LastPaid(w)' = t /\ \A v \in Claimants \ {w} : LastPaid(v)' = LastPaid(v)
  BY <1>1, <1>5, <1>6, SeqOfTimes DEF FaucetTypeOK, LastPaid
<1>8. /\ t \in Nat /\ now \in Nat /\ Cooldown \in Nat
      /\ paid[w] # <<>> => Len(paid[w]) \in 1 .. Len(paid[w]) /\ LastPaid(w) \in Nat
      /\ \A i \in 1 .. Len(paid[w]) : paid[w][i] \in Nat
      /\ paid[w] = <<>> => Len(paid[w]) = 0
  BY <1>1, TimesAreNat, FaucetAssumption, LastPaidIs DEF FaucetTypeOK
<1>9. ASSUME NEW v \in Claimants PROVE Earned(v)'
  <2>1. CASE v = w
    <3>1. /\ \A i \in DOMAIN paid[w] : i \in DOMAIN paid'[w] /\ paid'[w][i] = paid[w][i]
          /\ Len(paid[w]) + 1 \in DOMAIN paid'[w]
      BY <1>5, <1>7
    <3>2. \A o \in Drips : InFlight(o, w) => o = c \/ (InFlight(o, w)' /\ drips'[o] = drips[o])
      BY <1>4 DEF InFlight
    <3>3. last'[w] # Never => (\E o \in Drips : InFlight(o, w) /\ drips[o].since = last[w])
                                \/ \E i \in DOMAIN paid[w] : paid[w][i] = last[w]
      BY <1>3 DEF FaucetInv, Earned
    <3> QED
      BY <1>2, <1>3, <1>5, <2>1, <3>1, <3>2, <3>3 DEF Earned
  <2>2. CASE v # w
    <3>1. paid'[v] = paid[v] /\ last'[v] = last[v]
      BY <1>3, <1>5, <2>2
    <3>2. \A o \in Drips : InFlight(o, v) => InFlight(o, v)' /\ drips'[o] = drips[o]
      BY <1>2, <1>4, <2>2 DEF InFlight
    <3> QED
      BY <3>1, <3>2 DEF FaucetInv, Earned
  <2> QED
    BY <2>1, <2>2
<1>10. ASSUME timeouts' = 0 PROVE (\A o \in Drips : Reserved(o)') /\ (\A v \in Claimants : Spaced(v)')
  <2>1. (\A o \in Drips : Reserved(o)) /\ (\A v \in Claimants : Spaced(v))
    BY <1>3, <1>10 DEF FaucetInv
  <2>2. /\ t <= now /\ IF Cooldown = 0 THEN t = now ELSE last[w] = t
        /\ \A o \in Drips \ {c} : InFlight(o, w) => Cooldown = 0
        /\ paid[w] # <<>> => t - LastPaid(w) >= Cooldown
    BY <1>1, <1>2, <2>1 DEF Reserved
  <2>3. ASSUME NEW v \in Claimants PROVE Spaced(v)'
    <3>1. CASE v = w
      <4>1. \A i \in 2 .. Len(paid'[w]) : paid'[w][i] - paid'[w][i - 1] >= Cooldown
        <5>1. ASSUME NEW i \in 2 .. Len(paid[w]) PROVE paid'[w][i] - paid'[w][i - 1] >= Cooldown
          <6>1. i \in 1 .. Len(paid[w]) /\ i - 1 \in 1 .. Len(paid[w]) /\ paid[w] # <<>>
            BY <1>5, <1>8
          <6>2. paid[w][i] - paid[w][i - 1] >= Cooldown
            BY <2>1, <6>1 DEF Spaced
          <6> QED
            BY <1>5, <6>1, <6>2
        <5>2. paid[w] # <<>> => paid'[w][Len(paid[w])] = LastPaid(w)
          BY <1>5, <1>8 DEF LastPaid
        <5>3. ASSUME NEW i \in 2 .. Len(paid'[w]), i = Len(paid[w]) + 1
              PROVE  paid'[w][i] - paid'[w][i - 1] >= Cooldown
          BY <1>5, <1>8, <2>2, <5>2, <5>3
        <5>4. \A i \in 2 .. Len(paid'[w]) : i \in 2 .. Len(paid[w]) \/ i = Len(paid[w]) + 1
          BY <1>5
        <5> QED
          BY <5>1, <5>3, <5>4
      <4>2. LastPaid(w)' <= now' /\ (last'[w] = LastPaid(w)' \/ now' - LastPaid(w)' >= Cooldown)
        BY <1>3, <1>7, <1>8, <2>2
      <4> QED
        BY <3>1, <4>1, <4>2 DEF Spaced
    <3>2. CASE v # w
      BY <1>3, <1>5, <1>7, <2>1, <3>2 DEF Spaced
    <3> QED
      BY <3>1, <3>2
  <2>4. ASSUME NEW o \in Drips, drips'[o] # NoDrip PROVE Reserved(o)'
    <3>1. o # c /\ drips'[o] = drips[o] /\ drips[o].wallet \in Claimants
      BY <1>1, <1>4, <2>4, DripIs
    <3>2. Reserved(o) /\ (drips[o].wallet = w => Cooldown = 0)
      BY <2>1, <2>2, <2>4, <3>1 DEF InFlight
    <3>3. drips[o].wallet = w => drips[o].since = now
      BY <2>4, <3>1, <3>2 DEF Reserved
    <3>4. \A b \in Drips : \A v : InFlight(b, v)' => InFlight(b, v)
      BY <1>4 DEF InFlight
    <3>5. CASE drips[o].wallet = w
      BY <1>3, <1>7, <1>8, <2>2, <2>4, <3>1, <3>2, <3>3, <3>5 DEF Reserved
    <3>6. CASE drips[o].wallet # w
      BY <1>3, <1>5, <1>7, <2>4, <3>1, <3>2, <3>4, <3>6 DEF Reserved
    <3> QED
      BY <3>5, <3>6
  <2>5. ASSUME NEW o \in Drips PROVE Reserved(o)'
    BY <2>4 DEF Reserved
  <2> QED
    BY <2>3, <2>5
<1> QED
  BY <1>6, <1>9, <1>10 DEF FaucetInv

(* A claim that gives its slot back, with or without having paid. *)
LEMMA FaucetFails ==
  ASSUME FaucetInv, NEW c \in Drips, DripFails(c), UNCHANGED now
  PROVE  FaucetInv'
<1>1. FaucetTypeOK /\ drips[c] # NoDrip
  BY DEF FaucetInv, DripFails
<1>2. PICK w \in Claimants, t \in Times : w = drips[c].wallet /\ t = drips[c].since
  BY <1>1, DripIs
<1>3. last' = [last EXCEPT ![w] = Never] /\ drips' = [drips EXCEPT ![c] = NoDrip] /\ UNCHANGED <<paid, timeouts, now>>
  BY <1>2 DEF DripFails, Done
<1>4. /\ drips' \in [Drips -> {NoDrip} \cup [at: {"send", "wait"}, wallet: Claimants, since: Times]]
      /\ drips'[c] = NoDrip /\ \A o \in Drips \ {c} : drips'[o] = drips[o]
  BY <1>1, <1>3, DripsTake
<1>5. FaucetTypeOK' /\ last'[w] = Never /\ \A v \in Claimants \ {w} : last'[v] = last[v]
  BY <1>1, <1>3, <1>4 DEF FaucetTypeOK
<1>6. ASSUME NEW v \in Claimants PROVE Earned(v)'
  BY <1>2, <1>3, <1>4, <1>5 DEF FaucetInv, Earned, InFlight
<1>7. ASSUME timeouts' = 0 PROVE (\A o \in Drips : Reserved(o)') /\ (\A v \in Claimants : Spaced(v)')
  <2>1. (\A o \in Drips : Reserved(o)) /\ (\A v \in Claimants : Spaced(v))
    BY <1>3, <1>7 DEF FaucetInv
  <2>2. /\ t <= now /\ \A o \in Drips \ {c} : InFlight(o, w) => Cooldown = 0
        /\ paid[w] # <<>> => t - LastPaid(w) >= Cooldown
    BY <1>1, <1>2, <2>1 DEF Reserved
  <2>3. /\ t \in Nat /\ now \in Nat /\ Cooldown \in Nat
        /\ paid[w] # <<>> => LastPaid(w) \in Nat
    BY <1>1, TimesAreNat, FaucetAssumption, LastPaidIs DEF FaucetTypeOK
  <2>4. \A v : LastPaid(v)' = LastPaid(v)
    BY <1>3 DEF LastPaid
  <2>5. ASSUME NEW v \in Claimants PROVE Spaced(v)'
    <3>1. v = w /\ paid[w] # <<>> => now - LastPaid(w) >= Cooldown
      BY <2>2, <2>3
    <3> QED
      BY <1>3, <1>5, <2>1, <2>4, <3>1 DEF Spaced
  <2>6. ASSUME NEW o \in Drips, drips'[o] # NoDrip PROVE Reserved(o)'
    <3>1. o # c /\ drips'[o] = drips[o] /\ drips[o].wallet \in Claimants
      BY <1>1, <1>4, <2>6, DripIs
    <3>2. Reserved(o) /\ (drips[o].wallet = w => Cooldown = 0)
      BY <2>1, <2>2, <2>6, <3>1 DEF InFlight
    <3>3. \A b \in Drips : \A v : InFlight(b, v)' => InFlight(b, v)
      BY <1>4 DEF InFlight
    <3> QED
      BY <1>3, <1>5, <2>4, <2>6, <3>1, <3>2, <3>3 DEF Reserved
  <2>7. ASSUME NEW o \in Drips PROVE Reserved(o)'
    BY <2>6 DEF Reserved
  <2> QED
    BY <2>5, <2>7
<1> QED
  BY <1>5, <1>6, <1>7 DEF FaucetInv

LEMMA FaucetLate ==
  ASSUME FaucetInv, NEW c \in Drips, ReceiptLate(c), UNCHANGED now
  PROVE  FaucetInv'
<1>1. FaucetTypeOK /\ drips[c] # NoDrip
  BY DEF FaucetInv, ReceiptLate, NoDrip
<1>2. PICK w \in Claimants, t \in Times : w = drips[c].wallet /\ t = drips[c].since
  BY <1>1, DripIs
<1>3. /\ last' = [last EXCEPT ![w] = Never] /\ drips' = [drips EXCEPT ![c] = NoDrip] /\ now' = now
      /\ Pays(w, t) /\ timeouts < MaxTimeouts /\ timeouts' = timeouts + 1
  BY <1>2 DEF ReceiptLate, Done
<1>4. /\ drips' \in [Drips -> {NoDrip} \cup [at: {"send", "wait"}, wallet: Claimants, since: Times]]
      /\ \A o \in Drips \ {c} : drips'[o] = drips[o]
  BY <1>1, <1>3, DripsTake
<1>5. /\ paid' \in [Claimants -> Seq(Times)] /\ Len(paid[w]) \in Nat
      /\ \A v \in Claimants \ {w} : paid'[v] = paid[v]
  BY <1>1, <1>3, PaidGrows
<1>8. timeouts' \in 0 .. MaxTimeouts /\ timeouts' # 0
  BY <1>1, <1>3, FaucetAssumption DEF FaucetTypeOK
<1>9. /\ last' \in [Claimants -> Times \cup {Never}] /\ last'[w] = Never
      /\ \A v \in Claimants \ {w} : last'[v] = last[v]
  BY <1>1, <1>3 DEF FaucetTypeOK
<1>6. FaucetTypeOK' /\ last'[w] = Never /\ (\A v \in Claimants \ {w} : last'[v] = last[v]) /\ timeouts' # 0
  BY <1>1, <1>3, <1>4, <1>5, <1>8, <1>9 DEF FaucetTypeOK
<1>7. ASSUME NEW v \in Claimants PROVE Earned(v)'
  <2>1. CASE v = w
    BY <1>6, <2>1 DEF Earned
  <2>2. CASE v # w
    <3>1. paid'[v] = paid[v] /\ last'[v] = last[v]
      BY <1>5, <1>6, <2>2
    <3>2. \A o \in Drips : InFlight(o, v) => InFlight(o, v)' /\ drips'[o] = drips[o]
      BY <1>2, <1>4, <2>2 DEF InFlight
    <3> QED
      BY <3>1, <3>2 DEF FaucetInv, Earned
  <2> QED
    BY <2>1, <2>2
<1> QED
  BY <1>6, <1>7 DEF FaucetInv

(* Time passes for the faucet: what is due stays due. *)
LEMMA FaucetTick ==
  ASSUME FaucetInv, Tick, UNCHANGED faucetVars, DripsAreShort'
  PROVE  FaucetInv'
<1>1. FaucetTypeOK /\ now' = now + 1 /\ now < MaxTime /\ UNCHANGED <<last, drips, paid, timeouts>>
  BY DEF FaucetInv, Tick, faucetVars
<1>2. now \in Nat /\ now' \in Times /\ Cooldown \in Nat
  BY <1>1, ClockAssumption, FaucetAssumption DEF FaucetTypeOK, Times
<1>3. FaucetTypeOK'
  BY <1>1, <1>2 DEF FaucetTypeOK
<1>4. \A w \in Claimants : Earned(w) => Earned(w)'
  BY <1>1 DEF Earned, InFlight
<1>5. \A w : LastPaid(w)' = LastPaid(w)
  BY <1>1 DEF LastPaid
<1>6. ASSUME NEW w \in Claimants, Spaced(w) PROVE Spaced(w)'
  <2>1. paid[w] # <<>> => LastPaid(w) \in Nat
    BY <1>1, LastPaidIs
  <2>2. paid[w] # <<>> => LastPaid(w) <= now' /\ (last[w] = LastPaid(w) \/ now' - LastPaid(w) >= Cooldown)
    BY <1>1, <1>2, <1>6, <2>1 DEF Spaced
  <2> QED
    BY <1>1, <1>5, <1>6, <2>2 DEF Spaced
<1>7. ASSUME NEW c \in Drips, Reserved(c), drips[c] # NoDrip PROVE Reserved(c)'
  <2>1. drips[c].since \in Nat /\ now' - drips[c].since < Cooldown
    BY <1>1, <1>7, DripIs DEF DripsAreShort
  <2>2. drips[c].since <= now' /\ Cooldown # 0
    BY <1>1, <1>2, <1>7, <2>1 DEF Reserved
  <2>3. \A b \in Drips : \A v : InFlight(b, v)' <=> InFlight(b, v)
    BY <1>1 DEF InFlight
  <2> QED
    BY <1>1, <1>5, <1>7, <2>1, <2>2, <2>3 DEF Reserved
<1>8. ASSUME NEW c \in Drips, Reserved(c) PROVE Reserved(c)'
  BY <1>1, <1>7, <1>8 DEF Reserved
<1> QED
  BY <1>1, <1>3, <1>4, <1>6, <1>8 DEF FaucetInv

LEMMA FaucetSame ==
  ASSUME FaucetInv, UNCHANGED <<now, faucetVars>>
  PROVE  FaucetInv'
BY DEF FaucetInv, FaucetTypeOK, Earned, Reserved, Spaced, InFlight, LastPaid, faucetVars

LEMMA FaucetStep ==
  ASSUME FaucetInv, [FaucetNext]_<<now, faucetVars>>
  PROVE  FaucetInv'
BY FaucetDrip, FaucetSend, FaucetMined, FaucetFails, FaucetLate, FaucetTick, FaucetSame DEF FaucetNext

LEMMA FaucetPromises == FaucetInv => OncePerCooldown /\ SlotsAreEarned
<1> SUFFICES ASSUME FaucetInv PROVE OncePerCooldown /\ SlotsAreEarned
  OBVIOUS
<1>1. OncePerCooldown
  <2> SUFFICES ASSUME timeouts = 0, NEW w \in Claimants, NEW i \in 2 .. Len(paid[w])
               PROVE  paid[w][i] - paid[w][i - 1] >= Cooldown
    BY DEF OncePerCooldown
  <2>1. FaucetTypeOK /\ Spaced(w)
    BY DEF FaucetInv
  <2>2. paid[w] # <<>>
    BY <2>1, LastPaidIs
  <2> QED
    BY <2>1, <2>2 DEF Spaced
<1>2. SlotsAreEarned
  BY DEF FaucetInv, Earned, InFlight, SlotsAreEarned
<1> QED
  BY <1>1, <1>2

(* The faucet pays a wallet once per cooldown unless a receipt came late, and
   makes none wait for a claim that failed. *)
THEOREM FaucetPaysOncePerCooldown == FaucetSpec => [](OncePerCooldown /\ SlotsAreEarned)
<1>1. FaucetInit => FaucetInv
  BY FaucetInit0, ClockAssumption DEF FaucetInit, Times
<1>2. FaucetInv /\ [FaucetNext]_<<now, faucetVars>> => FaucetInv'
  BY FaucetStep
<1> QED
  BY <1>1, <1>2, FaucetPromises, PTL DEF FaucetSpec

-----------------------------------------------------------------------------
(* The rate of a longer tenor is not lower. *)
LEMMA RateIsMonotone ==
  ASSUME NEW t \in Nat, NEW u \in Nat, t <= u
  PROVE  /\ RateBps(t) \in Nat /\ RateBps(t) \in BaseRate .. MaxRate
         /\ RateBps(t) <= RateBps(u)
<1>1. {BaseRate, StepRate, MaxRate} \subseteq Nat /\ Step \in Nat \ {0} /\ BaseRate <= MaxRate
  BY QuoteAssumption
<1> DEFINE a == t \div Step
           b == u \div Step
<1>2. a \in Nat /\ b \in Nat /\ a <= b
  BY <1>1
<1> HIDE DEF a, b
<1>3. StepRate * a \in Nat /\ StepRate * b \in Nat /\ StepRate * a <= StepRate * b
  BY <1>1, <1>2
<1>4. /\ RateBps(t) = IF BaseRate + StepRate * a > MaxRate THEN MaxRate ELSE BaseRate + StepRate * a
      /\ RateBps(u) = IF BaseRate + StepRate * b > MaxRate THEN MaxRate ELSE BaseRate + StepRate * b
  BY DEF RateBps, a, b
<1> QED
  BY <1>1, <1>3, <1>4

(* A nonce of an earlier second is below every one of a later second. *)
LEMMA NoncesGrow ==
  ASSUME NEW M \in Nat \ {0}, NEW a \in Nat, NEW b \in Nat, a < b,
         NEW k \in 0 .. M - 1, NEW l \in 0 .. M - 1
  PROVE  a * M + k < b * M + l
<1>1. a + 1 <= b
  OBVIOUS
<1>2. (a + 1) * M <= b * M
  BY <1>1
<1>3. (a + 1) * M = a * M + M
  OBVIOUS
<1>4. a * M \in Nat /\ b * M \in Nat
  OBVIOUS
<1> QED
  BY <1>2, <1>3, <1>4

LEMMA CounterWraps ==
  ASSUME NEW M \in Nat \ {0}, NEW k \in 0 .. M - 1
  PROVE  (k + 1) % M = IF k = M - 1 THEN 0 ELSE k + 1
<1>1. CASE k = M - 1
  BY <1>1
<1>2. CASE k + 1 < M
  BY <1>2
<1> QED
  BY <1>1, <1>2

LEMMA QuoteIs ==
  ASSUME QuoteTypeOK, now \in Times
  PROVE  /\ now \in Nat /\ Len(quotes) \in Nat /\ DOMAIN quotes = 1 .. Len(quotes)
         /\ CounterMod \in Nat \ {0} /\ counter \in 0 .. CounterMod - 1 /\ counter \in Nat
         /\ \A i \in 1 .. Len(quotes) :
              quotes[i] \in Quote /\ quotes[i].at \in Nat /\ quotes[i].nonce \in Nat
              /\ quotes[i].maturity \in Nat
         /\ IsFiniteSet(SignedNow) /\ SignedNow \subseteq 1 .. Len(quotes)
         /\ Cardinality(SignedNow) \in Nat
<1>1. quotes \in Seq(Quote) /\ Times \subseteq Nat /\ Maturities \subseteq Nat
  BY TimesAreNat, QuoteAssumption DEF QuoteTypeOK
<1>2. Len(quotes) \in Nat /\ DOMAIN quotes = 1 .. Len(quotes)
      /\ \A i \in 1 .. Len(quotes) : quotes[i] \in Quote
  BY <1>1
<1>3. \A q \in Quote : q.at \in Nat /\ q.nonce \in Nat /\ q.maturity \in Nat
  BY <1>1 DEF Quote
<1>4. SignedNow \subseteq 1 .. Len(quotes) /\ IsFiniteSet(1 .. Len(quotes))
  BY <1>2, FS_Interval DEF SignedNow
<1>5. IsFiniteSet(SignedNow) /\ Cardinality(SignedNow) \in Nat
  BY <1>4, FS_Subset, FS_CardinalityType
<1> QED
  BY <1>1, <1>2, <1>3, <1>4, <1>5, QuoteAssumption DEF QuoteTypeOK

(* The quotes of this second are the last ones. *)
LEMMA SignedAreLast ==
  ASSUME QuoteInv, NEW i \in SignedNow
  PROVE  Age(i) \in 1 .. Cardinality(SignedNow)
<1>1. /\ now \in Nat /\ Len(quotes) \in Nat /\ DOMAIN quotes = 1 .. Len(quotes)
      /\ i \in 1 .. Len(quotes) /\ quotes[i].at = now
      /\ IsFiniteSet(SignedNow) /\ Cardinality(SignedNow) \in Nat
      /\ \A j \in 1 .. Len(quotes) : quotes[j].at \in Nat
  BY QuoteIs DEF QuoteInv, SignedNow
<1>2. \A j \in i .. Len(quotes) : j \in SignedNow
  <2> TAKE j \in i .. Len(quotes)
  <2>1. j \in 1 .. Len(quotes) /\ i <= j /\ quotes[j].at \in Nat
    BY ONLY <1>1
  <2>2. quotes[i].at <= quotes[j].at /\ quotes[j].at <= now
    BY ONLY QuoteInv, <1>1, <2>1 DEF QuoteInv
  <2>3. quotes[j].at = now
    BY ONLY <1>1, <2>1, <2>2
  <2> QED
    BY ONLY <1>1, <2>1, <2>3 DEF SignedNow
<1>3. IsFiniteSet(i .. Len(quotes)) /\ Cardinality(i .. Len(quotes)) = Len(quotes) - i + 1
  BY <1>1, FS_Interval
<1>4. i .. Len(quotes) \subseteq SignedNow
  BY <1>2
<1>5. Cardinality(i .. Len(quotes)) <= Cardinality(SignedNow)
  BY <1>1, <1>4, FS_Subset
<1> QED
  BY <1>1, <1>3, <1>5 DEF Age

LEMMA QuoteInit0 ==
  ASSUME now \in Times, counter = 0, quotes = <<>>
  PROVE  QuoteInv
<1>1. SignedNow = {}
  BY DEF SignedNow
<1>2. QuoteTypeOK
  BY QuoteAssumption DEF QuoteTypeOK
<1>3. Cardinality(SignedNow) <= CounterMod
  BY <1>1, FS_EmptySet, QuoteAssumption
<1> QED
  BY <1>1, <1>2, <1>3 DEF QuoteInv, NoncesUnique

LEMMA QuoteSigned ==
  ASSUME QuoteInv, NEW m \in Maturities, SignQuote(m), UNCHANGED now
  PROVE  QuoteInv'
<1> DEFINE q == [maturity |-> m, rate |-> RateBps(m - now), validUntil |-> now + Validity,
                 nonce |-> NextNonce, at |-> now]
           n == Len(quotes)
<1>1. /\ now \in Nat /\ now \in Times /\ n \in Nat /\ DOMAIN quotes = 1 .. n
      /\ CounterMod \in Nat \ {0} /\ counter \in 0 .. CounterMod - 1 /\ counter \in Nat
      /\ \A i \in 1 .. n : quotes[i].at \in Nat /\ quotes[i].at <= now /\ quotes[i].nonce \in Nat
      /\ IsFiniteSet(SignedNow) /\ SignedNow \subseteq 1 .. n /\ Cardinality(SignedNow) \in Nat
      /\ quotes \in Seq(Quote)
  BY QuoteIs DEF QuoteInv, QuoteTypeOK
<1>2. /\ m > now /\ Cardinality(SignedNow) < CounterMod
      /\ quotes' = Append(quotes, q) /\ counter' = (counter + 1) % CounterMod /\ now' = now
  BY DEF SignQuote
<1>3. m \in Nat /\ Validity \in Nat
  BY QuoteAssumption
<1>4. m - now \in Nat /\ RateBps(m - now) \in Nat
  BY <1>1, <1>2, <1>3, RateIsMonotone
<1>5. NextNonce \in Nat /\ NextNonce = now * CounterMod + counter
  BY <1>1 DEF NextNonce
<1>6. q \in Quote /\ q.at = now /\ q.nonce = NextNonce /\ q.maturity = m /\ q.rate = RateBps(m - now)
  BY <1>1, <1>3, <1>4, <1>5 DEF Quote
<1> HIDE DEF q
<1>7. /\ quotes' \in Seq(Quote) /\ Len(quotes') = n + 1 /\ DOMAIN quotes' = 1 .. n + 1
      /\ quotes'[n + 1] = q /\ \A i \in 1 .. n : quotes'[i] = quotes[i]
  BY <1>1, <1>2, <1>6
<1>8. counter' = IF counter = CounterMod - 1 THEN 0 ELSE counter + 1
  BY <1>1, <1>2, CounterWraps
<1>9. QuoteTypeOK' /\ now' \in Times
  BY <1>1, <1>2, <1>7, <1>8 DEF QuoteTypeOK
<1> HIDE DEF n
<1>10. SignedNow' = SignedNow \cup {n + 1} /\ n + 1 \notin SignedNow
  BY <1>1, <1>2, <1>6, <1>7 DEF SignedNow
<1>11. Cardinality(SignedNow') = Cardinality(SignedNow) + 1
  BY <1>1, <1>10, FS_AddElement
<1>12. \A i \in 1 .. n : \A k : Low(i, k)' <=> Low(i, k)
  BY <1>7 DEF Low
<1>13. \A k \in 0 .. CounterMod - 1 : \A i : k = counter /\ i = n + 1 => Low(i, k)'
  BY <1>1, <1>2, <1>5, <1>6, <1>7 DEF Low
<1>14. \A i \in 1 .. n : Age(i) \in Int /\ Age(i)' = Age(i) + 1
  BY <1>1, <1>7 DEF Age, n
<1>15. \A i : i = n + 1 => Age(i)' = 1
  BY <1>1, <1>7 DEF Age
<1>16. ASSUME NEW i \in DOMAIN quotes'
       PROVE  /\ quotes'[i].at <= now' /\ quotes'[i].maturity > quotes'[i].at
              /\ quotes'[i].rate = RateBps(quotes'[i].maturity - quotes'[i].at)
              /\ \E k \in 0 .. CounterMod - 1 : Low(i, k)'
  <2>1. CASE i \in 1 .. n
    BY <1>1, <1>2, <1>7, <1>12, <2>1 DEF QuoteInv
  <2>2. CASE i = n + 1
    BY <1>1, <1>2, <1>6, <1>7, <1>13, <2>2
  <2> QED
    BY <1>1, <1>7, <2>1, <2>2
<1>17. \A i, j \in DOMAIN quotes' : i <= j => quotes'[i].at <= quotes'[j].at
  <2>1. \A i, j \in 1 .. n : i <= j => quotes[i].at <= quotes[j].at
    BY <1>1 DEF QuoteInv
  <2> QED
    BY <1>1, <1>6, <1>7, <2>1
<1>18. ASSUME NEW i \in SignedNow'
       PROVE  \E k \in 0 .. CounterMod - 1 : Low(i, k)' /\ k + Age(i)' \in {counter', counter' + CounterMod}
  <2>1. CASE i = n + 1
    <3>1. PICK k \in 0 .. CounterMod - 1 : k = counter
      BY <1>1
    <3>2. Low(i, k)' /\ Age(i)' = 1
      BY <1>13, <1>15, <2>1, <3>1
    <3>3. k + 1 \in {counter', counter' + CounterMod}
      BY <1>1, <1>8, <3>1
    <3> QED
      BY <3>2, <3>3
  <2>2. CASE i \in SignedNow
    <3>1. PICK k \in 0 .. CounterMod - 1 : Low(i, k) /\ k + Age(i) \in {counter, counter + CounterMod}
      BY <2>2 DEF QuoteInv
    <3>2. Age(i) \in 1 .. Cardinality(SignedNow) /\ i \in 1 .. n
      BY <1>1, <2>2, SignedAreLast
    <3>3. k + Age(i)' \in {counter', counter' + CounterMod}
      <4>1. PICK a \in 1 .. Cardinality(SignedNow) : a = Age(i)
        BY <3>2
      <4>2. a \in Nat /\ a < CounterMod /\ Age(i)' = a + 1 /\ k + a \in {counter, counter + CounterMod}
        BY <1>1, <1>2, <1>14, <3>1, <3>2, <4>1, SMTT(30)
      <4>3. k + (a + 1) \in {counter', counter' + CounterMod}
        <5>1. k \in Nat /\ k <= CounterMod - 1 /\ counter <= CounterMod - 1
          BY <1>1
        <5>2. CASE counter = CounterMod - 1
          BY <1>1, <1>8, <4>2, <5>1, <5>2
        <5>3. CASE counter # CounterMod - 1
          BY <1>1, <1>8, <4>2, <5>3
        <5> QED
          BY <5>2, <5>3
      <4> QED
        BY <4>2, <4>3
    <3> QED
      BY <1>12, <3>1, <3>2, <3>3
  <2> QED
    BY <1>10, <2>1, <2>2
<1>19. ASSUME NEW i \in 1 .. n PROVE quotes[i].nonce # NextNonce
  <2>1. CASE i \in SignedNow
    <3>1. PICK k \in 0 .. CounterMod - 1 : Low(i, k) /\ k + Age(i) \in {counter, counter + CounterMod}
      BY <2>1 DEF QuoteInv
    <3>2. Age(i) \in 1 .. Cardinality(SignedNow) /\ quotes[i].at = now
      BY <2>1, SignedAreLast DEF SignedNow
    <3>3. k # counter
      BY <1>1, <1>2, <3>1, <3>2
    <3>4. quotes[i].nonce = now * CounterMod + k
      BY <3>1, <3>2 DEF Low
    <3>5. now * CounterMod \in Nat
      BY <1>1
    <3> QED
      BY <1>1, <1>5, <3>3, <3>4, <3>5
  <2>2. CASE i \notin SignedNow
    <3>1. quotes[i].at \in Nat /\ quotes[i].at < now
      BY <1>1, <2>2 DEF SignedNow
    <3>2. PICK k \in 0 .. CounterMod - 1 : quotes[i].nonce = quotes[i].at * CounterMod + k
      BY <1>1 DEF QuoteInv, Low
    <3>3. quotes[i].at * CounterMod + k < now * CounterMod + counter
      BY <1>1, <3>1, NoncesGrow
    <3> QED
      BY <1>1, <1>5, <3>2, <3>3
  <2> QED
    BY <2>1, <2>2
<1>20. NoncesUnique'
  <2>1. \A i, j \in 1 .. n : quotes[i].nonce = quotes[j].nonce => i = j
    BY <1>1 DEF QuoteInv, NoncesUnique
  <2> QED
    BY <1>1, <1>6, <1>7, <1>19, <2>1 DEF NoncesUnique
<1> QED
  BY <1>1, <1>2, <1>9, <1>11, <1>16, <1>17, <1>18, <1>20 DEF QuoteInv

LEMMA QuoteRestart ==
  ASSUME QuoteInv, Restart, UNCHANGED now
  PROVE  QuoteInv'
<1>1. SignedNow = {} /\ SignedNow' = {} /\ counter' = 0 /\ quotes' = quotes /\ now' = now
  BY DEF Restart, SignedNow
<1>2. QuoteTypeOK'
  BY <1>1, QuoteAssumption DEF QuoteInv, QuoteTypeOK
<1> QED
  BY <1>1, <1>2 DEF QuoteInv, Low, NoncesUnique

LEMMA QuoteTick ==
  ASSUME QuoteInv, Tick, UNCHANGED quoteVars
  PROVE  QuoteInv'
<1>1. /\ now \in Nat /\ now' = now + 1 /\ now < MaxTime /\ UNCHANGED <<counter, quotes>>
      /\ \A i \in DOMAIN quotes : quotes[i].at \in Nat /\ quotes[i].at <= now
  BY QuoteIs DEF QuoteInv, Tick, quoteVars
<1>2. now' \in Times
  BY <1>1, ClockAssumption DEF Times
<1>3. SignedNow' = {}
  BY <1>1 DEF SignedNow
<1>4. Cardinality(SignedNow') <= CounterMod
  BY <1>3, FS_EmptySet, QuoteAssumption
<1>5. \A i \in DOMAIN quotes : quotes[i].at <= now'
  BY <1>1
<1> QED
  BY <1>1, <1>2, <1>3, <1>4, <1>5 DEF QuoteInv, QuoteTypeOK, Low, NoncesUnique

LEMMA QuoteStep ==
  ASSUME QuoteInv, [QuoteNext]_<<now, quoteVars>>
  PROVE  QuoteInv'
<1>1. CASE UNCHANGED <<now, quoteVars>>
  BY <1>1 DEF QuoteInv, QuoteTypeOK, SignedNow, Low, Age, NoncesUnique, quoteVars
<1> QED
  BY <1>1, QuoteSigned, QuoteRestart, QuoteTick DEF QuoteNext

LEMMA QuotePromises == QuoteInv => NoncesUnique /\ RatesFollowTenor
<1> SUFFICES ASSUME QuoteInv, NEW i \in DOMAIN quotes, NEW j \in DOMAIN quotes
             PROVE  /\ quotes[i].maturity - quotes[i].at <= quotes[j].maturity - quotes[j].at
                          => quotes[i].rate <= quotes[j].rate
                    /\ quotes[i].rate \in BaseRate .. MaxRate
  BY DEF QuoteInv, RatesFollowTenor
<1> DEFINE t == quotes[i].maturity - quotes[i].at
           u == quotes[j].maturity - quotes[j].at
<1>1. t \in Nat /\ u \in Nat /\ quotes[i].rate = RateBps(t) /\ quotes[j].rate = RateBps(u)
  <2>1. \A x \in {i, j} : /\ quotes[x].maturity \in Nat /\ quotes[x].at \in Nat
                          /\ quotes[x].maturity > quotes[x].at
                          /\ quotes[x].rate = RateBps(quotes[x].maturity - quotes[x].at)
    BY QuoteIs DEF QuoteInv
  <2> QED
    BY <2>1
<1> QED
  BY <1>1, RateIsMonotone

(* No two quotes carry one nonce, over restarts and wraps of the counter, and the
   rate follows the tenor within the band of the policy. *)
THEOREM QuotesAreDistinctAndFair == QuoteSpec => [](NoncesUnique /\ RatesFollowTenor)
<1>1. QuoteInit => QuoteInv
  BY QuoteInit0, ClockAssumption DEF QuoteInit, Times
<1>2. QuoteInv /\ [QuoteNext]_<<now, quoteVars>> => QuoteInv'
  BY QuoteStep
<1> QED
  BY <1>1, <1>2, QuotePromises, PTL DEF QuoteSpec

-----------------------------------------------------------------------------
LEMMA MinOfTwo ==
  ASSUME NEW a \in Int, NEW b \in Int
  PROVE  Min({a, b}) = IF a <= b THEN a ELSE b
<1> DEFINE m == IF a <= b THEN a ELSE b
<1>1. m \in {a, b} /\ \A y \in {a, b} : m <= y
  OBVIOUS
<1>2. \A x \in {a, b} : (\A y \in {a, b} : x <= y) => x = m
  OBVIOUS
<1> HIDE DEF m
<1>3. Min({a, b}) = m
  BY <1>1, <1>2 DEF Min
<1> QED
  BY <1>3 DEF m

LEMMA RefillGrows ==
  ASSUME NEW a \in Nat, NEW b \in Nat, NEW r \in Nat, a <= b
  PROVE  a * r \in Nat /\ b * r \in Nat /\ r * a = a * r /\ a * r <= b * r /\ (a + 1) * r = a * r + r
OBVIOUS

(* A bucket that exists. *)
LEMMA BucketIs ==
  ASSUME LimitInv
  PROVE  /\ now \in Nat /\ lastSweep \in Int /\ lastSweep <= now
         /\ Minute \in Nat \ {0} /\ IdleTTL \in Nat /\ IdleTTL >= Minute
         /\ \A k \in Keys : buckets[k] # NoBucket =>
              /\ buckets[k].tokens \in Nat /\ buckets[k].last \in Nat
              /\ buckets[k].tokens <= Full(k) /\ buckets[k].last <= now
              /\ buckets[k].last < lastSweep + Minute /\ lastSweep - buckets[k].last <= IdleTTL
         /\ \A k \in Keys : RateOf[k] \in Nat \ {0} /\ Full(k) = Minute * RateOf[k] /\ Full(k) \in Nat
              /\ Full(k) >= Minute
<1>1. Times \subseteq Nat
  BY TimesAreNat
<1>2. Minute \in Nat \ {0} /\ IdleTTL \in Nat /\ IdleTTL >= Minute
  BY LimitAssumption
<1>3. now \in Nat /\ lastSweep \in Int
  BY <1>1, <1>2 DEF LimitInv, LimitTypeOK
<1>4. ASSUME NEW k \in Keys, buckets[k] # NoBucket
      PROVE  /\ buckets[k].tokens \in Nat /\ buckets[k].last \in Nat
             /\ buckets[k].tokens <= Full(k) /\ buckets[k].last <= now
  BY <1>1, <1>4 DEF LimitInv, LimitTypeOK
<1>5. ASSUME NEW k \in Keys
      PROVE  RateOf[k] \in Nat \ {0} /\ Full(k) = Minute * RateOf[k] /\ Full(k) \in Nat /\ Full(k) >= Minute
  <2>1. RateOf[k] \in Nat \ {0}
    BY LimitAssumption DEF RateOf
  <2>2. Full(k) = Minute * RateOf[k] /\ Full(k) \in Nat
    BY <1>2, <2>1 DEF Full
  <2>3. 1 * Minute <= RateOf[k] * Minute
    BY <1>2, <2>1, RefillGrows
  <2> QED
    BY <1>2, <2>1, <2>2, <2>3 DEF Full
<1> QED
  BY <1>2, <1>3, <1>4, <1>5 DEF LimitInv

(* What is in a bucket by now. *)
LEMMA LevelIs ==
  ASSUME LimitInv, NEW k \in Keys
  PROVE  /\ Level(k) \in Nat /\ Level(k) <= Full(k)
         /\ buckets[k] = NoBucket => Level(k) = Full(k)
         /\ buckets[k] # NoBucket =>
              LET t == buckets[k].tokens + (now - buckets[k].last) * RateOf[k]
              IN  t \in Nat /\ Level(k) = IF Full(k) <= t THEN Full(k) ELSE t
<1>1. Full(k) \in Nat /\ RateOf[k] \in Nat /\ now \in Nat
  BY BucketIs
<1>2. CASE buckets[k] = NoBucket
  BY <1>1, <1>2 DEF Level
<1>3. CASE buckets[k] # NoBucket
  <2> DEFINE t == buckets[k].tokens + (now - buckets[k].last) * RateOf[k]
  <2>1. buckets[k].tokens \in Nat /\ now - buckets[k].last \in Nat
    BY <1>3, BucketIs
  <2>2. (now - buckets[k].last) * RateOf[k] \in Nat
    BY <1>1, <2>1, RefillGrows
  <2>3. t \in Nat
    BY <2>1, <2>2
  <2>4. Level(k) = Min({Full(k), t})
    BY <1>3 DEF Level
  <2> HIDE DEF t
  <2>5. Level(k) = IF Full(k) <= t THEN Full(k) ELSE t
    BY <1>1, <2>3, <2>4, MinOfTwo
  <2>6. Level(k) \in Nat /\ Level(k) <= Full(k)
    BY <1>1, <2>3, <2>5
  <2> QED
    BY <1>3, <2>3, <2>5, <2>6 DEF t
<1> QED
  BY <1>2, <1>3

LEMMA LimitInit0 ==
  ASSUME now \in Times, buckets = [k \in Keys |-> NoBucket], lastSweep = -Minute, verified = {},
         answer = [k \in Keys |-> "none"]
  PROVE  LimitInv
<1>1. now \in Nat /\ Minute \in Nat \ {0} /\ Never = -1
  BY TimesAreNat, LimitAssumption DEF Never
<1>2. ASSUME NEW k \in Keys PROVE buckets[k].tokens <= Full(k) /\ buckets[k].last <= now
  <2>1. RateOf[k] \in Nat
    BY LimitAssumption DEF RateOf
  <2>2. Full(k) \in Nat
    BY <1>1, <2>1 DEF Full
  <2> QED
    BY <1>1, <2>2 DEF NoBucket
<1>3. LimitTypeOK
  BY <1>2 DEF LimitTypeOK
<1> QED
  BY <1>1, <1>3 DEF LimitInv

(* What a request does to the buckets: its key's is touched, and those go that
   are full again. *)
LEMMA AllowDoes ==
  ASSUME LimitInv, NEW k \in Keys, Allow(k), UNCHANGED now
  PROVE  LET left == IF Level(k) >= Minute THEN Level(k) - Minute ELSE Level(k)
         IN  /\ left \in Nat /\ left <= Full(k)
             /\ buckets' \in [Keys -> {NoBucket} \cup [tokens: Nat, last: Times]]
             /\ buckets'[k] = [tokens |-> left, last |-> now] /\ buckets'[k] # NoBucket
             /\ \A j \in Keys \ {k} :
                  IF SweepIsDue /\ now - buckets[j].last > IdleTTL
                    THEN buckets'[j] = NoBucket ELSE buckets'[j] = buckets[j]
<1> DEFINE left == IF Level(k) >= Minute THEN Level(k) - Minute ELSE Level(k)
           b == [buckets EXCEPT ![k] = [tokens |-> left, last |-> now]]
<1>1. /\ Level(k) \in Nat /\ Level(k) <= Full(k) /\ Full(k) \in Nat
      /\ now \in Nat /\ now \in Times /\ Minute \in Nat \ {0} /\ IdleTTL \in Nat
  BY BucketIs, LevelIs DEF LimitInv
<1>2. left \in Nat /\ left <= Full(k)
  BY <1>1
<1>3. buckets' = Sweep(b)
  BY DEF Allow
<1> HIDE DEF left
<1>4. /\ b \in [Keys -> {NoBucket} \cup [tokens: Nat, last: Times]]
      /\ b[k] = [tokens |-> left, last |-> now] /\ \A j \in Keys \ {k} : b[j] = buckets[j]
  BY <1>1, <1>2 DEF LimitInv, LimitTypeOK
<1>5. [tokens |-> left, last |-> now] # NoBucket /\ ~(now - now > IdleTTL)
  BY <1>1, TimesAreNat DEF NoBucket
<1> HIDE DEF b
<1>6. \A j \in Keys : buckets'[j] = IF SweepIsDue /\ now - b[j].last > IdleTTL THEN NoBucket ELSE b[j]
  BY <1>3 DEF Sweep
<1>7. buckets' \in [Keys -> {NoBucket} \cup [tokens: Nat, last: Times]]
  BY <1>3, <1>4 DEF Sweep
<1> QED
  BY <1>2, <1>4, <1>5, <1>6, <1>7 DEF left

LEMMA LimitAllow ==
  ASSUME LimitInv, NEW k \in Keys, Allow(k), UNCHANGED now
  PROVE  LimitInv'
<1> DEFINE left == IF Level(k) >= Minute THEN Level(k) - Minute ELSE Level(k)
<1>0. /\ left \in Nat /\ left <= Full(k)
      /\ buckets' \in [Keys -> {NoBucket} \cup [tokens: Nat, last: Times]]
      /\ buckets'[k] = [tokens |-> left, last |-> now] /\ buckets'[k] # NoBucket
      /\ \A j \in Keys \ {k} :
            IF SweepIsDue /\ now - buckets[j].last > IdleTTL
              THEN buckets'[j] = NoBucket ELSE buckets'[j] = buckets[j]
  BY AllowDoes
<1> HIDE DEF left
<1>1. /\ now \in Nat /\ now \in Times /\ now' = now /\ lastSweep \in Int /\ lastSweep <= now
      /\ Minute \in Nat \ {0} /\ IdleTTL \in Nat
      /\ \A j \in Keys : Full(j) \in Nat
      /\ \A j \in Keys : buckets[j] # NoBucket =>
            /\ buckets[j].tokens \in Nat /\ buckets[j].last \in Nat
            /\ buckets[j].tokens <= Full(j) /\ buckets[j].last <= now
            /\ buckets[j].last < lastSweep + Minute /\ lastSweep - buckets[j].last <= IdleTTL
  BY BucketIs DEF LimitInv
<1>2. /\ lastSweep' = IF SweepIsDue THEN now ELSE lastSweep
      /\ verified' = verified
      /\ answer' \in [Keys -> {"none", "served", "limited"}]
  BY DEF Allow, LimitInv
<1>3. NoBucket.tokens = -1 /\ NoBucket.last = -1
  BY DEF NoBucket, Never
<1>4. ASSUME NEW j \in Keys PROVE buckets'[j].tokens <= Full(j) /\ buckets'[j].last <= now
  <2>1. CASE j = k
    BY <1>0, <1>1, <2>1
  <2>2. CASE j # k /\ buckets'[j] = NoBucket
    BY <1>1, <1>3, <2>2
  <2>3. CASE j # k /\ buckets'[j] # NoBucket
    BY <1>0, <1>1, <2>3
  <2> QED
    BY <2>1, <2>2, <2>3
<1>5. LimitTypeOK'
  <2>1. lastSweep' \in {-Minute} \cup Times /\ verified' \subseteq Wallets
    BY <1>1, <1>2 DEF LimitInv, LimitTypeOK
  <2>2. \A j \in Keys : buckets'[j].tokens <= Full(j) /\ buckets'[j].last <= now'
    BY <1>1, <1>4
  <2> QED
    BY <1>0, <2>1, <2>2 DEF LimitTypeOK, Full
<1>6. now' \in Times /\ lastSweep' <= now'
  BY <1>1, <1>2
<1>7. ASSUME NEW j \in Keys, buckets'[j] # NoBucket
      PROVE  buckets'[j].last < lastSweep' + Minute /\ lastSweep' - buckets'[j].last <= IdleTTL
  <2>1. CASE j = k
    <3>1. buckets'[j].last = now
      BY <1>0, <2>1
    <3> QED
      BY <1>1, <1>2, <3>1 DEF SweepIsDue
  <2>2. CASE j # k
    <3>1. buckets'[j] = buckets[j] /\ ~(SweepIsDue /\ now - buckets[j].last > IdleTTL)
      BY <1>0, <1>7, <2>2
    <3> QED
      BY <1>1, <1>2, <1>7, <3>1 DEF SweepIsDue
  <2> QED
    BY <2>1, <2>2
<1> QED
  BY <1>2, <1>5, <1>6, <1>7 DEF LimitInv

LEMMA LimitStep ==
  ASSUME LimitInv, [LimitNext]_<<now, limitVars>>
  PROVE  LimitInv'
<1>1. CASE UNCHANGED <<now, limitVars>>
  BY <1>1 DEF LimitInv, LimitTypeOK, Full, limitVars
<1>2. ASSUME NEW w \in Wallets, Verify(w), UNCHANGED now PROVE LimitInv'
  BY <1>2 DEF Verify, LimitInv, LimitTypeOK, Full
<1>3. ASSUME Tick, UNCHANGED limitVars PROVE LimitInv'
  <2>1. /\ now \in Nat /\ now' = now + 1 /\ now < MaxTime /\ lastSweep \in Int /\ lastSweep <= now
        /\ UNCHANGED <<buckets, lastSweep, verified, answer>>
    BY <1>3, BucketIs DEF Tick, limitVars
  <2>2. now' \in Times /\ lastSweep' <= now'
    BY <2>1, ClockAssumption DEF Times
  <2>3. ASSUME NEW k \in Keys PROVE buckets[k].last <= now'
    <3>1. CASE buckets[k] = NoBucket
      BY <2>1, <3>1 DEF NoBucket, Never
    <3>2. CASE buckets[k] # NoBucket
      BY <2>1, <3>2, BucketIs
    <3> QED
      BY <3>1, <3>2
  <2>4. LimitTypeOK'
    BY <2>1, <2>3 DEF LimitInv, LimitTypeOK, Full
  <2> QED
    BY <2>1, <2>2, <2>4 DEF LimitInv
<1>4. ASSUME NEW ip \in IPs, NEW w \in Wallets \cup {ip}, Request(ip, w), UNCHANGED now PROVE LimitInv'
  BY <1>4, LimitAllow DEF Request, LimitInv, LimitTypeOK, Keys
<1> QED
  BY <1>1, <1>2, <1>3, <1>4 DEF LimitNext

LEMMA LimitPromises == LimitInv => BucketsAreRecent
<1> SUFFICES ASSUME LimitInv, NEW j \in Keys, NEW k \in Keys,
                    buckets[j] # NoBucket, buckets[k] # NoBucket
             PROVE  buckets[j].last - buckets[k].last < IdleTTL + Minute
  BY DEF BucketsAreRecent
<1>1. /\ buckets[j].last \in Nat /\ buckets[k].last \in Nat /\ lastSweep \in Int
      /\ Minute \in Nat /\ IdleTTL \in Nat
      /\ buckets[j].last < lastSweep + Minute /\ lastSweep - buckets[k].last <= IdleTTL
  BY BucketIs
<1> QED
  BY <1>1

(* The limiter keeps the buckets of recent traffic only. *)
THEOREM LimiterKeepsRecentBuckets == LimitSpec => []BucketsAreRecent
<1>1. LimitInit => LimitInv
  BY LimitInit0, ClockAssumption DEF LimitInit, Times
<1>2. LimitInv /\ [LimitNext]_<<now, limitVars>> => LimitInv'
  BY LimitStep
<1> QED
  BY <1>1, <1>2, LimitPromises, PTL DEF LimitSpec

(* Nobody can tell a bucket that was swept from one that is there. *)
LEMMA AllowLevels ==
  ASSUME LimitInv, NEW k \in Keys, Allow(k), UNCHANGED now
  PROVE  /\ Level(k)' = IF Level(k) >= Minute THEN Level(k) - Minute ELSE Level(k)
         /\ \A j \in Keys \ {k} : Level(j)' = Level(j)
<1> DEFINE left == IF Level(k) >= Minute THEN Level(k) - Minute ELSE Level(k)
<1>0. /\ left \in Nat /\ left <= Full(k)
      /\ buckets'[k] = [tokens |-> left, last |-> now] /\ buckets'[k] # NoBucket
      /\ \A j \in Keys \ {k} :
            IF SweepIsDue /\ now - buckets[j].last > IdleTTL
              THEN buckets'[j] = NoBucket ELSE buckets'[j] = buckets[j]
  BY AllowDoes
<1> HIDE DEF left
<1>1. /\ now \in Nat /\ now' = now /\ Minute \in Nat \ {0} /\ IdleTTL \in Nat /\ IdleTTL >= Minute
      /\ \A j \in Keys : RateOf[j] \in Nat \ {0} /\ Full(j) = Minute * RateOf[j] /\ Full(j) \in Nat
  BY BucketIs
<1>2. Level(k)' = left
  <2>1. Level(k)' = Min({Full(k), left + (now - now) * RateOf[k]})
    BY <1>0, <1>1 DEF Level, Full
  <2>2. left + (now - now) * RateOf[k] = left
    BY <1>0, <1>1
  <2> QED
    BY <1>0, <1>1, <2>1, <2>2, MinOfTwo
<1>3. ASSUME NEW j \in Keys \ {k} PROVE Level(j)' = Level(j)
  <2>1. CASE buckets'[j] = buckets[j]
    BY <1>1, <2>1 DEF Level, Full
  <2>2. CASE buckets'[j] = NoBucket /\ buckets[j] # NoBucket /\ now - buckets[j].last > IdleTTL
    <3>1. buckets[j].tokens \in Nat /\ now - buckets[j].last \in Nat /\ Minute <= now - buckets[j].last
      BY <1>1, <2>2, BucketIs
    <3>2. Minute * RateOf[j] <= (now - buckets[j].last) * RateOf[j]
          /\ (now - buckets[j].last) * RateOf[j] \in Nat
      BY <1>1, <3>1, RefillGrows
    <3>3. Full(j) <= buckets[j].tokens + (now - buckets[j].last) * RateOf[j]
      BY <1>1, <3>1, <3>2
    <3>4. Level(j) = Full(j)
      BY <2>2, <3>3, LevelIs
    <3>5. Level(j)' = Full(j)
      BY <2>2 DEF Level, Full
    <3> QED
      BY <3>4, <3>5
  <2> QED
    BY <1>0, <2>1, <2>2
<1> QED
  BY <1>2, <1>3 DEF left

(* A minute's tick refills every bucket, those that are not there too. *)
LEMMA TickLevels ==
  ASSUME LimitInv, Tick, UNCHANGED limitVars, NEW k \in Keys
  PROVE  Level(k)' = Min({Full(k), Level(k) + RateOf[k]})
<1>1. /\ now \in Nat /\ now' = now + 1 /\ buckets' = buckets
      /\ RateOf[k] \in Nat \ {0} /\ Full(k) \in Nat
  BY BucketIs DEF Tick, limitVars
<1>2. CASE buckets[k] = NoBucket
  <2>1. Level(k)' = Full(k) /\ Level(k) = Full(k)
    BY <1>1, <1>2 DEF Level, Full
  <2> QED
    BY <1>1, <2>1, MinOfTwo
<1>3. CASE buckets[k] # NoBucket
  <2> DEFINE t == buckets[k].tokens + (now - buckets[k].last) * RateOf[k]
  <2>1. t \in Nat /\ Level(k) = IF Full(k) <= t THEN Full(k) ELSE t
    BY <1>3, LevelIs
  <2>2. buckets[k].tokens \in Nat /\ buckets[k].last \in Nat /\ now - buckets[k].last \in Nat
    BY <1>1, <1>3, BucketIs
  <2>3. ((now - buckets[k].last) + 1) * RateOf[k] = (now - buckets[k].last) * RateOf[k] + RateOf[k]
        /\ (now - buckets[k].last) * RateOf[k] \in Nat
    BY <1>1, <2>2, RefillGrows
  <2>4. (now - buckets[k].last) + 1 = now' - buckets[k].last
    BY <1>1, <2>2
  <2>5. Level(k)' = Min({Full(k), buckets[k].tokens + (now' - buckets[k].last) * RateOf[k]})
    BY <1>1, <1>3 DEF Level, Full
  <2>6. buckets[k].tokens + (now' - buckets[k].last) * RateOf[k] = t + RateOf[k]
    BY <1>1, <2>2, <2>3, <2>4
  <2> HIDE DEF t
  <2>7. Level(k)' = IF Full(k) <= t + RateOf[k] THEN Full(k) ELSE t + RateOf[k]
    BY <1>1, <2>1, <2>5, <2>6, MinOfTwo
  <2>8. Level(k) \in Nat
    BY <1>1, <2>1
  <2>9. Min({Full(k), Level(k) + RateOf[k]})
          = IF Full(k) <= Level(k) + RateOf[k] THEN Full(k) ELSE Level(k) + RateOf[k]
    BY <1>1, <2>8, MinOfTwo
  <2> QED
    BY <1>1, <2>1, <2>7, <2>9
<1> QED
  BY <1>2, <1>3

LEMMA LimitImplements ==
  ASSUME LimitInv, [LimitNext]_<<now, limitVars>>
  PROVE  [TokenBuckets!Next]_<<[k \in Keys |-> Level(k)], answer>>
<1> DEFINE level == [k \in Keys |-> Level(k)]
<1>1. CASE UNCHANGED <<now, limitVars>>
  BY <1>1 DEF limitVars, Level, Full
<1>2. ASSUME NEW w \in Wallets, Verify(w), UNCHANGED now PROVE UNCHANGED <<level, answer>>
  BY <1>2 DEF Verify, Level, Full
<1>3. ASSUME Tick, UNCHANGED limitVars PROVE TokenBuckets!Refill
  <2>1. \A k \in Keys : Level(k)' = Min({Full(k), Level(k) + RateOf[k]})
    BY <1>3, TickLevels
  <2>2. answer' = answer
    BY <1>3 DEF limitVars
  <2> QED
    BY <2>1, <2>2 DEF TokenBuckets!Refill, TokenBuckets!Capped, TokenBuckets!Full, TokenBuckets!Min, Full, Min
<1>4. ASSUME NEW k \in Keys, Allow(k), UNCHANGED now
      PROVE  TokenBuckets!Serve(k) \/ TokenBuckets!Refuse(k)
  <2>1. /\ Level(k)' = IF Level(k) >= Minute THEN Level(k) - Minute ELSE Level(k)
        /\ \A j \in Keys \ {k} : Level(j)' = Level(j)
    BY <1>4, AllowLevels
  <2>2. answer' = [answer EXCEPT ![k] = IF Level(k) >= Minute THEN "served" ELSE "limited"]
    BY <1>4 DEF Allow
  <2>3. Level(k) \in Nat /\ Minute \in Nat
    BY LevelIs, BucketIs
  <2>4. CASE Level(k) >= Minute
    <3>1. level' = [level EXCEPT ![k] = @ - Minute]
      BY <2>1, <2>4
    <3> QED
      BY <2>2, <2>4, <3>1 DEF TokenBuckets!Serve
  <2>5. CASE Level(k) < Minute
    <3>1. level' = level
      BY <2>1, <2>3, <2>5
    <3> QED
      <4>1. ~(Level(k) >= Minute)
        BY <2>3, <2>5
      <4>2. answer' = [answer EXCEPT ![k] = "limited"]
        BY <2>2, <4>1
      <4>3. level[k] < Minute
        BY <2>5
      <4> QED
        BY <3>1, <4>2, <4>3 DEF TokenBuckets!Refuse
  <2> QED
    BY <2>3, <2>4, <2>5
<1>5. ASSUME NEW ip \in IPs, NEW w \in Wallets \cup {ip}, Request(ip, w), UNCHANGED now
      PROVE  \E k \in Keys : TokenBuckets!Serve(k) \/ TokenBuckets!Refuse(k)
  BY <1>4, <1>5 DEF Request, LimitInv, LimitTypeOK, Keys
<1> QED
  BY <1>1, <1>2, <1>3, <1>5 DEF LimitNext, TokenBuckets!Next

LEMMA LimitInitImplements == LimitInit => TokenBuckets!Init
BY DEF LimitInit, TokenBuckets!Init, Level, Full, TokenBuckets!Full

(* The limiter implements a bucket per key that is always there. *)
THEOREM LimiterImplementsTokenBuckets == LimitSpec => LimiterIsTokenBuckets
<1>1. LimitInit => LimitInv
  BY LimitInit0, ClockAssumption DEF LimitInit, Times
<1>2. LimitInv /\ [LimitNext]_<<now, limitVars>> => LimitInv'
  BY LimitStep
<1>3. LimitInv /\ [LimitNext]_<<now, limitVars>> => [TokenBuckets!Next]_<<[k \in Keys |-> Level(k)], answer>>
  BY LimitImplements
<1> QED
  BY <1>1, <1>2, <1>3, LimitInitImplements, PTL DEF LimitSpec, LimiterIsTokenBuckets, TokenBuckets!Spec

-----------------------------------------------------------------------------
(* What the meters say can be counted. *)
LEMMA ServedOfIs ==
  ASSUME NEW y
  PROVE  /\ IsFiniteSet(ServedOf(y)) /\ Cardinality(ServedOf(y)) \in 0 .. Calls
<1>1. ServedOf(y) \subseteq Payloads /\ IsFiniteSet(Payloads)
  BY GateAssumption DEF ServedOf
<1>2. IsFiniteSet(ServedOf(y)) /\ Cardinality(ServedOf(y)) <= Cardinality(Payloads)
  BY <1>1, FS_Subset
<1>3. Cardinality(ServedOf(y)) \in Nat /\ Cardinality(Payloads) \in Nat
  BY <1>1, <1>2, FS_CardinalityType
<1> QED
  BY <1>2, <1>3 DEF Calls

LEMMA MetersTyped ==
  ASSUME DOMAIN usage = Payers, usage = [y \in Payers |-> usage[y]],
         \A y \in Payers : usage[y] = Cardinality(ServedOf(y))
  PROVE  usage \in [Payers -> 0 .. Calls]
<1>1. \A y \in Payers : usage[y] \in 0 .. Calls
  BY ServedOfIs
<1> QED
  BY <1>1

LEMMA MeteredInit0 ==
  ASSUME now \in Times, seen = [p \in Payloads |-> Never], usage = [y \in Payers |-> 0],
         requests = [r \in Requests |-> Free], signedAt = [p \in Payloads |-> Never],
         ledger = {}, served = [p \in Payloads |-> 0]
  PROVE  GateTypeOK /\ Metered
<1>1. \A y \in Payers : ServedOf(y) = {}
  BY DEF ServedOf
<1>2. Cardinality({}) = 0
  BY FS_EmptySet
<1>3. \A y \in Payers : usage[y] = Cardinality(ServedOf(y))
  BY <1>1, <1>2
<1>4. usage \in [Payers -> 0 .. Calls]
  BY <1>3, MetersTyped
<1>5. GateTypeOK
  BY <1>4 DEF GateTypeOK
<1> QED
  BY <1>3, <1>5, FreeIsNoRequest DEF Metered, Free

(* Where nothing was served the meters stand still. *)
LEMMA MeteredSame ==
  ASSUME Metered, UNCHANGED <<usage, served>>, ledger \subseteq ledger',
         \A r \in Requests : requests'[r].at = "record" => requests'[r].payload \in ledger'
  PROVE  Metered'
<1>1. \A y \in Payers : ServedOf(y)' = ServedOf(y)
  BY DEF ServedOf
<1> QED
  BY <1>1 DEF Metered

LEMMA RequestIs ==
  ASSUME GateTypeOK, NEW r \in Requests, requests[r].at \in {"verify", "settle", "record"}
  PROVE  /\ requests[r] # Free /\ requests[r].payload \in Payloads
         /\ requests[r] = [at |-> requests[r].at, payload |-> requests[r].payload]
BY DEF GateTypeOK, Free

(* The request a step puts in place of another. *)
LEMMA RequestsTake ==
  ASSUME GateTypeOK, NEW r \in Requests,
         NEW q \in {Free} \cup [at: {"verify", "settle", "record"}, payload: Payloads],
         requests' = [requests EXCEPT ![r] = q]
  PROVE  /\ requests' \in [Requests -> {Free} \cup [at: {"verify", "settle", "record"}, payload: Payloads]]
         /\ requests'[r] = q /\ \A o \in Requests \ {r} : requests'[o] = requests[o]
BY DEF GateTypeOK

LEMMA RequestMoves ==
  ASSUME GateTypeOK, NEW r \in Requests, requests[r].at \in {"verify", "settle", "record"},
         NEW at \in {"verify", "settle", "record"}, Moves(r, at)
  PROVE  /\ requests' \in [Requests -> {Free} \cup [at: {"verify", "settle", "record"}, payload: Payloads]]
         /\ requests'[r] = [at |-> at, payload |-> requests[r].payload]
         /\ \A o \in Requests \ {r} : requests'[o] = requests[o]
<1>1. requests[r].payload \in Payloads /\ requests[r] = [at |-> requests[r].at, payload |-> requests[r].payload]
  BY RequestIs
<1>2. [requests[r] EXCEPT !.at = at] = [at |-> at, payload |-> requests[r].payload]
  BY <1>1
<1>3. requests' = [requests EXCEPT ![r] = [at |-> at, payload |-> requests[r].payload]]
  BY <1>2 DEF Moves
<1> QED
  BY <1>1, <1>3, RequestsTake

LEMMA MeteredStep ==
  ASSUME GateInv, GateTypeOK, Metered, [GateNext]_<<now, gateVars>>
  PROVE  GateTypeOK' /\ Metered'
<1> DEFINE Requested == {Free} \cup [at: {"verify", "settle", "record"}, payload: Payloads]
<1>0. /\ GateTyped /\ now \in Nat /\ now \in Times /\ Times \subseteq Nat
      /\ \A p \in Payloads : InTime(p) /\ Once(p)
      /\ seen \in [Payloads -> Times \cup {Never}] /\ requests \in [Requests -> Requested]
      /\ signedAt \in [Payloads -> Times \cup {Never}] /\ usage \in [Payers -> 0 .. Calls]
      /\ ledger \subseteq {p \in Payloads : signedAt[p] # Never} /\ served \in [Payloads -> Nat]
  BY TimesAreNat DEF GateInv, GateTyped, GateTypeOK
<1>1. CASE UNCHANGED <<now, gateVars>>
  BY <1>1 DEF gateVars, GateTypeOK, Metered, ServedOf
<1>2. ASSUME Tick, UNCHANGED gateVars PROVE GateTypeOK' /\ Metered'
  <2>1. now' \in Times
    BY <1>0, <1>2, ClockAssumption DEF Tick, Times
  <2> QED
    BY <1>2, <2>1 DEF gateVars, GateTypeOK, Metered, ServedOf
<1>3. ASSUME NEW p \in Payloads, SignPayment(p), UNCHANGED now PROVE GateTypeOK' /\ Metered'
  <2>1. /\ signedAt' = [signedAt EXCEPT ![p] = now] /\ now' = now
        /\ UNCHANGED <<seen, usage, requests, ledger, served>>
    BY <1>3 DEF SignPayment
  <2>2. signedAt' \in [Payloads -> Times \cup {Never}] /\ ledger \subseteq {q \in Payloads : signedAt'[q] # Never}
    BY <1>0, <2>1, TimesAreNat
  <2>3. Metered'
    BY <2>1, MeteredSame DEF Metered
  <2> QED
    BY <2>1, <2>2, <2>3 DEF GateTypeOK
<1>4. ASSUME NEW r \in Requests, NEW p \in Payloads, Reserve(r, p), UNCHANGED now
      PROVE  GateTypeOK' /\ Metered'
  <2>1. /\ seen' = [seen EXCEPT ![p] = now] /\ now' = now
        /\ requests' = [requests EXCEPT ![r] = [at |-> "verify", payload |-> p]]
        /\ UNCHANGED <<usage, signedAt, ledger, served>>
    BY <1>4 DEF Reserve
  <2>2. seen' \in [Payloads -> Times \cup {Never}]
    BY <1>0, <2>1
  <2>3. /\ requests' \in [Requests -> Requested] /\ requests'[r].at = "verify"
        /\ \A o \in Requests \ {r} : requests'[o] = requests[o]
    BY <2>1, RequestsTake
  <2>4. Metered'
    BY <2>1, <2>3, MeteredSame DEF Metered
  <2> QED
    BY <2>1, <2>2, <2>3, <2>4 DEF GateTypeOK
<1>5. ASSUME NEW r \in Requests, Verified(r), UNCHANGED now PROVE GateTypeOK' /\ Metered'
  <2>1. /\ Moves(r, "settle") /\ now' = now /\ requests[r].at = "verify"
        /\ UNCHANGED <<seen, usage, signedAt, ledger, served>>
    BY <1>5 DEF Verified
  <2>2. /\ requests' \in [Requests -> Requested]
        /\ requests'[r] = [at |-> "settle", payload |-> requests[r].payload]
        /\ \A o \in Requests \ {r} : requests'[o] = requests[o]
    BY <2>1, RequestMoves
  <2>3. Metered'
    BY <2>1, <2>2, MeteredSame DEF Metered
  <2> QED
    BY <2>1, <2>2, <2>3 DEF GateTypeOK
<1>6. ASSUME NEW r \in Requests, Settled(r), UNCHANGED now PROVE GateTypeOK' /\ Metered'
  <2>1. /\ Moves(r, "record") /\ now' = now /\ requests[r].at = "settle"
        /\ ledger' = ledger \cup {requests[r].payload}
        /\ UNCHANGED <<seen, usage, signedAt, served>>
    BY <1>6 DEF Settled
  <2>2. /\ requests' \in [Requests -> Requested]
        /\ requests'[r] = [at |-> "record", payload |-> requests[r].payload]
        /\ \A o \in Requests \ {r} : requests'[o] = requests[o]
    BY <2>1, RequestMoves
  <2>3. requests[r] # Free /\ requests[r].payload \in Payloads
    BY <2>1, RequestIs
  <2>4. signedAt[requests[r].payload] # Never
    BY <1>0, <2>3 DEF InTime, On
  <2>5. Metered'
    BY <2>1, <2>2, MeteredSame DEF Metered
  <2>6. ledger' \subseteq {q \in Payloads : signedAt'[q] # Never}
    BY <1>0, <2>1, <2>3, <2>4
  <2> QED
    BY <2>1, <2>2, <2>5, <2>6 DEF GateTypeOK
<1>7. ASSUME NEW r \in Requests, Fails(r), UNCHANGED now PROVE GateTypeOK' /\ Metered'
  <2>1. /\ seen' = [seen EXCEPT ![requests[r].payload] = Never] /\ now' = now
        /\ requests' = [requests EXCEPT ![r] = Free] /\ requests[r].at \in {"verify", "settle"}
        /\ ledger' \in {ledger, ledger \cup {requests[r].payload}}
        /\ UNCHANGED <<usage, signedAt, served>>
    BY <1>7 DEF Fails, Release, Ends
  <2>2. requests[r] # Free /\ requests[r].payload \in Payloads
    BY <2>1, RequestIs
  <2>3. signedAt[requests[r].payload] # Never
    BY <1>0, <2>2 DEF InTime, On
  <2>4. /\ requests' \in [Requests -> Requested] /\ requests'[r] = Free
        /\ \A o \in Requests \ {r} : requests'[o] = requests[o]
    BY <2>1, RequestsTake
  <2>5. Free.at # "record"
    BY DEF Free
  <2>6. Metered'
    BY <2>1, <2>4, <2>5, MeteredSame DEF Metered
  <2>7. seen' \in [Payloads -> Times \cup {Never}] /\ ledger' \subseteq {q \in Payloads : signedAt'[q] # Never}
    BY <1>0, <2>1, <2>2, <2>3
  <2> QED
    BY <2>1, <2>4, <2>6, <2>7 DEF GateTypeOK
<1>8. ASSUME NEW r \in Requests, Record(r), UNCHANGED now PROVE GateTypeOK' /\ Metered'
  <2> DEFINE p == requests[r].payload
             s == [seen EXCEPT ![p] = now]
  <2>1. /\ requests[r].at = "record" /\ seen' = Prune(s) /\ now' = now
        /\ usage' = [usage EXCEPT ![PayerOf[p]] = @ + 1]
        /\ served' = [served EXCEPT ![p] = @ + 1]
        /\ requests' = [requests EXCEPT ![r] = Free] /\ UNCHANGED <<signedAt, ledger>>
    BY <1>8 DEF Record, Ends
  <2>2. requests[r] # Free /\ p \in Payloads /\ PayerOf[p] \in Payers
    BY <2>1, RequestIs, GateAssumption
  <2>3. served[p] = 0 /\ p \in ledger
    BY <1>0, <2>1, <2>2 DEF Once, Past, On, Metered
  <2>4. s \in [Payloads -> Times \cup {Never}] /\ s \in [Payloads -> Nat \cup {Never}]
    BY <1>0, <2>2
  <2> HIDE DEF s
  <2>5. seen' \in [Payloads -> Times \cup {Never}]
    BY <1>0, <2>1, <2>4 DEF Prune
  <2>6. /\ requests' \in [Requests -> Requested] /\ requests'[r] = Free
        /\ \A o \in Requests \ {r} : requests'[o] = requests[o]
    BY <2>1, RequestsTake
  <2>7. /\ served' \in [Payloads -> Nat] /\ served'[p] = 1
        /\ \A q \in Payloads \ {p} : served'[q] = served[q]
    BY <1>0, <2>1, <2>2, <2>3
  <2> HIDE DEF p
  <2>8. \A q \in Payloads : served'[q] # 0 => q \in ledger
    BY <2>3, <2>7 DEF Metered
  <2>9. ASSUME NEW y \in Payers PROVE usage'[y] = Cardinality(ServedOf(y)')
    <3>0. IsFiniteSet(ServedOf(y)) /\ usage[y] = Cardinality(ServedOf(y)) /\ usage[y] \in Nat
      BY <1>0, ServedOfIs DEF Metered
    <3>1. CASE y = PayerOf[p]
      <4>1. ServedOf(y)' = ServedOf(y) \cup {p} /\ p \notin ServedOf(y)
        BY <2>2, <2>3, <2>7, <3>1 DEF ServedOf
      <4>2. usage'[y] = usage[y] + 1
        BY <1>0, <2>1, <3>1
      <4> QED
        BY <3>0, <4>1, <4>2, FS_AddElement
    <3>2. CASE y # PayerOf[p]
      <4>1. ServedOf(y)' = ServedOf(y)
        BY <2>2, <2>7, <3>2 DEF ServedOf
      <4>2. usage'[y] = usage[y]
        BY <1>0, <2>1, <3>2
      <4> QED
        BY <3>0, <4>1, <4>2
    <3> QED
      BY <3>1, <3>2
  <2>10. \A o \in Requests : requests'[o].at = "record" => requests'[o].payload \in ledger
    BY <2>6 DEF Metered, Free
  <2>11. Metered'
    BY <2>1, <2>8, <2>9, <2>10 DEF Metered
  <2>12. usage' \in [Payers -> 0 .. Calls]
    <3>1. \A y \in Payers : Cardinality(ServedOf(y)') \in 0 .. Calls
      <4>1. ASSUME NEW y \in Payers PROVE Cardinality(ServedOf(y)') \in 0 .. Calls
        <5>1. ServedOf(y)' \subseteq Payloads /\ IsFiniteSet(Payloads)
          BY GateAssumption DEF ServedOf
        <5> QED
          BY <5>1, FS_Subset, FS_CardinalityType DEF Calls
      <4> QED
        BY <4>1
    <3>2. \A y \in Payers : usage'[y] \in 0 .. Calls
      BY <2>9, <3>1
    <3>3. usage' = [y \in Payers |-> usage'[y]]
      BY <1>0, <2>1
    <3> QED
      BY <3>2, <3>3
  <2> QED
    BY <1>0, <2>1, <2>5, <2>6, <2>7, <2>11, <2>12 DEF GateTypeOK
<1> QED
  BY <1>1, <1>2, <1>3, <1>4, <1>5, <1>6, <1>7, <1>8 DEF GateNext, RequestStep

LEMMA GatePromises == GateTypeOK /\ Metered => MeteredIsPaid
<1> SUFFICES ASSUME GateTypeOK, Metered, NEW y \in Payers
             PROVE  usage[y] <= Cardinality({p \in ledger : PayerOf[p] = y})
  BY DEF MeteredIsPaid
<1>1. {p \in ledger : PayerOf[p] = y} \subseteq Payloads
  BY DEF GateTypeOK
<1>2. IsFiniteSet({p \in ledger : PayerOf[p] = y})
  BY <1>1, FS_Subset, GateAssumption
<1>3. ServedOf(y) \subseteq {p \in ledger : PayerOf[p] = y}
  BY DEF ServedOf, Metered
<1> QED
  BY <1>2, <1>3, FS_Subset DEF Metered

(* A payer is never metered for more calls than payments of its own that are on
   the ledger (gate.go:146-161, 220-243). *)
THEOREM GateMetersPayments == GateSpec => []MeteredIsPaid
<1>1. GateInit => GateInv /\ GateTypeOK /\ Metered
  BY GateInit0, MeteredInit0, ClockAssumption DEF GateInit, Times
<1>2. GateInv /\ GateTypeOK /\ Metered /\ [GateNext]_<<now, gateVars>> => (GateInv /\ GateTypeOK /\ Metered)'
  BY GateStep, MeteredStep
<1> QED
  BY <1>1, <1>2, GatePromises, PTL DEF GateSpec

-----------------------------------------------------------------------------
(* The services run in one process beside the tools: one runs, and what stands
   still is as it was to begin with. *)
LEMMA GateIdles == Idles /\ running # "gate" => GateInv /\ GateTypeOK /\ Metered
BY GateInit0, MeteredInit0 DEF Idles

LEMMA FaucetIdles == Idles /\ running # "faucet" => FaucetInv
BY FaucetInit0 DEF Idles

LEMMA LimitIdles == Idles /\ running # "limiter" => LimitInv
BY LimitInit0 DEF Idles

LEMMA QuoteIdles == Idles /\ running # "quotes" => QuoteInv
BY QuoteInit0 DEF Idles

LEMMA ServicesInit == Init => ServicesIInv
<1> SUFFICES ASSUME Init PROVE ServicesIInv
  OBVIOUS
<1>1. GateInit /\ FaucetInit /\ LimitInit /\ QuoteInit
  BY DEF Init
<1>2. Idles
  BY <1>1, ClockAssumption DEF Idles, Times, GateInit, FaucetInit, LimitInit, QuoteInit
<1>3. GateInv /\ GateTypeOK /\ Metered /\ FaucetInv /\ LimitInv /\ QuoteInv
  <2>1. now \in Times
    BY <1>2 DEF Idles
  <2> QED
    BY <1>1, <2>1, GateInit0, MeteredInit0, FaucetInit0, LimitInit0, QuoteInit0
    DEF GateInit, FaucetInit, LimitInit, QuoteInit
<1> QED
  BY <1>2, <1>3 DEF ServicesIInv

LEMMA ServicesSame ==
  ASSUME ServicesIInv, UNCHANGED <<running, now, gateVars, faucetVars, limitVars, quoteVars>>
  PROVE  ServicesIInv'
<1>1. Idles'
  BY DEF ServicesIInv, Idles, gateVars, faucetVars, limitVars, quoteVars
<1>2. running = "gate" => GateInv' /\ GateTypeOK' /\ Metered'
  BY GateStep, MeteredStep DEF ServicesIInv
<1>3. running = "faucet" => FaucetInv'
  BY FaucetStep DEF ServicesIInv
<1>4. running = "limiter" => LimitInv'
  BY LimitStep DEF ServicesIInv
<1>5. running = "quotes" => QuoteInv'
  BY QuoteStep DEF ServicesIInv
<1> QED
  BY <1>1, <1>2, <1>3, <1>4, <1>5 DEF ServicesIInv

LEMMA ServicesStep ==
  ASSUME ServicesIInv, [Next]_vars
  PROVE  ServicesIInv'
<1>1. CASE UNCHANGED vars
  <2>1. UNCHANGED <<running, now, gateVars, faucetVars, limitVars, quoteVars>>
    BY <1>1 DEF vars, apiVars
  <2> QED
    BY <2>1, ServicesSame
<1>2. CASE Gate /\ GateNext
  <2>1. /\ running = "gate" /\ running' = running /\ GateNext
        /\ UNCHANGED <<faucetVars, limitVars, quoteVars>>
    BY <1>2 DEF Gate
  <2>2. GateInv' /\ GateTypeOK' /\ Metered'
    BY <2>1, GateStep, MeteredStep DEF ServicesIInv
  <2>3. Idles'
    BY <2>1, <2>2 DEF ServicesIInv, Idles, GateTypeOK, faucetVars, limitVars, quoteVars
  <2> QED
    BY <2>1, <2>2, <2>3 DEF ServicesIInv
<1>3. CASE running = "faucet" /\ Others /\ UNCHANGED <<limitVars, quoteVars>> /\ FaucetNext
  <2>1. running' = running /\ UNCHANGED <<gateVars, limitVars, quoteVars>> /\ FaucetNext
    BY <1>3 DEF Others
  <2>2. FaucetInv'
    BY <1>3, <2>1, FaucetStep DEF ServicesIInv
  <2>3. Idles'
    BY <1>3, <2>1, <2>2 DEF ServicesIInv, Idles, FaucetInv, FaucetTypeOK, gateVars, limitVars, quoteVars
  <2> QED
    BY <1>3, <2>1, <2>2, <2>3 DEF ServicesIInv
<1>4. CASE running = "limiter" /\ Others /\ UNCHANGED <<faucetVars, quoteVars>> /\ LimitNext
  <2>1. running' = running /\ UNCHANGED <<gateVars, faucetVars, quoteVars>> /\ LimitNext
    BY <1>4 DEF Others
  <2>2. LimitInv'
    BY <1>4, <2>1, LimitStep DEF ServicesIInv
  <2>3. Idles'
    BY <1>4, <2>1, <2>2 DEF ServicesIInv, Idles, LimitInv, gateVars, faucetVars, quoteVars
  <2> QED
    BY <1>4, <2>1, <2>2, <2>3 DEF ServicesIInv
<1>5. CASE running = "quotes" /\ Others /\ UNCHANGED <<faucetVars, limitVars>> /\ QuoteNext
  <2>1. running' = running /\ UNCHANGED <<gateVars, faucetVars, limitVars>> /\ QuoteNext
    BY <1>5 DEF Others
  <2>2. QuoteInv'
    BY <1>5, <2>1, QuoteStep DEF ServicesIInv
  <2>3. Idles'
    BY <1>5, <2>1, <2>2 DEF ServicesIInv, Idles, QuoteInv, gateVars, faucetVars, limitVars
  <2> QED
    BY <1>5, <2>1, <2>2, <2>3 DEF ServicesIInv
<1>6. CASE UNCHANGED <<running, apiVars>>
  BY <1>6, ServicesSame DEF apiVars
<1> QED
  BY <1>1, <1>2, <1>3, <1>4, <1>5, <1>6 DEF Next

LEMMA ServicesPromise ==
  ASSUME ServicesIInv
  PROVE  ServiceInv /\ PaidOnceServedOnce /\ OncePerCooldown /\ NoncesUnique
<1>1. GateInv /\ GateTypeOK /\ Metered /\ FaucetInv /\ LimitInv /\ QuoteInv
  BY GateIdles, FaucetIdles, LimitIdles, QuoteIdles DEF ServicesIInv
<1>2. PaidOnceServedOnce
  BY <1>1 DEF GateInv, Once, PaidOnceServedOnce
<1>3. TypeOK
  BY <1>1 DEF TypeOK, FaucetInv, LimitInv, QuoteInv
<1> QED
  BY <1>1, <1>2, <1>3, GatePromises, FaucetPromises, LimitPromises, QuotePromises DEF ServiceInv

(* The books of each service hold in every state, in one process and after its
   restarts. *)
THEOREM ServicesInductive == Spec => []ServicesIInv
BY ServicesInit, ServicesStep, PTL DEF Spec

(* In one process and beside the tools too, the services keep their books (what
   is metered was paid, a slot was earned, the buckets kept are recent, rates
   follow the tenor) and do nothing twice: no payment is served, no wallet paid
   within the cooldown, no nonce signed again. *)
THEOREM ServicesKeepPromises ==
  Spec => [](ServiceInv /\ PaidOnceServedOnce /\ OncePerCooldown /\ NoncesUnique)
BY ServicesInductive, ServicesPromise, PTL

(* The limiter implements a bucket per key that is always there whatever else
   runs (ratelimit.go:44-79). *)
THEOREM LimiterBesideTheOthers == Spec => LimiterIsTokenBuckets
<1>1. ServicesIInv /\ [Next]_vars => [TokenBuckets!Next]_<<[k \in Keys |-> Level(k)], answer>>
  <2> SUFFICES ASSUME ServicesIInv, [Next]_vars
               PROVE  [TokenBuckets!Next]_<<[k \in Keys |-> Level(k)], answer>>
    OBVIOUS
  <2>1. CASE running = "limiter" /\ LimitNext
    BY <2>1, LimitImplements DEF ServicesIInv
  <2>2. CASE running # "limiter" /\ UNCHANGED limitVars
    BY <2>2 DEF ServicesIInv, Idles, limitVars, Level, Full
  <2>3. CASE UNCHANGED <<now, limitVars>>
    BY <2>3 DEF limitVars, Level, Full
  <2> QED
    BY <2>1, <2>2, <2>3 DEF Next, Gate, Others, vars, apiVars
<1>2. Init => TokenBuckets!Init
  BY LimitInitImplements DEF Init
<1> QED
  BY <1>1, <1>2, ServicesInductive, PTL DEF Spec, LimiterIsTokenBuckets, TokenBuckets!Spec

-----------------------------------------------------------------------------
(* send-usdc.ts: transfers whose run gave up on them, and what the treasury and
   the association still are while nobody else moved. *)
Awaited == IF sending = "receipt" THEN 1 ELSE 0
SendInv ==
  /\ sending \in {"off", "balance", "association", "transfer", "receipt", "report", "reverted"}
  /\ {inFlight, treasuryHolds, recipientHolds, said} \subseteq Nat
  /\ associated \in BOOLEAN /\ lost \in 0 .. MaxLost /\ turns \in 0 .. MaxTurns
  /\ treasuryHolds + recipientHolds <= Funds
  /\ Awaited <= inFlight /\ inFlight <= lost + Awaited
  /\ said * Amount <= recipientHolds
  /\ recipientHolds + (inFlight - Awaited) * Amount <= (said + lost) * Amount
  /\ turns = 0 /\ lost = 0 =>
       /\ sending \in {"association", "transfer", "receipt"} => treasuryHolds >= Amount
       /\ sending \in {"transfer", "receipt"} => associated
       /\ sending # "reverted"

(* verify-claims.ts: what was counted so far says of the claims behind it. *)
VerifyInv ==
  /\ checking \in DOMAIN Order /\ ending \in {"runs", "threw", "exit0", "exit1"}
  /\ failures \in Nat /\ failures <= checking
  /\ named \subseteq Claims /\ holds \subseteq Claims /\ wasTrue \subseteq Claims /\ wasFalse \subseteq Claims
  /\ holds \subseteq wasTrue /\ Claims \ holds \subseteq wasFalse
  /\ silent \in BOOLEAN /\ flaps \in 0 .. MaxFlaps
  /\ failures # 0 => silent \/ named \cap wasFalse # {}
  /\ ending = "runs" =>
       /\ failures < checking
       /\ failures = 0 => \A i \in 1 .. checking - 1 : Order[i] \in named => Order[i] \in wasTrue
  /\ ending = "exit0" => named \subseteq wasTrue
  /\ ending = "exit1" => failures # 0

(* seed-market.ts: a listing that a run gave up on may be mined under the next
   one and stop it, once; an invoice without its record is owed to a stop. *)
Waiting == IF run.step = "wait" THEN 1 ELSE 0
Overtaken == IF run.step \in {"quote", "list", "wait"} /\ run.at \in onMarket THEN 1 ELSE 0
InHand == IF run.step \in {"wait", "attest"} THEN 1 ELSE 0
Unanchored == {i \in Book \ onTopic : i \in onMarket \/ signed[i] > 0}
SeedTyped ==
  /\ run \in {Off} \cup [at: 1 .. BookLength + 1, step: {"look", "quote", "list", "wait", "attest", "done"}]
  /\ run.step \notin {"off", "done"} => run.at \in Book
  /\ signed \in [Book -> Nat] /\ stopped \in Nat
  /\ onMarket \subseteq Book /\ onTopic \subseteq onMarket
SeedInv ==
  /\ SeedTyped
  /\ run.step = "attest" => run.at \in onMarket
  /\ run.step \in {"wait", "attest"} => run.at \notin onTopic
  /\ run.step = "wait" => signed[run.at] > 0
  /\ \E t \in 0 .. MaxFailures :
       t <= stopped /\ stopped + Total(signed) - Waiting + Overtaken <= 2 * t
  /\ Cardinality(Unanchored) <= stopped + InHand

(* apps/ats: the calls on their way, but for the one a command waits for, were
   given up by commands that stopped. *)
Calling == command # Idle /\ "call" \in DOMAIN command
Recording == command # Idle /\ "record" \in DOMAIN command
OnWire(ops) == {i \in DOMAIN wire : wire[i].op \in ops}
One(condition) == IF condition THEN 1 ELSE 0
Awaits(ops) == Calling /\ command.sent /\ command.call.op \in ops
GivenUp(ops) == Cardinality(OnWire(ops)) - One(Awaits(ops))
Stray == {t \in DOMAIN securities : \A r \in References : atsBonds[r] # t}
Deploy == {"deployBond"}
Owed == One(Recording)
Deploying == One(Calling /\ ~command.sent /\ command.call.op = "deployBond")
Repeating == One(Awaits(AllowCalls) /\ AlreadyDone(command.call))

(* A call concerns a security there is, of which the operator is an issuer where
   that is needed. *)
Sensible(call) ==
  /\ call.op # "deployBond" => call.pair[1] \in DOMAIN securities
  /\ call.op \in {"grantKyc", "addToControlList", "mint"} => call.pair[1] \in issuers

AtsTyped ==
  /\ command \in Commands \cup {Idle} /\ wire \in Seq(Call)
  /\ securities \in Seq(References) /\ atsBonds \in [References -> Nat]
  /\ spoilt \in [stops: Nat, expiries: Nat, reverts: Nat]
  /\ issuers \subseteq DOMAIN securities
  /\ kyc \cup allowlist \cup held \subseteq issuers \X Subjects
  /\ \A r \in References : atsBonds[r] # 0 =>
       atsBonds[r] \in DOMAIN securities /\ securities[atsBonds[r]] = r
AtsCalls ==
  /\ \A i \in DOMAIN wire : Sensible(wire[i])
  /\ Calling => Sensible(command.call)
  /\ Calling /\ command.sent => wire # <<>> /\ wire[Len(wire)] = command.call
  /\ Calling /\ command.call.op = "deployBond" => atsBonds[command.call.ref] = 0
  /\ Recording => command.record \in DOMAIN securities /\ atsBonds[securities[command.record]] = 0
AtsBooks ==
  /\ Len(securities) + Cardinality(OnWire(Deploy)) + Deploying <= MaxTokens
  /\ Cardinality(Stray) + GivenUp(Deploy) <= spoilt.stops + Owed
  /\ spoilt.reverts + GivenUp(AllowCalls) + Repeating <= spoilt.stops
AtsInv == AtsTyped /\ AtsCalls /\ AtsBooks

ToolsIInv == SendInv /\ VerifyInv /\ SeedInv /\ AtsInv

-----------------------------------------------------------------------------
(* Sending one amount more or less. *)
LEMMA OneAmount ==
  ASSUME NEW n \in Int
  PROVE  (n + 1) * Amount = n * Amount + Amount /\ (n - 1) * Amount = n * Amount - Amount
BY SendConstants

(* A new operator sees a treasury and nothing on its way. *)
LEMMA SendStarts == SendInit => SendInv
BY SendConstants DEF SendInit, SendInv, Awaited

(* A step that moves the script alone, and not into a wait or a revert. *)
LEMMA SendMoves ==
  ASSUME SendInv, NEW from, NEW to \in {"off", "balance", "association", "transfer"},
         SendStep(from, to), from # "receipt",
         to \in {"association", "transfer"} => treasuryHolds >= Amount \/ turns # 0 \/ lost # 0,
         to = "transfer" => associated
  PROVE  SendInv'
<1>1. /\ sending' = to /\ sending = from
      /\ UNCHANGED <<inFlight, treasuryHolds, recipientHolds, associated, turns, said, lost>>
  BY DEF SendStep, Accounts
<1>2. Awaited' = 0 /\ Awaited = 0
  BY <1>1 DEF Awaited
<1> QED
  BY <1>1, <1>2 DEF SendInv

(* A transfer is mined: the one the script awaits, or one it gave up on. *)
LEMMA SendMined == ASSUME SendInv, MineTransfer PROVE SendInv'
<1> DEFINE accepted == associated /\ treasuryHolds >= Amount
<1>1. /\ inFlight > 0 /\ inFlight' = inFlight - 1 /\ UNCHANGED <<associated, turns, lost>>
      /\ treasuryHolds' = IF accepted THEN treasuryHolds - Amount ELSE treasuryHolds
      /\ recipientHolds' = IF accepted THEN recipientHolds + Amount ELSE recipientHolds
  BY DEF MineTransfer
<1>2. /\ {inFlight, treasuryHolds, recipientHolds, said} \subseteq Nat /\ lost \in Nat /\ turns \in Nat
      /\ Amount \in Nat \ {0} /\ Awaited \in {0, 1}
      /\ Awaited <= inFlight /\ inFlight <= lost + Awaited
      /\ said * Amount <= recipientHolds
      /\ recipientHolds + (inFlight - Awaited) * Amount <= (said + lost) * Amount
  BY SendConstants DEF SendInv, Awaited
<1>3. CASE sending = "receipt" /\ inFlight = 1
  <2>1. /\ sending' = IF accepted THEN "report" ELSE "reverted"
        /\ said' = IF accepted THEN said + 1 ELSE said
    BY <1>3 DEF MineTransfer, Told
  <2>2. Awaited = 1 /\ Awaited' = 0
    BY <1>3, <2>1 DEF Awaited
  <2>3. /\ (said + 1) * Amount = said * Amount + Amount
        /\ ((said + lost) + 1) * Amount = (said + lost) * Amount + Amount
    BY <1>2, OneAmount
  <2>4. inFlight - Awaited = 0 /\ inFlight' - Awaited' = 0
    BY <1>1, <1>3, <2>2
  <2>5. recipientHolds <= (said + lost) * Amount
    BY <1>2, <2>4
  <2>6. CASE accepted
    <3>1. said' + lost' = (said + lost) + 1 /\ said' = said + 1 /\ recipientHolds' = recipientHolds + Amount
      BY <1>1, <1>2, <2>1, <2>6
    <3>2. (said' + lost') * Amount = (said + lost) * Amount + Amount /\ said' * Amount = said * Amount + Amount
      BY <2>3, <3>1
    <3>3. (said + lost) * Amount \in Int /\ said * Amount \in Int
      BY <1>2
    <3>4. said' * Amount <= recipientHolds' /\ recipientHolds' <= (said' + lost') * Amount
      BY <1>2, <2>5, <3>1, <3>2, <3>3
    <3>5. recipientHolds' + (inFlight' - Awaited') * Amount <= (said' + lost') * Amount
      BY <1>2, <2>4, <3>1, <3>4
    <3> QED
      BY <1>1, <1>2, <1>3, <2>1, <2>2, <2>6, <3>1, <3>4, <3>5 DEF SendInv
  <2>7. CASE ~accepted
    <3>1. turns # 0 \/ lost # 0
      BY <1>3, <2>7 DEF SendInv
    <3>2. recipientHolds' + (inFlight' - Awaited') * Amount <= (said' + lost') * Amount
      BY <1>1, <1>2, <2>1, <2>4, <2>5, <2>7
    <3> QED
      BY <1>1, <1>2, <1>3, <2>1, <2>2, <2>7, <3>1, <3>2 DEF SendInv
  <2> QED
    BY <2>6, <2>7
<1>4. CASE ~(sending = "receipt" /\ inFlight = 1)
  <2>1. UNCHANGED <<sending, said>>
    BY <1>4 DEF MineTransfer
  <2>2. Awaited' = Awaited /\ Awaited <= inFlight' /\ lost # 0
    BY <1>1, <1>2, <1>4, <2>1 DEF Awaited
  <2>3. (inFlight' - Awaited') * Amount = (inFlight - Awaited) * Amount - Amount
    <3>1. inFlight' - Awaited' = (inFlight - Awaited) - 1
      BY <1>1, <1>2, <2>2
    <3> QED
      BY <1>2, <3>1, OneAmount
  <2>4. (inFlight - Awaited) * Amount \in Int /\ (said + lost) * Amount \in Int /\ said * Amount \in Int
    BY <1>2
  <2>5. /\ recipientHolds' + (inFlight' - Awaited') * Amount <= (said + lost) * Amount
        /\ said * Amount <= recipientHolds'
    BY <1>1, <1>2, <2>3, <2>4
  <2> QED
    BY <1>1, <1>2, <2>1, <2>2, <2>5 DEF SendInv
<1> QED
  BY <1>3, <1>4

(* No step of the script, of the network or of others breaks its books. *)
LEMMA SendKeeps == SendInv /\ [SendNext]_sendVars => SendInv'
<1> SUFFICES ASSUME SendInv, [SendNext]_sendVars PROVE SendInv'
  OBVIOUS
<1>1. CASE StartSending
  BY <1>1, SendMoves DEF StartSending
<1>2. CASE CheckBalance
  <2>1. treasuryHolds \in Int /\ Amount \in Int
    BY SendConstants DEF SendInv
  <2> QED
    BY <1>2, <2>1, SendMoves DEF CheckBalance
<1>3. CASE CheckAssociation
  <2>1. sending = "association"
    BY <1>3 DEF CheckAssociation, SendStep
  <2>2. (turns = 0 /\ lost = 0 => treasuryHolds >= Amount) /\ associated \in BOOLEAN
    BY <2>1 DEF SendInv
  <2> QED
    BY <1>3, <2>2, SendMoves DEF CheckAssociation
<1>4. CASE SendTransfer
  <2>1. /\ sending = "transfer" /\ sending' = "receipt" /\ inFlight' = inFlight + 1
        /\ UNCHANGED <<treasuryHolds, recipientHolds, associated, turns, said, lost>>
    BY <1>4 DEF SendTransfer, Accounts
  <2>2. Awaited = 0 /\ Awaited' = 1 /\ inFlight \in Nat
    BY <2>1 DEF SendInv, Awaited
  <2>3. inFlight' - Awaited' = inFlight - Awaited
    BY <2>1, <2>2
  <2> QED
    BY <2>1, <2>2, <2>3 DEF SendInv
<1>5. CASE MineTransfer
  BY <1>5, SendMined
<1>6. CASE ReportBalances
  BY <1>6, SendMoves DEF ReportBalances
<1>7. CASE Unanswered
  BY <1>7, SendMoves DEF Unanswered
<1>8. CASE ReceiptLost
  <2>1. /\ sending = "receipt" /\ sending' = "off" /\ lost < MaxLost /\ lost' = lost + 1
        /\ UNCHANGED <<inFlight, treasuryHolds, recipientHolds, associated, turns, said>>
    BY <1>8 DEF ReceiptLost, Accounts
  <2>2. Awaited = 1 /\ Awaited' = 0 /\ {inFlight, said, recipientHolds} \subseteq Nat /\ lost \in Nat /\ MaxLost \in Nat
    BY <2>1, SendConstants DEF SendInv, Awaited
  <2>3. /\ (inFlight - Awaited) * Amount = inFlight * Amount - Amount
        /\ ((said + lost) + 1) * Amount = (said + lost) * Amount + Amount
    BY <2>2, OneAmount
  <2>4. inFlight' - Awaited' = inFlight /\ said' + lost' = (said + lost) + 1
    BY <2>1, <2>2
  <2>5. inFlight * Amount \in Int /\ (said + lost) * Amount \in Int /\ Amount \in Int
    BY <2>2, SendConstants
  <2>6. recipientHolds' + (inFlight' - Awaited') * Amount <= (said' + lost') * Amount
    BY <2>1, <2>2, <2>3, <2>4, <2>5 DEF SendInv
  <2> QED
    BY <2>1, <2>2, <2>6 DEF SendInv
<1>9. CASE OthersTurn
  <2>1. /\ turns' = turns + 1 /\ turns < MaxTurns /\ UNCHANGED <<sending, inFlight, recipientHolds, said, lost>>
        /\ \/ treasuryHolds > 0 /\ treasuryHolds' = treasuryHolds - 1 /\ associated' = associated
           \/ associated' = ~associated /\ treasuryHolds' = treasuryHolds
    BY <1>9 DEF OthersTurn, TreasurySpends, Associate
  <2>2. Awaited' = Awaited /\ turns' # 0 /\ turns' \in 0 .. MaxTurns
    BY <2>1, SendConstants DEF Awaited, SendInv
  <2>3. /\ inFlight' = inFlight /\ recipientHolds' = recipientHolds /\ said' = said /\ lost' = lost
        /\ sending' = sending
    BY <2>1
  <2>4. /\ said' * Amount <= recipientHolds'
        /\ recipientHolds' + (inFlight' - Awaited') * Amount <= (said' + lost') * Amount
    BY <2>2, <2>3 DEF SendInv
  <2>5. treasuryHolds' \in Nat /\ treasuryHolds' + recipientHolds' <= Funds /\ associated' \in BOOLEAN
    <3>1. treasuryHolds \in Nat /\ recipientHolds \in Nat /\ Funds \in Nat /\ associated \in BOOLEAN
          /\ treasuryHolds + recipientHolds <= Funds
      BY SendConstants DEF SendInv
    <3>2. associated' \in BOOLEAN
      BY <2>1, <3>1
    <3> QED
      BY <2>1, <2>3, <3>1, <3>2
  <2>6. /\ {inFlight', recipientHolds', said'} \subseteq Nat /\ lost' \in 0 .. MaxLost
        /\ Awaited' <= inFlight' /\ inFlight' <= lost' + Awaited'
        /\ sending' \in {"off", "balance", "association", "transfer", "receipt", "report", "reverted"}
    BY <2>2, <2>3 DEF SendInv
  <2> QED
    BY <2>2, <2>4, <2>5, <2>6 DEF SendInv
<1>10. CASE UNCHANGED sendVars
  BY <1>10 DEF sendVars, SendInv, Awaited
<1> QED
  BY <1>1, <1>2, <1>3, <1>4, <1>5, <1>6, <1>7, <1>8, <1>9, <1>10 DEF SendNext

(* Which is what the script promises. *)
LEMMA SendPromises == SendInv => SendTypeOK /\ RevertsAreRaces /\ SentIsThere
<1> SUFFICES ASSUME SendInv PROVE SendTypeOK /\ RevertsAreRaces /\ SentIsThere
  OBVIOUS
<1>1. /\ {inFlight, treasuryHolds, recipientHolds, said} \subseteq Nat /\ lost \in 0 .. MaxLost
      /\ Awaited \in {0, 1} /\ MaxLost \in Nat /\ MaxTurns \in Nat /\ Funds \in Nat /\ Amount \in Nat
  BY SendConstants DEF SendInv, Awaited
<1>2. SendTypeOK
  BY <1>1 DEF SendInv, SendTypeOK
<1>3. (inFlight - Awaited) * Amount \in Nat /\ (said + lost) * Amount \in Nat
  <2>1. inFlight - Awaited \in Nat /\ said + lost \in Nat
    BY <1>1 DEF SendInv
  <2> QED
    BY <1>1, <2>1
<1>4. SentIsThere
  BY <1>1, <1>3 DEF SendInv, SentIsThere
<1>5. RevertsAreRaces
  BY <1>1 DEF SendInv, RevertsAreRaces
<1> QED
  BY <1>2, <1>4, <1>5

-----------------------------------------------------------------------------
(* The checks are eight, and each names a claim. *)
LEMMA OrderIs ==
  /\ Len(Order) = 8 /\ DOMAIN Order = 1 .. 8 /\ Claims = {Order[i] : i \in 1 .. 8}
BY DEF Order, Claims

(* Before the first check. *)
LEMMA VerifyStarts == VerifyInit => VerifyInv
<1> SUFFICES ASSUME VerifyInit PROVE VerifyInv
  OBVIOUS
<1>1. named \subseteq Claims /\ holds \subseteq Claims
  BY DEF VerifyInit
<1>2. 0 \in 0 .. MaxFlaps
  BY VerifyConstants
<1>3. /\ checking = 1 /\ failures = 0 /\ ending = "runs" /\ silent = FALSE /\ flaps = 0
      /\ wasTrue = holds /\ wasFalse = Claims \ holds
  BY DEF VerifyInit
<1>4. checking \in DOMAIN Order /\ \A i \in 1 .. checking - 1 : FALSE
  BY <1>3, OrderIs
<1>5. /\ failures \in Nat /\ failures < checking /\ failures <= checking
      /\ flaps \in 0 .. MaxFlaps /\ ending \in {"runs", "threw", "exit0", "exit1"}
  BY <1>2, <1>3
<1>6. silent \in BOOLEAN
  BY <1>3
<1>7. holds \subseteq wasTrue /\ Claims \ holds \subseteq wasFalse /\ wasTrue \subseteq Claims /\ wasFalse \subseteq Claims
  BY <1>1, <1>3
<1> QED
  BY <1>1, <1>3, <1>4, <1>5, <1>6, <1>7 DEF VerifyInv

(* A check that passed, failed or was skipped takes the script one further, or
   to its end. *)
LEMMA VerifyGoes ==
  ASSUME VerifyInv, ending = "runs", Go, UNCHANGED World, silent' \in BOOLEAN, silent => silent',
         \/ failures' = failures /\ (Order[checking] \in named => Order[checking] \in holds)
         \/ failures' = failures + 1 /\ (silent' \/ Order[checking] \in named \ holds)
  PROVE  VerifyInv'
<1>1. /\ checking \in 1 .. 8 /\ failures \in Nat /\ failures < checking
      /\ UNCHANGED <<named, holds, wasTrue, wasFalse, flaps>>
      /\ Order[checking] \in Claims
  BY OrderIs DEF VerifyInv, World
<1>2. failures' \in Nat /\ failures' <= checking
  BY <1>1
<1>3. failures' # 0 => silent' \/ named \cap wasFalse # {}
  BY <1>1 DEF VerifyInv
<1>4. failures' = 0 => \A i \in 1 .. checking : Order[i] \in named => Order[i] \in wasTrue
  <2> SUFFICES ASSUME failures' = 0, NEW i \in 1 .. checking, Order[i] \in named
               PROVE  Order[i] \in wasTrue
    OBVIOUS
  <2>1. failures = 0 /\ (Order[checking] \in named => Order[checking] \in holds)
    BY <1>1
  <2>2. i \in 1 .. checking - 1 \/ i = checking
    BY <1>1
  <2> QED
    BY <2>1, <2>2 DEF VerifyInv
<1>5. CASE checking < 8
  <2>1. checking' = checking + 1 /\ ending' = "runs"
    BY <1>5, OrderIs DEF Go
  <2>2. checking' \in 1 .. 8 /\ failures' < checking' /\ checking' - 1 = checking
    BY <1>1, <1>2, <1>5, <2>1
  <2> QED
    BY <1>1, <1>2, <1>3, <1>4, <2>1, <2>2, OrderIs DEF VerifyInv
<1>6. CASE ~(checking < 8)
  <2>1. checking' = checking /\ ending' = IF failures' = 0 THEN "exit0" ELSE "exit1"
    BY <1>6, OrderIs DEF Go
  <2>2. checking = 8
    BY <1>1, <1>6
  <2>3. failures' = 0 => named \subseteq wasTrue
    BY <1>4, <2>2, OrderIs DEF VerifyInv
  <2> QED
    BY <1>1, <1>2, <1>3, <2>1, <2>2, <2>3, OrderIs DEF VerifyInv
<1> QED
  BY <1>5, <1>6

(* Whichever services are out of reach and whatever changes on the way. *)
LEMMA VerifyKeeps == VerifyInv /\ [VerifyNext]_verifyVars => VerifyInv'
<1> SUFFICES ASSUME VerifyInv, [VerifyNext]_verifyVars PROVE VerifyInv'
  OBVIOUS
<1>1. CASE SkipClaim
  BY <1>1, VerifyGoes DEF SkipClaim, IsAt, VerifyInv
<1>2. CASE Answered
  BY <1>2, VerifyGoes DEF Answered, Check, IsAt, VerifyInv
<1>3. CASE Unreachable
  <2>1. ending = "runs" /\ silent' = TRUE /\ UNCHANGED World /\ Order[checking] \in named
    BY <1>3 DEF Unreachable, IsAt
  <2>2. CASE Order[checking] \in Caught
    BY <1>3, <2>1, <2>2, VerifyGoes DEF Unreachable, Check
  <2>3. CASE Order[checking] \notin Caught
    <3>1. ending' = "threw" /\ UNCHANGED <<checking, failures>>
      BY <1>3, <2>3 DEF Unreachable
    <3> QED
      BY <2>1, <3>1 DEF VerifyInv, World
  <2> QED
    BY <2>2, <2>3
<1>4. ASSUME NEW c \in Claims, Flap(c) PROVE VerifyInv'
  <2>1. /\ ending = "runs" /\ flaps < MaxFlaps /\ flaps' = flaps + 1
        /\ holds' = IF c \in holds THEN holds \ {c} ELSE holds \cup {c}
        /\ wasTrue' = wasTrue \cup holds' /\ wasFalse' = wasFalse \cup (Claims \ holds')
        /\ UNCHANGED <<checking, failures, ending, named, silent>>
    BY <1>4 DEF Flap
  <2>2. holds' \subseteq Claims /\ wasTrue \subseteq wasTrue' /\ wasFalse \subseteq wasFalse'
        /\ wasTrue' \subseteq Claims /\ wasFalse' \subseteq Claims
    BY <2>1 DEF VerifyInv
  <2>3. flaps' \in 0 .. MaxFlaps
    BY <2>1, VerifyConstants DEF VerifyInv
  <2>4. failures' # 0 => silent' \/ named' \cap wasFalse' # {}
    BY <2>1, <2>2 DEF VerifyInv
  <2>5. failures' = 0 => \A i \in 1 .. checking' - 1 : Order[i] \in named' => Order[i] \in wasTrue'
    BY <2>1, <2>2 DEF VerifyInv
  <2> QED
    BY <2>1, <2>2, <2>3, <2>4, <2>5 DEF VerifyInv
<1>5. CASE UNCHANGED verifyVars
  BY <1>5 DEF verifyVars, VerifyInv
<1> QED
  BY <1>1, <1>2, <1>3, <1>4, <1>5 DEF VerifyNext

(* Its verdict was earned. *)
LEMMA VerifyPromises == VerifyInv => VerifyTypeOK /\ VerdictIsEarned
<1> SUFFICES ASSUME VerifyInv PROVE VerifyTypeOK /\ VerdictIsEarned
  OBVIOUS
<1>1. failures \in 0 .. Len(Order)
  BY OrderIs DEF VerifyInv
<1>2. wasTrue \cup wasFalse = Claims
  BY DEF VerifyInv
<1> QED
  BY <1>1, <1>2 DEF VerifyInv, VerifyTypeOK, VerdictIsEarned

-----------------------------------------------------------------------------
Steps == {"look", "quote", "list", "wait", "attest", "done"}

(* The script is off, or at a step of an invoice of the book or past the last. *)
LEMMA RunIs ==
  SeedTyped =>
    /\ run = Off \/ (run.step \in Steps /\ run.at \in 1 .. BookLength + 1)
    /\ run.step = "off" <=> run = Off
    /\ run = [at |-> run.at, step |-> run.step]
    /\ \A i, s : run = [at |-> i, step |-> s] <=> run.at = i /\ run.step = s
BY DEF SeedTyped, Off, Steps

(* Where its moves take it. *)
LEMMA RunGoes ==
  ASSUME SeedTyped, run # Off
  PROVE  /\ \A s \in Steps : SeedTo(s) => run' = [at |-> run.at, step |-> s]
         /\ run.at \in Book /\ NextInvoice =>
              /\ run' \in [at: 1 .. BookLength + 1, step: {"look", "done"}]
              /\ run'.step = "look" => run'.at \in Book
<1>1. run = [at |-> run.at, step |-> run.step] /\ run.at \in 1 .. BookLength + 1
  BY RunIs
<1>2. ASSUME NEW s \in Steps, SeedTo(s) PROVE run' = [at |-> run.at, step |-> s]
  BY <1>1, <1>2 DEF SeedTo
<1>3. ASSUME run.at \in Book, NextInvoice
      PROVE  /\ run' \in [at: 1 .. BookLength + 1, step: {"look", "done"}]
             /\ run'.step = "look" => run'.at \in Book
  BY <1>3, SeedAssumption DEF NextInvoice, Book
<1> QED
  BY <1>2, <1>3

(* The book is finite, and so is what is left over of it. *)
LEMMA BookIsFinite ==
  IsFiniteSet(Book) /\ IsFiniteSet(Unanchored) /\ Cardinality(Unanchored) \in Nat
<1>1. IsFiniteSet(Book)
  BY SeedAssumption, FS_Interval DEF Book
<1>2. Unanchored \subseteq Book
  BY DEF Unanchored
<1> QED
  BY <1>1, <1>2, FS_Subset, FS_CardinalityType

(* A listing signed or mined changes what is on its way by one. *)
LEMMA SignedChanges ==
  ASSUME SeedTyped, NEW i \in Book, NEW n \in Nat, signed' = [signed EXCEPT ![i] = n]
  PROVE  /\ signed' \in [Book -> Nat] /\ signed'[i] = n
         /\ \A j \in Book \ {i} : signed'[j] = signed[j]
         /\ Total(signed) \in Nat /\ Total(signed') = Total(signed) - signed[i] + n
<1>1. signed \in [Book -> Nat] /\ IsFiniteSet(Book)
  BY BookIsFinite DEF SeedTyped
<1>2. signed' \in [Book -> Nat] /\ signed'[i] = n /\ \A j \in Book \ {i} : signed'[j] = signed[j]
  BY <1>1
<1>3. Total(signed') = Total(signed) - signed[i] + signed'[i]
  <2>1. \A g \in [Book -> Nat] :
          (\A j \in Book \ {i} : g[j] = signed[j]) => Total(g) = Total(signed) - signed[i] + g[i]
    BY <1>1, TotalChange
  <2> QED
    BY <1>2, <2>1
<1>4. Total(signed) \in Nat
  BY <1>1, TotalType
<1> QED
  BY <1>2, <1>3, <1>4

(* The sum is a number, also after a step. *)
LEMMA SignedTotal == ASSUME SeedTyped PROVE Total(signed) \in Nat
BY BookIsFinite, TotalType DEF SeedTyped

(* The counts that go with a place in the script. *)
LEMMA PlacesCount ==
  /\ Waiting \in {0, 1} /\ Overtaken \in {0, 1} /\ InHand \in {0, 1}
  /\ run.step = "off" => Waiting = 0 /\ Overtaken = 0 /\ InHand = 0
BY DEF Waiting, Overtaken, InHand

(* A step that sends nothing and stops nothing, before the listing is signed. *)
LEMMA SeedMoves ==
  ASSUME SeedInv, UNCHANGED <<signed, onMarket, onTopic, stopped>>,
         run.step \in {"off", "look", "quote"},
         run' \in [at: 1 .. BookLength + 1, step: {"look", "quote", "list", "done"}],
         run'.step # "done" => run'.at \in Book,
         run'.step \in {"quote", "list"} /\ run'.at \in onMarket => Overtaken = 1
  PROVE  SeedInv'
<1>1. SeedTyped' /\ run'.step \in {"look", "quote", "list", "done"}
  BY DEF SeedInv, SeedTyped
<1>2. Waiting = 0 /\ Waiting' = 0 /\ InHand = 0 /\ InHand' = 0
  BY <1>1 DEF Waiting, InHand
<1>3. Overtaken' <= Overtaken /\ Overtaken' \in {0, 1} /\ Overtaken \in {0, 1}
  BY <1>1 DEF Overtaken
<1>4. Total(signed)' = Total(signed) /\ Total(signed) \in Nat /\ Unanchored' = Unanchored
  BY SignedTotal DEF SeedInv, Unanchored
<1>5. PICK t \in 0 .. MaxFailures : t <= stopped /\ stopped + Total(signed) - Waiting + Overtaken <= 2 * t
  BY DEF SeedInv
<1>6. t <= stopped' /\ stopped' + Total(signed)' - Waiting' + Overtaken' <= 2 * t
  <2>1. stopped' = stopped /\ stopped \in Nat
    BY DEF SeedInv, SeedTyped
  <2> QED
    BY <1>2, <1>3, <1>4, <1>5, <2>1, SeedAssumption
<1>7. Cardinality(Unanchored)' <= stopped' + InHand'
  BY <1>2, <1>4 DEF SeedInv
<1> QED
  BY <1>1, <1>5, <1>6, <1>7 DEF SeedInv

(* A run stops: for a trouble of its own, which may leave a listing on its way, or
   because a listing of an earlier run came first. *)
LEMMA SeedStops ==
  ASSUME SeedInv, Stop, SeedTyped', Unanchored' \subseteq Unanchored,
         \/ stopped < MaxFailures /\ Total(signed') <= Total(signed)
         \/ Overtaken = 1 /\ Total(signed') <= Total(signed) - Waiting
  PROVE  SeedInv'
<1>1. run' = Off /\ stopped' = stopped + 1 /\ stopped \in Nat /\ MaxFailures \in Nat
  BY SeedAssumption DEF Stop, SeedInv, SeedTyped
<1>2. Waiting' = 0 /\ Overtaken' = 0 /\ InHand' = 0
  BY <1>1 DEF Off, Waiting, Overtaken, InHand
<1>3. Waiting \in {0, 1} /\ Overtaken \in {0, 1} /\ InHand \in {0, 1}
  BY PlacesCount
<1>4. Total(signed) \in Nat /\ Total(signed') \in Nat
  <2>1. Total(signed') \in Nat
    BY BookIsFinite, TotalType DEF SeedTyped
  <2> QED
    BY <2>1, SignedTotal DEF SeedInv
<1>5. PICK t \in 0 .. MaxFailures : t <= stopped /\ stopped + Total(signed) - Waiting + Overtaken <= 2 * t
  BY DEF SeedInv
<1>6. \E u \in 0 .. MaxFailures : u <= stopped' /\ stopped' + Total(signed') - Waiting' + Overtaken' <= 2 * u
  <2>1. CASE stopped < MaxFailures /\ Total(signed') <= Total(signed)
    <3>1. t + 1 \in 0 .. MaxFailures /\ t + 1 <= stopped'
      BY <1>1, <1>5, <2>1
    <3>2. stopped' + Total(signed') - Waiting' + Overtaken' <= 2 * (t + 1)
      BY <1>1, <1>2, <1>3, <1>4, <1>5, <2>1
    <3> QED
      BY <3>1, <3>2
  <2>2. CASE Overtaken = 1 /\ Total(signed') <= Total(signed) - Waiting
    <3>1. t <= stopped' /\ stopped' + Total(signed') - Waiting' + Overtaken' <= 2 * t
      BY <1>1, <1>2, <1>3, <1>4, <1>5, <2>2
    <3> QED
      BY <1>5, <3>1
  <2> QED
    BY <2>1, <2>2
<1>7. Cardinality(Unanchored') <= stopped' + InHand'
  <2>1. Cardinality(Unanchored') <= Cardinality(Unanchored)
    BY BookIsFinite, FS_Subset
  <2>2. Cardinality(Unanchored') \in Nat /\ Cardinality(Unanchored) \in Nat
    BY BookIsFinite, FS_Subset, FS_CardinalityType
  <2>3. Cardinality(Unanchored) <= stopped + InHand
    BY DEF SeedInv
  <2> QED
    BY <1>1, <1>2, <1>3, <2>1, <2>2, <2>3
<1> QED
  BY <1>1, <1>6, <1>7 DEF SeedInv, Off

(* A step that keeps the run going with as much on its way that it does not await. *)
LEMMA SeedGoesOn ==
  ASSUME SeedInv, SeedTyped', UNCHANGED stopped,
         Total(signed') - Waiting' + Overtaken' <= Total(signed) - Waiting + Overtaken,
         Cardinality(Unanchored') - InHand' <= Cardinality(Unanchored) - InHand,
         run'.step = "attest" => run'.at \in onMarket',
         run'.step \in {"wait", "attest"} => run'.at \notin onTopic',
         run'.step = "wait" => signed'[run'.at] > 0,
         Cardinality(Unanchored') \in Nat
  PROVE  SeedInv'
<1>1. stopped' = stopped /\ stopped \in Nat /\ MaxFailures \in Nat
  BY SeedAssumption DEF SeedInv, SeedTyped
<1>2. /\ Waiting \in {0, 1} /\ Overtaken \in {0, 1} /\ InHand \in {0, 1}
      /\ Waiting' \in {0, 1} /\ Overtaken' \in {0, 1} /\ InHand' \in {0, 1}
  BY DEF Waiting, Overtaken, InHand
<1>3. Total(signed) \in Nat /\ Total(signed') \in Nat
  <2>1. Total(signed') \in Nat
    BY BookIsFinite, TotalType DEF SeedTyped
  <2> QED
    BY <2>1, SignedTotal DEF SeedInv
<1>4. PICK t \in 0 .. MaxFailures : t <= stopped /\ stopped + Total(signed) - Waiting + Overtaken <= 2 * t
  BY DEF SeedInv
<1>5. t <= stopped' /\ stopped' + Total(signed') - Waiting' + Overtaken' <= 2 * t
  BY <1>1, <1>2, <1>3, <1>4
<1>6. Cardinality(Unanchored) <= stopped + InHand /\ Cardinality(Unanchored) \in Nat
  BY BookIsFinite DEF SeedInv
<1>7. Cardinality(Unanchored') <= stopped' + InHand'
  BY <1>1, <1>2, <1>6
<1> QED
  BY <1>4, <1>5, <1>7 DEF SeedInv

(* Before its first run, and once it came through, nothing is left over. *)
LEMMA SeedRests ==
  ASSUME signed = [i \in Book |-> 0], onTopic = onMarket, onMarket \subseteq Book, stopped = 0,
         run \in {Off, [at |-> BookLength + 1, step |-> "done"]}
  PROVE  SeedInv
<1>1. SeedTyped
  BY SeedAssumption DEF SeedTyped, Off
<1>2. Total(signed) = 0
  <2>1. signed \in [Book -> Nat] /\ \A i \in Book : signed[i] = 0
    OBVIOUS
  <2> QED
    BY <2>1, TotalZero
<1>3. run.step \in {"off", "done"}
  BY DEF Off
<1>4. Waiting = 0 /\ Overtaken = 0 /\ InHand = 0
  BY <1>3 DEF Waiting, Overtaken, InHand
<1>5. Cardinality(Unanchored) = 0
  <2>1. Unanchored = {}
    BY DEF Unanchored
  <2> QED
    BY <2>1, FS_EmptySet
<1>6. 0 \in 0 .. MaxFailures /\ stopped + Total(signed) - Waiting + Overtaken <= 2 * 0
  BY <1>2, <1>4, SeedAssumption
<1>7. \E t \in 0 .. MaxFailures : t <= stopped /\ stopped + Total(signed) - Waiting + Overtaken <= 2 * t
  BY <1>6
<1> QED
  BY <1>1, <1>3, <1>4, <1>5, <1>7 DEF SeedInv

(* An estimate that passes puts a listing on its way; the script waits for it. *)
LEMMA SeedSends ==
  ASSUME SeedInv, SendListing, run.at \notin onMarket
  PROVE  SeedInv'
<1>1. /\ run.step = "list" /\ SeedTyped /\ run.at \in Book
      /\ signed' = [signed EXCEPT ![run.at] = @ + 1] /\ SeedTo("wait")
      /\ UNCHANGED <<onMarket, onTopic, stopped>>
  BY DEF SendListing, SeedInv, SeedTyped
<1>2. run' = [at |-> run.at, step |-> "wait"]
  <2>1. run # Off
    BY <1>1 DEF Off
  <2> QED
    BY <1>1, <2>1, RunGoes DEF Steps
<1>3. signed \in [Book -> Nat] /\ signed[run.at] + 1 \in Nat
  BY <1>1 DEF SeedTyped
<1>4. /\ signed' \in [Book -> Nat] /\ signed'[run.at] = signed[run.at] + 1
      /\ \A j \in Book \ {run.at} : signed'[j] = signed[j]
      /\ Total(signed) \in Nat /\ Total(signed') = Total(signed) + 1
  <2>1. PICK n \in Nat : n = signed[run.at] + 1
    BY <1>3
  <2>2. signed' = [signed EXCEPT ![run.at] = n]
    BY <1>1, <2>1
  <2>3. /\ signed' \in [Book -> Nat] /\ signed'[run.at] = n
        /\ \A j \in Book \ {run.at} : signed'[j] = signed[j]
        /\ Total(signed) \in Nat /\ Total(signed') = Total(signed) - signed[run.at] + n
    BY <1>1, <2>2, SignedChanges
  <2> QED
    BY <1>3, <2>1, <2>3
<1>5. SeedTyped'
  <2>1. run' \in [at: 1 .. BookLength + 1, step: {"look", "quote", "list", "wait", "attest", "done"}]
    BY <1>1, <1>2, RunIs DEF Book
  <2> QED
    BY <1>1, <1>2, <1>4, <2>1 DEF SeedTyped
<1>6. /\ Waiting = 0 /\ Waiting' = 1 /\ InHand = 0 /\ InHand' = 1
      /\ Overtaken = 0 /\ Overtaken' = 0
  BY <1>1, <1>2 DEF Waiting, InHand, Overtaken
<1>7. Cardinality(Unanchored') \in Nat /\ Cardinality(Unanchored') <= Cardinality(Unanchored) + 1
  <2>1. IsFiniteSet(Unanchored) /\ Cardinality(Unanchored) \in Nat
    BY BookIsFinite
  <2>2. /\ IsFiniteSet(Unanchored \cup {run.at})
        /\ Cardinality(Unanchored \cup {run.at}) <= Cardinality(Unanchored) + 1
    BY <2>1, FS_AddElement
  <2>3. Unanchored' \subseteq Unanchored \cup {run.at}
    BY <1>1, <1>4 DEF Unanchored
  <2>4. Cardinality(Unanchored') \in Nat /\ Cardinality(Unanchored') <= Cardinality(Unanchored \cup {run.at})
    BY <2>2, <2>3, FS_Subset, FS_CardinalityType
  <2>5. Cardinality(Unanchored \cup {run.at}) \in Nat
    BY <2>2, FS_CardinalityType
  <2> QED
    BY <2>1, <2>2, <2>4, <2>5
<1>8. signed'[run'.at] > 0 /\ run'.at \notin onTopic'
  <2>1. run.at \notin onTopic
    BY <1>1 DEF SeedTyped
  <2> QED
    BY <1>1, <1>2, <1>3, <1>4, <2>1
<1>9. /\ Total(signed') - Waiting' + Overtaken' <= Total(signed) - Waiting + Overtaken
      /\ Cardinality(Unanchored') - InHand' <= Cardinality(Unanchored) - InHand
  BY <1>4, <1>6, <1>7, BookIsFinite
<1> QED
  BY <1>1, <1>2, <1>5, <1>7, <1>8, <1>9, SeedGoesOn

(* A listing is mined: one nobody waits for, the one that lists the invoice, or
   one that comes second and ends the run. *)
LEMMA SeedMined ==
  ASSUME SeedInv, NEW i \in Book, MineListing(i)
  PROVE  SeedInv'
<1> DEFINE awaited == run = [at |-> i, step |-> "wait"] /\ signed[i] = 1
<1>1. /\ SeedTyped /\ signed[i] > 0 /\ signed' = [signed EXCEPT ![i] = @ - 1]
      /\ onMarket' = onMarket \cup {i} /\ UNCHANGED onTopic
  BY DEF MineListing, SeedInv
<1>2. signed \in [Book -> Nat] /\ signed[i] - 1 \in Nat
  BY <1>1 DEF SeedTyped
<1>3. /\ signed' \in [Book -> Nat] /\ signed'[i] = signed[i] - 1
      /\ \A j \in Book \ {i} : signed'[j] = signed[j]
      /\ Total(signed) \in Nat /\ Total(signed') = Total(signed) - 1
  <2>1. PICK n \in Nat : n = signed[i] - 1
    BY <1>2
  <2>2. signed' = [signed EXCEPT ![i] = n]
    BY <1>1, <2>1
  <2>3. /\ signed' \in [Book -> Nat] /\ signed'[i] = n
        /\ \A j \in Book \ {i} : signed'[j] = signed[j]
        /\ Total(signed) \in Nat /\ Total(signed') = Total(signed) - signed[i] + n
    BY <1>1, <2>2, SignedChanges
  <2> QED
    BY <1>2, <2>1, <2>3
<1>4. Unanchored' = Unanchored
  BY <1>1, <1>2, <1>3 DEF Unanchored
<1>5. onMarket' \subseteq Book /\ onTopic' \subseteq onMarket'
  BY <1>1 DEF SeedTyped
<1>6. Waiting \in {0, 1} /\ Overtaken \in {0, 1} /\ InHand \in {0, 1}
  BY PlacesCount
<1>7. CASE ~awaited
  <2>1. UNCHANGED <<run, stopped>>
    BY <1>7 DEF MineListing
  <2>2. SeedTyped'
    BY <1>1, <1>3, <1>5, <2>1 DEF SeedTyped
  <2>3. Waiting' = Waiting /\ InHand' = InHand /\ Overtaken' \in {0, 1}
    BY <2>1 DEF Waiting, InHand, Overtaken
  <2>4. run.step = "wait" => signed'[run.at] > 0
    <3>1. SUFFICES ASSUME run.step = "wait" PROVE signed'[run.at] > 0
      OBVIOUS
    <3>2. run.at \in Book /\ signed[run.at] > 0
      BY <1>1, <3>1 DEF SeedInv, SeedTyped
    <3>3. run.at = i => signed[i] # 1
      BY <1>1, <1>7, <3>1, RunIs
    <3> QED
      BY <1>2, <1>3, <3>2, <3>3
  <2>5. /\ run.step = "attest" => run.at \in onMarket'
        /\ run.step \in {"wait", "attest"} => run.at \notin onTopic'
    BY <1>1 DEF SeedInv
  <2>6. /\ Total(signed') - Waiting' + Overtaken' <= Total(signed) - Waiting + Overtaken
        /\ Cardinality(Unanchored') - InHand' <= Cardinality(Unanchored) - InHand
        /\ Cardinality(Unanchored') \in Nat
    BY <1>3, <1>4, <1>6, <2>3, BookIsFinite
  <2> QED
    BY <2>1, <2>2, <2>4, <2>5, <2>6, SeedGoesOn
<1>8. CASE awaited /\ i \in onMarket
  <2>1. Stop /\ run.at = i /\ run.step = "wait"
    BY <1>8 DEF MineListing
  <2>2. Waiting = 1 /\ Overtaken = 1
    BY <1>8, <2>1 DEF Waiting, Overtaken
  <2>3. SeedTyped'
    <3>1. stopped' \in Nat
      BY <1>1, <2>1 DEF Stop, SeedTyped
    <3> QED
      BY <1>1, <1>3, <1>5, <2>1, <3>1 DEF Stop, Off, SeedTyped
  <2>4. Total(signed') <= Total(signed) - Waiting
    BY <1>3, <2>2
  <2> QED
    BY <1>4, <2>1, <2>2, <2>3, <2>4, SeedStops
<1>9. CASE awaited /\ i \notin onMarket
  <2>1. SeedTo("attest") /\ UNCHANGED stopped /\ run.at = i /\ run.step = "wait"
    BY <1>9 DEF MineListing
  <2>2. run' = [at |-> i, step |-> "attest"]
    <3>1. run # Off
      BY <2>1 DEF Off
    <3> QED
      BY <1>1, <2>1, <3>1, RunGoes DEF Steps
  <2>3. Waiting = 1 /\ Waiting' = 0 /\ Overtaken = 0 /\ Overtaken' = 0 /\ InHand = 1 /\ InHand' = 1
    BY <1>9, <2>1, <2>2 DEF Waiting, Overtaken, InHand
  <2>4. SeedTyped'
    <3>1. run' \in [at: 1 .. BookLength + 1, step: {"look", "quote", "list", "wait", "attest", "done"}]
      BY <2>2, SeedAssumption DEF Book
    <3> QED
      BY <1>1, <1>3, <1>5, <2>1, <2>2, <3>1 DEF SeedTyped
  <2>5. run'.at \in onMarket' /\ run'.at \notin onTopic'
    BY <1>1, <2>1, <2>2 DEF SeedInv
  <2>6. /\ Total(signed') - Waiting' + Overtaken' <= Total(signed) - Waiting + Overtaken
        /\ Cardinality(Unanchored') - InHand' <= Cardinality(Unanchored) - InHand
        /\ Cardinality(Unanchored') \in Nat
    BY <1>3, <1>4, <2>3, BookIsFinite
  <2> QED
    BY <2>1, <2>2, <2>4, <2>5, <2>6, SeedGoesOn
<1> QED
  BY <1>7, <1>8, <1>9

(* The record is anchored, whatever the script hears of it. *)
LEMMA SeedAttests ==
  ASSUME SeedInv, AttestSeeded
  PROVE  SeedInv'
<1>1. /\ SeedTyped /\ run.step = "attest" /\ run.at \in Book /\ run.at \in onMarket /\ run.at \notin onTopic
      /\ onTopic' = onTopic \cup {run.at} /\ signed' = signed /\ onMarket' = onMarket
  BY DEF AttestSeeded, SeedInv, SeedTyped
<1>2. Unanchored' = Unanchored \ {run.at} /\ run.at \in Unanchored
  BY <1>1 DEF Unanchored
<1>3. Total(signed') = Total(signed) /\ Total(signed) \in Nat
  BY <1>1, SignedTotal
<1>4. CASE NextInvoice /\ UNCHANGED stopped
  <2>1. /\ run' \in [at: 1 .. BookLength + 1, step: {"look", "done"}]
        /\ run'.step = "look" => run'.at \in Book
    <3>1. run # Off
      BY <1>1 DEF Off
    <3> QED
      BY <1>1, <1>4, <3>1, RunGoes
  <2>2. SeedTyped'
    BY <1>1, <1>4, <2>1 DEF SeedTyped
  <2>3. Waiting = 0 /\ Waiting' = 0 /\ Overtaken = 0 /\ Overtaken' = 0 /\ InHand = 1 /\ InHand' = 0
    BY <1>1, <2>1 DEF Waiting, Overtaken, InHand
  <2>4. Cardinality(Unanchored') = Cardinality(Unanchored) - 1 /\ Cardinality(Unanchored') \in Nat
    BY <1>2, BookIsFinite, FS_RemoveElement, FS_CardinalityType
  <2>5. /\ Total(signed') - Waiting' + Overtaken' <= Total(signed) - Waiting + Overtaken
        /\ Cardinality(Unanchored') - InHand' <= Cardinality(Unanchored) - InHand
    BY <1>3, <2>3, <2>4, BookIsFinite
  <2>6. run'.step \in {"look", "done"}
    BY <2>1
  <2> QED
    BY <1>4, <2>2, <2>4, <2>5, <2>6, SeedGoesOn
<1>5. CASE Trouble
  <2>1. Stop /\ stopped < MaxFailures
    BY <1>5 DEF Trouble
  <2>2. SeedTyped'
    <3>1. stopped' \in Nat
      BY <1>1, <2>1 DEF Stop, SeedTyped
    <3> QED
      BY <1>1, <2>1, <3>1 DEF Stop, Off, SeedTyped
  <2>3. Total(signed') <= Total(signed) /\ Unanchored' \subseteq Unanchored
    BY <1>2, <1>3
  <2> QED
    BY <2>1, <2>2, <2>3, SeedStops
<1> QED
  BY <1>4, <1>5 DEF AttestSeeded

(* No step of the script or of the network breaks the count. *)
LEMMA SeedKeeps == SeedInv /\ [SeedNext]_seedVars => SeedInv'
<1> SUFFICES ASSUME SeedInv, [SeedNext]_seedVars PROVE SeedInv'
  OBVIOUS
<1>1. /\ SeedTyped /\ run = [at |-> run.at, step |-> run.step] /\ Total(signed) \in Nat
      /\ run.step = "off" <=> run = Off
      /\ run.step \notin {"off", "done"} => run.at \in Book
  BY RunIs, SignedTotal DEF SeedInv, SeedTyped
<1>2. CASE StartSeeding
  <2>1. /\ run' = [at |-> 1, step |-> "look"] /\ run.step = "off"
        /\ UNCHANGED <<signed, onMarket, onTopic, stopped>>
    BY <1>1, <1>2 DEF StartSeeding
  <2>2. 1 \in Book /\ 1 \in 1 .. BookLength + 1
    BY SeedAssumption DEF Book
  <2> QED
    BY <2>1, <2>2, SeedMoves
<1>3. CASE Look
  <2>1. run.step = "look" /\ run # Off /\ run.at \in Book /\ UNCHANGED <<signed, onMarket, onTopic, stopped>>
    BY <1>1, <1>3 DEF Look
  <2>2. CASE run.at \in onMarket /\ NextInvoice
    <3>1. /\ run' \in [at: 1 .. BookLength + 1, step: {"look", "done"}]
          /\ run'.step = "look" => run'.at \in Book
      BY <1>1, <2>1, <2>2, RunGoes
    <3> QED
      BY <2>1, <3>1, SeedMoves
  <2>3. CASE run.at \notin onMarket /\ SeedTo("quote")
    <3>1. run' = [at |-> run.at, step |-> "quote"] /\ run.at \in 1 .. BookLength + 1
      BY <1>1, <2>1, <2>3, RunGoes, RunIs DEF Steps
    <3> QED
      BY <2>1, <2>3, <3>1, SeedMoves
  <2> QED
    BY <1>3, <2>2, <2>3 DEF Look
<1>4. CASE QuoteSeeded
  <2>1. /\ run.step = "quote" /\ run # Off /\ run.at \in Book /\ SeedTo("list")
        /\ UNCHANGED <<signed, onMarket, onTopic, stopped>>
    BY <1>1, <1>4 DEF QuoteSeeded
  <2>2. run' = [at |-> run.at, step |-> "list"] /\ run.at \in 1 .. BookLength + 1
    BY <1>1, <2>1, RunGoes, RunIs DEF Steps
  <2>3. run.at \in onMarket => Overtaken = 1
    BY <2>1 DEF Overtaken
  <2> QED
    BY <2>1, <2>2, <2>3, SeedMoves
<1>5. CASE SendListing
  <2>1. CASE run.at \notin onMarket
    BY <1>5, <2>1, SeedSends
  <2>2. CASE run.at \in onMarket
    <3>1. Stop /\ run.step = "list" /\ signed' = signed /\ UNCHANGED <<onMarket, onTopic>>
      BY <1>5, <2>2 DEF SendListing
    <3>2. Overtaken = 1 /\ Waiting = 0
      BY <2>2, <3>1 DEF Overtaken, Waiting
    <3>3. SeedTyped'
      <4>1. stopped' \in Nat
        BY <1>1, <3>1 DEF Stop, SeedTyped
      <4> QED
        BY <1>1, <3>1, <4>1 DEF Stop, Off, SeedTyped
    <3>4. Total(signed') <= Total(signed) - Waiting /\ Unanchored' \subseteq Unanchored
      BY <1>1, <3>1, <3>2 DEF Unanchored
    <3> QED
      BY <3>1, <3>2, <3>3, <3>4, SeedStops
  <2> QED
    BY <2>1, <2>2
<1>6. CASE AttestSeeded
  BY <1>6, SeedAttests
<1>7. CASE Ended
  <2>1. Stop /\ stopped < MaxFailures /\ signed' = signed /\ UNCHANGED <<onMarket, onTopic>>
    BY <1>7 DEF Ended, Trouble
  <2>2. SeedTyped'
    <3>1. stopped' \in Nat
      BY <1>1, <2>1 DEF Stop, SeedTyped
    <3> QED
      BY <1>1, <2>1, <3>1 DEF Stop, Off, SeedTyped
  <2>3. Total(signed') <= Total(signed) /\ Unanchored' \subseteq Unanchored
    BY <1>1, <2>1 DEF Unanchored
  <2> QED
    BY <2>1, <2>2, <2>3, SeedStops
<1>8. ASSUME NEW i \in Book, MineListing(i) PROVE SeedInv'
  BY <1>8, SeedMined
<1>9. CASE UNCHANGED seedVars
  BY <1>9 DEF seedVars, SeedInv, SeedTyped, Waiting, Overtaken, InHand, Unanchored
<1> QED
  BY <1>2, <1>3, <1>4, <1>5, <1>6, <1>7, <1>8, <1>9 DEF SeedNext

(* So no run leaves more behind than itself. *)
LEMMA SeedPromises == SeedInv => SeedTypeOK /\ LeftoversAreStops
<1> SUFFICES ASSUME SeedInv PROVE SeedTypeOK /\ LeftoversAreStops
  OBVIOUS
<1>1. /\ SeedTyped /\ Total(signed) \in Nat /\ stopped \in Nat /\ MaxFailures \in Nat
      /\ Waiting \in {0, 1} /\ Overtaken \in {0, 1}
  BY SignedTotal, PlacesCount, SeedAssumption DEF SeedInv, SeedTyped
<1>2. PICK t \in 0 .. MaxFailures : t <= stopped /\ stopped + Total(signed) - Waiting + Overtaken <= 2 * t
  BY DEF SeedInv
<1>3. Waiting <= Total(signed)
  <2>1. CASE Waiting = 1
    <3>1. run.step = "wait" /\ run.at \in Book /\ signed[run.at] > 0
      BY <1>1, <2>1 DEF Waiting, SeedInv, SeedTyped
    <3>2. signed \in [Book -> Nat] /\ signed[run.at] <= Total(signed)
      BY <1>1, <3>1, BookIsFinite, TotalBoundsEach DEF SeedTyped
    <3> QED
      BY <1>1, <2>1, <3>1, <3>2
  <2> QED
    BY <1>1, <2>1
<1>4. stopped <= 2 * MaxFailures /\ Total(signed) <= MaxFailures + 1
  BY <1>1, <1>2, <1>3
<1>5. signed \in [Book -> 0 .. MaxFailures + 1]
  <2>1. signed \in [Book -> Nat] /\ \A i \in Book : signed[i] <= Total(signed)
    BY <1>1, BookIsFinite, TotalBoundsEach DEF SeedTyped
  <2> QED
    BY <1>1, <1>4, <2>1
<1>6. SeedTypeOK
  <2>1. stopped \in 0 .. 2 * MaxFailures
    BY <1>1, <1>4
  <2> QED
    BY <1>1, <1>5, <2>1 DEF SeedTypeOK, SeedTyped, SeedInv
<1>7. Cardinality(onMarket \ onTopic) <= stopped + InHand
  <2>1. onMarket \ onTopic \subseteq Unanchored
    BY <1>1 DEF Unanchored, SeedTyped
  <2>2. Cardinality(onMarket \ onTopic) \in Nat /\ Cardinality(onMarket \ onTopic) <= Cardinality(Unanchored)
    BY <2>1, BookIsFinite, FS_Subset, FS_CardinalityType
  <2>3. Cardinality(Unanchored) \in Nat /\ Cardinality(Unanchored) <= stopped + InHand /\ InHand \in {0, 1}
    BY BookIsFinite, PlacesCount DEF SeedInv
  <2> QED
    BY <1>1, <2>2, <2>3
<1>8. LeftoversAreStops
  BY <1>7 DEF LeftoversAreStops, InHand
<1> QED
  BY <1>6, <1>8

-----------------------------------------------------------------------------
(* What a call is. *)
LEMMA CallIs ==
  ASSUME NEW call \in Call
  PROVE  /\ call.op \in {"deployBond", "mint"} \cup AllowCalls
         /\ call.op = "deployBond" => call.ref \in References
         /\ call.op # "deployBond" => /\ call.pair \in Pairs /\ call.pair[1] \in Tokens
                                      /\ call.pair[2] \in Subjects
                                      /\ call.pair = <<call.pair[1], call.pair[2]>>
BY DEF Call, AllowCalls, Pairs

(* No command, a call of one, or the record that follows a deployment. *)
LEMMA CommandIs ==
  ASSUME command \in Commands \cup {Idle}
  PROVE  /\ ~(Calling /\ Recording)
         /\ command # Idle => Calling \/ Recording
         /\ Calling => /\ command.call \in Call /\ command.sent \in BOOLEAN
                       /\ command = [call |-> command.call, sent |-> command.sent]
         /\ Recording => command.record \in Tokens /\ command = [record |-> command.record]
BY DEF Commands, Calling, Recording

(* The command that allow goes on with. *)
LEMMA ToIs ==
  ASSUME NEW op \in AllowCalls \cup {"mint"}, NEW p \in Pairs
  PROVE  /\ To(op, p) \in Commands /\ To(op, p) # Idle
         /\ "call" \in DOMAIN To(op, p) /\ "record" \notin DOMAIN To(op, p)
         /\ To(op, p).call \in Call /\ ~To(op, p).sent
         /\ To(op, p).call.op = op /\ To(op, p).call.pair = p
<1> DEFINE call == [op |-> op, pair |-> p]
<1>1. call \in Call /\ call.op = op /\ call.pair = p
  BY DEF Call
<1> HIDE DEF call
<1>2. [call |-> call, sent |-> FALSE] \in [call: Call, sent: BOOLEAN]
  BY <1>1
<1>3. To(op, p) = [call |-> call, sent |-> FALSE]
  BY DEF To, call
<1>4. To(op, p) \in Commands
  BY <1>2, <1>3 DEF Commands
<1>5. /\ "call" \in DOMAIN To(op, p) /\ "record" \notin DOMAIN To(op, p)
      /\ To(op, p).call = call /\ ~To(op, p).sent
  BY <1>3
<1> QED
  BY <1>1, <1>4, <1>5, AtsAssumption

(* How many calls of a kind are on the wire. *)
LEMMA WireCount ==
  ASSUME wire \in Seq(Call), NEW ops
  PROVE  /\ IsFiniteSet(OnWire(ops)) /\ Cardinality(OnWire(ops)) \in Nat
         /\ Cardinality(OnWire(ops)) <= Len(wire)
         /\ (\E i \in DOMAIN wire : wire[i].op \in ops) => Cardinality(OnWire(ops)) >= 1
<1>1. Len(wire) \in Nat /\ DOMAIN wire = 1 .. Len(wire)
  OBVIOUS
<1>2. IsFiniteSet(1 .. Len(wire)) /\ Cardinality(1 .. Len(wire)) = Len(wire)
  BY <1>1, FS_Interval
<1>3. OnWire(ops) \subseteq 1 .. Len(wire)
  BY <1>1 DEF OnWire
<1>4. IsFiniteSet(OnWire(ops)) /\ Cardinality(OnWire(ops)) <= Len(wire)
  BY <1>2, <1>3, FS_Subset
<1>5. Cardinality(OnWire(ops)) \in Nat
  BY <1>4, FS_CardinalityType
<1>6. ASSUME NEW i \in DOMAIN wire, wire[i].op \in ops PROVE Cardinality(OnWire(ops)) >= 1
  <2>1. OnWire(ops) # {}
    BY <1>6 DEF OnWire
  <2> QED
    BY <1>4, <1>5, <2>1, FS_EmptySet
<1> QED
  BY <1>4, <1>5, <1>6

(* Sending adds one. *)
LEMMA WireGrows ==
  ASSUME wire \in Seq(Call), NEW call \in Call, wire' = Append(wire, call), NEW ops
  PROVE  Cardinality(OnWire(ops)') = Cardinality(OnWire(ops)) + One(call.op \in ops)
<1>1. Len(wire) \in Nat /\ DOMAIN wire = 1 .. Len(wire) /\ DOMAIN wire' = 1 .. Len(wire) + 1
  OBVIOUS
<1>2. wire'[Len(wire) + 1] = call /\ \A i \in 1 .. Len(wire) : wire'[i] = wire[i]
  OBVIOUS
<1>3. OnWire(ops)' = IF call.op \in ops THEN OnWire(ops) \cup {Len(wire) + 1} ELSE OnWire(ops)
  BY <1>1, <1>2 DEF OnWire
<1>4. Len(wire) + 1 \notin OnWire(ops)
  BY <1>1 DEF OnWire
<1>5. IsFiniteSet(OnWire(ops)) /\ Cardinality(OnWire(ops)) \in Nat
  BY WireCount
<1>6. CASE call.op \in ops
  BY <1>3, <1>4, <1>5, <1>6, FS_AddElement DEF One
<1>7. CASE call.op \notin ops
  BY <1>3, <1>5, <1>7 DEF One
<1> QED
  BY <1>6, <1>7

(* Mining takes one away. *)
LEMMA WireShrinks ==
  ASSUME wire \in Seq(Call), wire # <<>>, wire' = Tail(wire), NEW ops
  PROVE  Cardinality(OnWire(ops)') = Cardinality(OnWire(ops)) - One(Head(wire).op \in ops)
<1>1. /\ Len(wire) \in Nat \ {0} /\ DOMAIN wire = 1 .. Len(wire) /\ DOMAIN wire' = 1 .. Len(wire) - 1
      /\ wire[1] = Head(wire)
  OBVIOUS
<1>2. \A i \in 1 .. Len(wire) - 1 : wire'[i] = wire[i + 1]
  OBVIOUS
<1> DEFINE S == OnWire(ops) \ {1}
<1> DEFINE T == OnWire(ops)'
<1> DEFINE f == [i \in S |-> i - 1]
<1>3. S = {i \in 2 .. Len(wire) : wire[i].op \in ops}
  BY <1>1 DEF OnWire
<1>4. T = {i \in 1 .. Len(wire) - 1 : wire[i + 1].op \in ops}
  BY <1>1, <1>2 DEF OnWire
<1> HIDE DEF S, T
<1>5. f \in [S -> T]
  BY <1>1, <1>3, <1>4
<1>6. \A t \in T : t + 1 \in S /\ f[t + 1] = t
  BY <1>1, <1>3, <1>4
<1>7. \A i, j \in S : f[i] = f[j] => i = j
  BY <1>1, <1>3
<1> HIDE DEF f
<1>8. f \in Surjection(S, T) /\ f \in Injection(S, T)
  BY <1>5, <1>6, <1>7 DEF Surjection, Injection, IsInjective
<1>9. IsFiniteSet(OnWire(ops)) /\ Cardinality(OnWire(ops)) \in Nat
  BY WireCount
<1>10. IsFiniteSet(S) /\ Cardinality(S) = Cardinality(OnWire(ops)) - One(1 \in OnWire(ops))
  <2>1. /\ IsFiniteSet(OnWire(ops) \ {1})
        /\ Cardinality(OnWire(ops) \ {1}) = IF 1 \in OnWire(ops) THEN Cardinality(OnWire(ops)) - 1
                                           ELSE Cardinality(OnWire(ops))
    BY <1>9, FS_RemoveElement
  <2> QED
    BY <1>9, <2>1 DEF One, S
<1>11. Cardinality(T) = Cardinality(S)
  BY <1>8, <1>10, FS_Surjection
<1>12. 1 \in OnWire(ops) <=> Head(wire).op \in ops
  BY <1>1 DEF OnWire
<1> QED
  BY <1>10, <1>11, <1>12 DEF T, One

(* The securities deployed are counted, and so are the strays among them. *)
LEMMA StrayCount ==
  ASSUME AtsTyped
  PROVE  /\ Len(securities) \in Nat /\ DOMAIN securities = 1 .. Len(securities)
         /\ IsFiniteSet(Stray) /\ Cardinality(Stray) \in Nat
         /\ spoilt.stops \in Nat /\ spoilt.reverts \in Nat /\ spoilt.expiries \in Nat
         /\ spoilt = [stops |-> spoilt.stops, expiries |-> spoilt.expiries, reverts |-> spoilt.reverts]
<1>1. securities \in Seq(References) /\ spoilt \in [stops: Nat, expiries: Nat, reverts: Nat]
  BY DEF AtsTyped
<1>2. Len(securities) \in Nat /\ DOMAIN securities = 1 .. Len(securities)
  BY <1>1
<1>3. IsFiniteSet(1 .. Len(securities))
  BY <1>2, FS_Interval
<1>4. Stray \subseteq 1 .. Len(securities)
  BY <1>2 DEF Stray
<1> QED
  BY <1>1, <1>2, <1>3, <1>4, FS_Subset, FS_CardinalityType

(* Nobody waits for a call where no command does. *)
LEMMA NobodyAwaits == ~(Calling /\ command.sent) => \A ops : ~Awaits(ops)
BY DEF Awaits

(* The operator starts a command, or one goes on without a call: what is on the
   way and on the securities stays as it is. *)
LEMMA AtsTurns ==
  ASSUME AtsInv, UNCHANGED <<wire, securities, atsBonds, tokenVars, spoilt>>,
         ~Recording, ~(Calling /\ command.sent),
         command' \in Commands \cup {Idle}, ~(Calling' /\ command'.sent),
         Calling' => Sensible(command'.call),
         Calling' /\ command'.call.op = "deployBond" =>
           /\ atsBonds[command'.call.ref] = 0
           /\ Len(securities) + Cardinality(OnWire(Deploy)) < MaxTokens,
         Recording' => command'.record \in DOMAIN securities /\ atsBonds[securities[command'.record]] = 0
  PROVE  AtsInv'
<1>1. /\ wire' = wire /\ securities' = securities /\ atsBonds' = atsBonds /\ spoilt' = spoilt
      /\ issuers' = issuers /\ kyc' = kyc /\ allowlist' = allowlist /\ held' = held
  BY DEF tokenVars
<1>2. AtsTyped'
  BY <1>1 DEF AtsInv, AtsTyped
<1>3. AtsCalls'
  BY <1>1 DEF AtsInv, AtsCalls, Sensible
<1>4. /\ \A ops : OnWire(ops)' = OnWire(ops)
      /\ Stray' = Stray
  BY <1>1 DEF OnWire, Stray
<1>5. /\ One(Awaits(Deploy)) = 0 /\ One(Awaits(Deploy)') = 0
      /\ One(Awaits(AllowCalls)) = 0 /\ One(Awaits(AllowCalls)') = 0
      /\ Repeating = 0
      /\ Repeating' = 0
  BY DEF Awaits, One, Repeating
<1>6. Owed = 0 /\ Owed' \in {0, 1}
  BY DEF One, Owed
<1>7. /\ GivenUp(Deploy) = Cardinality(OnWire(Deploy)) /\ GivenUp(Deploy)' = Cardinality(OnWire(Deploy))
      /\ GivenUp(AllowCalls) = Cardinality(OnWire(AllowCalls))
      /\ GivenUp(AllowCalls)' = Cardinality(OnWire(AllowCalls))
      /\ Cardinality(OnWire(Deploy)) \in Nat /\ Cardinality(OnWire(AllowCalls)) \in Nat
  <2>1. Cardinality(OnWire(Deploy)) \in Nat /\ Cardinality(OnWire(AllowCalls)) \in Nat
    BY WireCount DEF AtsInv, AtsTyped
  <2> QED
    BY <1>4, <1>5, <2>1 DEF GivenUp
<1>8. Len(securities) \in Nat /\ Cardinality(Stray) \in Nat /\ spoilt.stops \in Nat /\ spoilt.reverts \in Nat
  BY StrayCount DEF AtsInv
<1>9. Len(securities') + Cardinality(OnWire(Deploy)') + Deploying' <= MaxTokens
  <2>1. Len(securities) + Cardinality(OnWire(Deploy)) <= MaxTokens
    <3>1. Deploying \in {0, 1}
      BY DEF One, Deploying
    <3> QED
      BY <1>7, <1>8, <3>1, AtsAssumption DEF AtsInv, AtsBooks
  <2>2. CASE Calling' /\ ~command'.sent /\ command'.call.op = "deployBond"
    BY <1>1, <1>4, <1>7, <1>8, <2>2, AtsAssumption DEF One, Deploying
  <2>3. CASE ~(Calling' /\ ~command'.sent /\ command'.call.op = "deployBond")
    BY <1>1, <1>4, <1>7, <1>8, <2>1, <2>3 DEF One, Deploying
  <2> QED
    BY <2>2, <2>3
<1>10. Cardinality(Stray)' + GivenUp(Deploy)' <= spoilt'.stops + Owed'
  <2>1. Cardinality(Stray) + GivenUp(Deploy) <= spoilt.stops + Owed
    BY DEF AtsInv, AtsBooks
  <2>2. Owed' \in {0, 1}
    BY <1>6
  <2> QED
    BY <1>1, <1>4, <1>6, <1>7, <1>8, <2>1, <2>2
<1>11. spoilt'.reverts + GivenUp(AllowCalls)' + Repeating' <= spoilt'.stops
  <2>1. spoilt.reverts + GivenUp(AllowCalls) + Repeating <= spoilt.stops
    BY DEF AtsInv, AtsBooks
  <2>2. Repeating' = 0
    BY <1>5 DEF One, Repeating
  <2> QED
    BY <1>1, <1>5, <1>7, <1>8, <2>1, <2>2
<1> QED
  BY <1>2, <1>3, <1>9, <1>10, <1>11 DEF AtsInv, AtsBooks

(* The bounds, as numbers. *)
LEMMA AtsCounts ==
  ASSUME AtsInv
  PROVE  /\ Len(securities) \in Nat /\ Cardinality(Stray) \in Nat /\ MaxTokens \in Nat
         /\ spoilt.stops \in Nat /\ spoilt.reverts \in Nat
         /\ Cardinality(OnWire(Deploy)) \in Nat /\ Cardinality(OnWire(AllowCalls)) \in Nat
         /\ GivenUp(Deploy) \in Int /\ GivenUp(AllowCalls) \in Int
         /\ Deploying \in {0, 1} /\ Repeating \in {0, 1} /\ Owed \in {0, 1}
         /\ Len(securities) + Cardinality(OnWire(Deploy)) + Deploying <= MaxTokens
         /\ Cardinality(Stray) + GivenUp(Deploy) <= spoilt.stops + Owed
         /\ spoilt.reverts + GivenUp(AllowCalls) + Repeating <= spoilt.stops
<1>1. Cardinality(OnWire(Deploy)) \in Nat /\ Cardinality(OnWire(AllowCalls)) \in Nat
  BY WireCount DEF AtsInv, AtsTyped
<1>2. {One(Awaits(Deploy)), One(Awaits(AllowCalls))} \subseteq {0, 1}
  BY DEF One
<1>3. GivenUp(Deploy) \in Int /\ GivenUp(AllowCalls) \in Int
  BY <1>1, <1>2 DEF GivenUp
<1>4. /\ Len(securities) \in Nat /\ Cardinality(Stray) \in Nat /\ MaxTokens \in Nat
      /\ spoilt.stops \in Nat /\ spoilt.reverts \in Nat
  BY StrayCount, AtsAssumption DEF AtsInv
<1>5. Deploying \in {0, 1} /\ Repeating \in {0, 1} /\ Owed \in {0, 1}
  BY DEF One, Deploying, Repeating, Owed
<1> QED
  BY <1>1, <1>3, <1>4, <1>5 DEF AtsInv, AtsBooks

(* One of them at a time. *)
LEMMA StraysCount ==
  ASSUME AtsInv
  PROVE  /\ Cardinality(Stray) \in Nat /\ spoilt.stops \in Nat
         /\ GivenUp(Deploy) \in Int /\ Owed \in Int
         /\ Cardinality(Stray) + GivenUp(Deploy) <= spoilt.stops + Owed
BY AtsCounts

LEMMA RevertsCount ==
  ASSUME AtsInv
  PROVE  /\ spoilt.reverts \in Nat /\ spoilt.stops \in Nat
         /\ GivenUp(AllowCalls) \in Int /\ Repeating \in Int
         /\ spoilt.reverts + GivenUp(AllowCalls) + Repeating <= spoilt.stops
BY AtsCounts

(* A call that is not done is sent, and the command waits for it. *)
LEMMA AtsSends ==
  ASSUME AtsInv, Proceed, ~AlreadyDone(command.call)
  PROVE  AtsInv'
<1>1. /\ Calling /\ ~command.sent /\ wire' = Append(wire, command.call)
      /\ command' = [command EXCEPT !.sent = TRUE]
      /\ UNCHANGED <<securities, atsBonds, issuers, kyc, allowlist, held, spoilt>>
  BY DEF Proceed, Calling, tokenVars
<1>2. command.call \in Call /\ command = [call |-> command.call, sent |-> command.sent] /\ ~Recording
  BY <1>1, CommandIs DEF AtsInv, AtsTyped
<1>3. command' = [call |-> command.call, sent |-> TRUE]
  <2>1. \A x, a, b, c : x = [call |-> a, sent |-> b] => [x EXCEPT !.sent = c] = [call |-> a, sent |-> c]
    OBVIOUS
  <2>2. command = [call |-> command.call, sent |-> command.sent]
    BY <1>2
  <2>3. [command EXCEPT !.sent = TRUE] = [call |-> command.call, sent |-> TRUE]
    BY <2>1, <2>2
  <2> QED
    BY <1>1, <2>3
<1>4. command' \in Commands /\ command' # Idle
  <2>1. \A c \in Call : [call |-> c, sent |-> TRUE] \in [call: Call, sent: BOOLEAN]
    OBVIOUS
  <2>2. [call |-> command.call, sent |-> TRUE] \in Commands
    BY <1>2, <2>1 DEF Commands
  <2> QED
    BY <1>3, <2>2, AtsAssumption
<1>5. /\ Calling' /\ command'.sent = TRUE /\ command'.call = command.call /\ ~Recording'
  BY <1>3, <1>4 DEF Calling, Recording
<1>6. wire \in Seq(Call)
  BY DEF AtsInv, AtsTyped
<1>7. /\ wire' \in Seq(Call) /\ wire' # <<>> /\ wire'[Len(wire')] = command.call
      /\ \A i \in DOMAIN wire' : wire'[i] = command.call \/ \E j \in DOMAIN wire : wire'[i] = wire[j]
  BY <1>1, <1>2, <1>6
<1>8. AtsTyped'
  BY <1>1, <1>4, <1>7 DEF AtsInv, AtsTyped
<1>9. AtsCalls'
  <2>1. Sensible(command.call) /\ \A j \in DOMAIN wire : Sensible(wire[j])
    BY <1>1 DEF AtsInv, AtsCalls
  <2>2. \A c : Sensible(c) => Sensible(c)'
    BY <1>1 DEF Sensible
  <2>3. \A i \in DOMAIN wire' : Sensible(wire'[i])
    BY <1>7, <2>1
  <2>4. (\A i \in DOMAIN wire : Sensible(wire[i]))' /\ Sensible(command.call)'
    BY <1>1, <1>5, <2>1, <2>3 DEF Sensible
  <2>5. command.call.op = "deployBond" => atsBonds[command.call.ref] = 0
    BY <1>1 DEF AtsInv, AtsCalls
  <2> QED
    BY <1>1, <1>5, <1>7, <2>4, <2>5 DEF AtsCalls
<1>10. /\ GivenUp(Deploy)' = GivenUp(Deploy) /\ GivenUp(AllowCalls)' = GivenUp(AllowCalls)
       /\ Cardinality(OnWire(Deploy)') = Cardinality(OnWire(Deploy)) + One(command.call.op = "deployBond")
  <2>1. \A ops : Awaits(ops)' <=> command.call.op \in ops
    BY <1>5 DEF Awaits
  <2>2. \A ops : ~Awaits(ops)
    BY <1>1 DEF Awaits
  <2>3. \A ops : /\ One(Awaits(ops)') = One(command.call.op \in ops) /\ One(Awaits(ops)) = 0
                 /\ One(command.call.op \in ops) \in {0, 1}
    BY <2>1, <2>2 DEF One
  <2>4. ASSUME NEW ops
        PROVE  /\ Cardinality(OnWire(ops)') = Cardinality(OnWire(ops)) + One(command.call.op \in ops)
               /\ Cardinality(OnWire(ops)) \in Nat
    BY <1>1, <1>2, <1>6, WireGrows, WireCount
  <2>5. ASSUME NEW ops PROVE GivenUp(ops)' = GivenUp(ops)
    BY <2>3, <2>4 DEF GivenUp
  <2>6. One(command.call.op \in Deploy) = One(command.call.op = "deployBond")
    BY DEF Deploy
  <2> QED
    BY <2>4, <2>5, <2>6
<1>11. /\ Deploying = One(command.call.op = "deployBond")
       /\ Deploying' = 0
       /\ One(command.call.op = "deployBond") \in {0, 1}
       /\ Repeating' = 0
       /\ Repeating = 0
       /\ Owed = 0 /\ Owed' = 0
  <2>1. ~AlreadyDone(command.call)'
    BY <1>1, <1>5 DEF AlreadyDone
  <2> QED
    BY <1>1, <1>2, <1>5, <2>1 DEF One, Deploying, Repeating, Owed
<1>12. Stray' = Stray
  BY <1>1 DEF Stray
<1>13. AtsBooks'
  BY <1>1, <1>10, <1>11, <1>12, AtsCounts DEF AtsBooks
<1> QED
  BY <1>8, <1>9, <1>13 DEF AtsInv

(* The command waits for the one call that is left. *)
Expected == Len(wire) = 1 /\ command = [call |-> Head(wire), sent |-> TRUE]

(* A call leaves the wire: the last one only where the command expects it. *)
LEMMA WireMined ==
  ASSUME AtsInv, MineCall
  PROVE  /\ wire # <<>> /\ wire' = Tail(wire) /\ wire' \in Seq(Call)
         /\ Head(wire) \in Call /\ Sensible(Head(wire)) /\ atsBonds' = atsBonds
         /\ \A i \in DOMAIN wire' : Sensible(wire'[i])
         /\ Expected => Calling /\ command.sent /\ command.call = Head(wire) /\ ~Recording
         /\ Calling /\ command.sent /\ ~Expected => wire' # <<>> /\ wire'[Len(wire')] = command.call
<1>1. /\ wire \in Seq(Call) /\ wire # <<>> /\ wire' = Tail(wire) /\ atsBonds' = atsBonds
  BY DEF AtsInv, AtsTyped, MineCall
<1>2. /\ wire' \in Seq(Call) /\ Head(wire) \in Call /\ 1 \in DOMAIN wire /\ Head(wire) = wire[1]
      /\ \A i \in DOMAIN wire' : i + 1 \in DOMAIN wire /\ wire'[i] = wire[i + 1]
      /\ Len(wire') = Len(wire) - 1 /\ Len(wire) \in Nat \ {0}
  BY <1>1
<1>3. \A i \in DOMAIN wire : Sensible(wire[i])
  BY DEF AtsInv, AtsCalls
<1>4. Expected => Calling /\ command.sent /\ command.call = Head(wire) /\ ~Recording
  <2>1. SUFFICES ASSUME Expected PROVE Calling /\ command.sent /\ command.call = Head(wire) /\ ~Recording
    OBVIOUS
  <2>2. command = [call |-> Head(wire), sent |-> TRUE]
    BY <2>1 DEF Expected
  <2>3. command \in Commands
    BY <1>2, <2>2 DEF Commands
  <2> QED
    BY <2>2, <2>3, AtsAssumption DEF Calling, Recording
<1>5. ASSUME Calling, command.sent, ~Expected PROVE wire' # <<>> /\ wire'[Len(wire')] = command.call
  <2>1. wire[Len(wire)] = command.call
    BY <1>5 DEF AtsInv, AtsCalls
  <2>2. command = [call |-> command.call, sent |-> TRUE]
    BY <1>5, CommandIs DEF AtsInv, AtsTyped
  <2>3. Len(wire) # 1
    BY <1>2, <1>5, <2>1, <2>2 DEF Expected
  <2>4. Len(wire') \in DOMAIN wire' /\ Len(wire') + 1 = Len(wire)
    BY <1>2, <2>3
  <2> QED
    BY <1>2, <2>1, <2>4
<1> QED
  BY <1>1, <1>2, <1>3, <1>4, <1>5

(* What that leaves given up: as much where the command expected the call, and one
   of its kind less where it goes on as it was. *)
LEMMA MinedCount ==
  ASSUME AtsInv, MineCall, NEW ops
  PROVE  /\ Cardinality(OnWire(ops)') = Cardinality(OnWire(ops)) - One(Head(wire).op \in ops)
         /\ Expected /\ ~(Calling' /\ command'.sent) => GivenUp(ops)' = GivenUp(ops)
         /\ ~Expected /\ command' = command => GivenUp(ops)' = GivenUp(ops) - One(Head(wire).op \in ops)
         /\ Cardinality(OnWire(ops)) \in Nat /\ One(Head(wire).op \in ops) \in {0, 1}
<1>1. wire \in Seq(Call) /\ wire # <<>> /\ wire' = Tail(wire)
  BY WireMined DEF AtsInv, AtsTyped
<1>2. /\ Cardinality(OnWire(ops)') = Cardinality(OnWire(ops)) - One(Head(wire).op \in ops)
      /\ Cardinality(OnWire(ops)) \in Nat
  BY <1>1, WireShrinks, WireCount
<1>3. /\ One(Head(wire).op \in ops) \in {0, 1} /\ One(Awaits(ops)) \in {0, 1} /\ One(Awaits(ops)') \in {0, 1}
  BY DEF One
<1>4. ASSUME Expected, ~(Calling' /\ command'.sent) PROVE GivenUp(ops)' = GivenUp(ops)
  <2>1. Awaits(ops) <=> Head(wire).op \in ops
    BY <1>4, WireMined DEF Awaits
  <2>2. ~Awaits(ops)'
    BY <1>4 DEF Awaits
  <2>3. One(Awaits(ops)) = One(Head(wire).op \in ops) /\ One(Awaits(ops)') = 0
    BY <2>1, <2>2 DEF One
  <2> QED
    BY <1>2, <1>3, <2>3 DEF GivenUp
<1>5. ASSUME command' = command PROVE GivenUp(ops)' = GivenUp(ops) - One(Head(wire).op \in ops)
  <2>1. Awaits(ops)' <=> Awaits(ops)
    BY <1>5 DEF Awaits, Calling
  <2>2. One(Awaits(ops)') = One(Awaits(ops))
    BY <2>1 DEF One
  <2> QED
    BY <1>2, <1>3, <2>2 DEF GivenUp
<1> QED
  BY <1>2, <1>3, <1>4, <1>5

(* What a call does to the securities keeps them in order. *)
LEMMA EffectTyped ==
  ASSUME AtsInv, NEW call \in Call, Sensible(call), Accepted(call), Effect(call)
  PROVE  /\ securities' \in Seq(References) /\ DOMAIN securities \subseteq DOMAIN securities'
         /\ \A t \in DOMAIN securities : securities'[t] = securities[t]
         /\ issuers \subseteq issuers' /\ issuers' \subseteq DOMAIN securities'
         /\ kyc' \cup allowlist' \cup held' \subseteq issuers' \X Subjects
         /\ call.op # "deployBond" => securities' = securities
         /\ call.op = "deployBond" =>
              /\ Len(securities') = Len(securities) + 1
              /\ DOMAIN securities' = DOMAIN securities \cup {Len(securities) + 1}
              /\ securities'[Len(securities) + 1] = call.ref
         /\ call.op \notin AllowCalls => issuers' = issuers /\ kyc' = kyc /\ allowlist' = allowlist
<1>1. /\ securities \in Seq(References) /\ issuers \subseteq DOMAIN securities
      /\ kyc \cup allowlist \cup held \subseteq issuers \X Subjects
  BY DEF AtsInv, AtsTyped
<1>2. /\ call.op \in {"deployBond", "mint", "addIssuer", "grantKyc", "addToControlList"}
      /\ call.op = "deployBond" => call.ref \in References
      /\ call.op # "deployBond" => call.pair[1] \in DOMAIN securities
  BY CallIs DEF AllowCalls, Sensible
<1>3. CASE call.op = "deployBond"
  <2>1. /\ securities' = Append(securities, call.ref)
        /\ issuers' = issuers /\ kyc' = kyc /\ allowlist' = allowlist /\ held' = held
    BY <1>3 DEF Effect
  <2>2. /\ securities' \in Seq(References) /\ Len(securities) \in Nat /\ DOMAIN securities = 1 .. Len(securities)
        /\ DOMAIN securities' = 1 .. Len(securities) + 1
        /\ Len(securities') = Len(securities) + 1
        /\ \A t \in DOMAIN securities : securities'[t] = securities[t]
        /\ securities'[Len(securities) + 1] = call.ref
    BY <1>1, <1>2, <1>3, <2>1
  <2>3. DOMAIN securities' = DOMAIN securities \cup {Len(securities) + 1}
    BY <2>2
  <2> QED
    BY <1>1, <1>3, <2>1, <2>2, <2>3
<1>4. CASE call.op # "deployBond"
  <2>1. securities' = securities
    BY <1>4 DEF Effect
  <2>2. CASE call.op = "addIssuer"
    <3>1. issuers' = issuers \cup {call.pair[1]} /\ kyc' = kyc /\ allowlist' = allowlist /\ held' = held
      BY <2>2 DEF Effect
    <3> QED
      BY <1>1, <1>2, <2>1, <2>2, <3>1 DEF AllowCalls
  <2>3. CASE call.op # "addIssuer"
    <3>1. issuers' = issuers
      BY <2>3 DEF Effect
    <3>2. call.pair \in issuers \X Subjects
      <4>1. call.pair[1] \in issuers
        BY <1>1, <1>2, <1>4, <2>3 DEF Sensible, Accepted, Allowed
      <4> QED
        BY <1>4, <4>1, CallIs
    <3>3. /\ kyc' \subseteq kyc \cup {call.pair} /\ allowlist' \subseteq allowlist \cup {call.pair}
          /\ held' \subseteq held \cup {call.pair}
      BY DEF Effect
    <3>4. call.op \notin AllowCalls => kyc' = kyc /\ allowlist' = allowlist
      BY DEF Effect, AllowCalls
    <3> QED
      BY <1>1, <1>4, <2>1, <3>1, <3>2, <3>3, <3>4
  <2> QED
    BY <2>2, <2>3
<1> QED
  BY <1>3, <1>4

(* Where the command goes when its call was accepted. *)
LEMMA GoesTo ==
  ASSUME AtsInv, MineCall, Accepted(Head(wire)), Expected
  PROVE  /\ command' \in Commands \cup {Idle} /\ ~(Calling' /\ command'.sent)
         /\ Calling' => /\ command'.call.op \in {"grantKyc", "addToControlList"}
                        /\ command'.call.pair = Head(wire).pair
                        /\ Head(wire).op \in {"addIssuer", "grantKyc"}
         /\ IF Head(wire).op = "deployBond"
              THEN Recording' /\ ~Calling' /\ command'.record = Len(securities) + 1
              ELSE ~Recording'
<1> DEFINE call == Head(wire)
<1>1. call \in Call /\ Sensible(call)
  BY WireMined
<1>2. command' = IF call.op = "deployBond" THEN [record |-> Len(securities) + 1] ELSE Following(call)
  BY DEF MineCall, Expected
<1>3. CASE call.op = "deployBond"
  <2>1. \E i \in DOMAIN wire : wire[i].op \in Deploy
    <3>1. 1 \in DOMAIN wire /\ wire[1] = call
      BY WireMined DEF AtsInv, AtsTyped
    <3> QED
      BY <1>3, <3>1 DEF Deploy
  <2>2. Cardinality(OnWire(Deploy)) >= 1
    BY <2>1, WireCount DEF AtsInv, AtsTyped
  <2>3. Deploying \in {0, 1}
    BY DEF One, Deploying
  <2>4. Len(securities) + 1 \in Tokens
    BY <2>2, <2>3, AtsCounts DEF Tokens
  <2>5. command' = [record |-> Len(securities) + 1] /\ command' \in Commands
    BY <1>2, <1>3, <2>4 DEF Commands
  <2>6. command' # Idle /\ "record" \in DOMAIN command' /\ "call" \notin DOMAIN command'
    BY <2>5, AtsAssumption
  <2> QED
    BY <1>3, <2>5, <2>6 DEF Recording, Calling
<1>4. CASE call.op \in {"addIssuer", "grantKyc"}
  <2>1. PICK op \in {"grantKyc", "addToControlList"} : command' = To(op, call.pair)
    <3>1. command' = Following(call)
      BY <1>2, <1>4
    <3>2. Following(call) = IF call.op = "addIssuer" THEN To("grantKyc", call.pair)
                            ELSE To("addToControlList", call.pair)
      BY <1>4 DEF Following
    <3> QED
      BY <1>4, <3>1, <3>2
  <2>2. call.pair \in Pairs /\ op \in AllowCalls
    BY <1>1, <1>4, CallIs DEF AllowCalls
  <2>3. /\ command' \in Commands /\ command' # Idle /\ "record" \notin DOMAIN command'
        /\ ~command'.sent /\ command'.call.op = op /\ command'.call.pair = call.pair
    <3>1. PICK p \in Pairs : p = call.pair
      BY <2>2
    <3>2. op \in AllowCalls \cup {"mint"}
      BY <2>2
    <3>3. /\ To(op, p) \in Commands /\ To(op, p) # Idle
          /\ "record" \notin DOMAIN To(op, p) /\ ~To(op, p).sent
          /\ To(op, p).call.op = op /\ To(op, p).call.pair = p
      BY <3>2, ToIs
    <3> QED
      BY <2>1, <3>1, <3>3
  <2> QED
    BY <1>4, <2>3 DEF Recording, Calling
<1>5. CASE call.op \notin {"deployBond", "addIssuer", "grantKyc"}
  <2>1. command' = Idle
    BY <1>2, <1>5 DEF Following
  <2> QED
    BY <1>5, <2>1 DEF Recording, Calling
<1> QED
  BY <1>3, <1>4, <1>5


(* A mined call that the security takes. *)
LEMMA AtsAccepts ==
  ASSUME AtsInv, MineCall, Accepted(Head(wire))
  PROVE  AtsInv'
<1> DEFINE call == Head(wire)
<1> DEFINE deployed == One(call.op \in Deploy)
<1> DEFINE allowed == One(call.op \in AllowCalls)
<1>1. /\ wire # <<>> /\ wire' \in Seq(Call) /\ call \in Call /\ Sensible(call) /\ atsBonds' = atsBonds
      /\ \A i \in DOMAIN wire' : Sensible(wire'[i])
      /\ Expected => Calling /\ command.sent /\ command.call = call /\ ~Recording
      /\ Calling /\ command.sent /\ ~Expected => wire' # <<>> /\ wire'[Len(wire')] = command.call
  BY WireMined
<1>2. Effect(call) /\ spoilt' = spoilt /\ (~Expected => command' = command)
  BY DEF MineCall, Expected
<1>3. /\ securities' \in Seq(References) /\ DOMAIN securities \subseteq DOMAIN securities'
      /\ \A t \in DOMAIN securities : securities'[t] = securities[t]
      /\ issuers \subseteq issuers' /\ issuers' \subseteq DOMAIN securities'
      /\ kyc' \cup allowlist' \cup held' \subseteq issuers' \X Subjects
      /\ call.op # "deployBond" => securities' = securities
      /\ call.op = "deployBond" =>
           /\ Len(securities') = Len(securities) + 1
           /\ DOMAIN securities' = DOMAIN securities \cup {Len(securities) + 1}
           /\ securities'[Len(securities) + 1] = call.ref
      /\ call.op \notin AllowCalls => issuers' = issuers /\ kyc' = kyc /\ allowlist' = allowlist
  <2>1. Accepted(call)
    OBVIOUS
  <2> QED
    BY <1>1, <1>2, <2>1, EffectTyped
<1>4. Expected =>
        /\ command' \in Commands \cup {Idle} /\ ~(Calling' /\ command'.sent)
        /\ Calling' => /\ command'.call.op \in {"grantKyc", "addToControlList"}
                       /\ command'.call.pair = call.pair
                       /\ call.op \in {"addIssuer", "grantKyc"}
        /\ IF call.op = "deployBond"
             THEN Recording' /\ ~Calling' /\ command'.record = Len(securities) + 1
             ELSE ~Recording'
  BY GoesTo
<1>5. AtsTyped'
  <2>1. command' \in Commands \cup {Idle}
    BY <1>2, <1>4 DEF AtsInv, AtsTyped
  <2>2. spoilt' \in [stops: Nat, expiries: Nat, reverts: Nat] /\ atsBonds' \in [References -> Nat]
    BY <1>1, <1>2 DEF AtsInv, AtsTyped
  <2>3. \A r \in References : atsBonds'[r] # 0 => atsBonds'[r] \in DOMAIN securities' /\ securities'[atsBonds'[r]] = r
    BY <1>1, <1>3 DEF AtsInv, AtsTyped
  <2> QED
    BY <1>1, <1>3, <2>1, <2>2, <2>3 DEF AtsTyped
<1>6. AtsCalls'
  <2>1. ASSUME NEW c, Sensible(c) PROVE Sensible(c)'
    BY <1>3, <2>1 DEF Sensible
  <2>2. (\A i \in DOMAIN wire : Sensible(wire[i]))'
    <3>1. \A i \in DOMAIN wire' : Sensible(wire'[i])
      BY <1>1
    <3> QED
      BY <1>3, <3>1 DEF Sensible
  <2>3. CASE ~Expected
    <3>1. command' = command /\ (Calling' <=> Calling) /\ (Recording' <=> Recording)
      BY <1>2, <2>3 DEF Calling, Recording
    <3>2. Calling => Sensible(command.call)'
      BY <1>3, <3>1 DEF AtsInv, AtsCalls, Sensible
    <3>3. Recording => command.record \in DOMAIN securities' /\ atsBonds'[securities'[command.record]] = 0
      BY <1>1, <1>3 DEF AtsInv, AtsCalls
    <3>4. Calling /\ command.call.op = "deployBond" => atsBonds'[command.call.ref] = 0
      BY <1>1 DEF AtsInv, AtsCalls
    <3> QED
      BY <1>1, <2>2, <2>3, <3>1, <3>2, <3>3, <3>4 DEF AtsCalls
  <2>4. CASE Expected
    <3>1. Calling' => Sensible(command.call)'
      <4>1. SUFFICES ASSUME Calling' PROVE command'.call.pair[1] \in DOMAIN securities' /\ command'.call.pair[1] \in issuers'
        BY DEF Sensible
      <4>2. command'.call.pair = call.pair /\ call.op \in {"addIssuer", "grantKyc"}
        BY <1>4, <2>4, <4>1
      <4>3. call.pair[1] \in issuers'
        <5>1. call.op = "addIssuer" => issuers' = issuers \cup {call.pair[1]}
          BY <1>2 DEF Effect
        <5>2. call.op = "grantKyc" => call.pair[1] \in issuers
          BY DEF Accepted
        <5> QED
          BY <1>3, <4>2, <5>1, <5>2
      <4> QED
        BY <1>3, <4>2, <4>3
    <3>2. Recording' => command'.record \in DOMAIN securities' /\ atsBonds'[securities'[command'.record]] = 0
      <4>1. SUFFICES ASSUME Recording' PROVE command'.record \in DOMAIN securities' /\ atsBonds'[securities'[command'.record]] = 0
        OBVIOUS
      <4>2. call.op = "deployBond" /\ command'.record = Len(securities) + 1
        BY <1>4, <2>4, <4>1
      <4>3. atsBonds[call.ref] = 0
        BY <1>1, <2>4, <4>2 DEF AtsInv, AtsCalls
      <4> QED
        BY <1>1, <1>3, <4>2, <4>3
    <3>3. ~(Calling' /\ command'.call.op = "deployBond") /\ ~(Calling' /\ command'.sent)
      BY <1>4, <2>4
    <3> QED
      BY <2>2, <3>1, <3>2, <3>3 DEF AtsCalls
  <2> QED
    BY <2>3, <2>4
<1>7. deployed \in {0, 1} /\ allowed \in {0, 1}
  BY DEF One
<1>8. Len(securities') = Len(securities) + deployed /\ Cardinality(Stray)' = Cardinality(Stray) + deployed
  <2>1. CASE call.op = "deployBond"
    <3>1. Stray' = Stray \cup {Len(securities) + 1} /\ Len(securities) + 1 \notin Stray
      <4>1. Len(securities) \in Nat /\ DOMAIN securities = 1 .. Len(securities)
        BY StrayCount DEF AtsInv
      <4>2. \A r \in References : atsBonds[r] # Len(securities) + 1
        BY <4>1 DEF AtsInv, AtsTyped
      <4> QED
        BY <1>1, <1>3, <2>1, <4>1, <4>2 DEF Stray
    <3>2. Cardinality(Stray)' = Cardinality(Stray) + 1
      BY <3>1, StrayCount, FS_AddElement DEF AtsInv
    <3> QED
      BY <1>3, <2>1, <3>2 DEF One, Deploy
  <2>2. CASE call.op # "deployBond"
    <3>1. Stray' = Stray /\ securities' = securities /\ deployed = 0
      BY <1>1, <1>3, <2>2 DEF Stray, One, Deploy
    <3> QED
      BY <3>1, AtsCounts
  <2> QED
    BY <2>1, <2>2
<1>9. /\ Cardinality(OnWire(Deploy)') = Cardinality(OnWire(Deploy)) - deployed
      /\ Expected /\ ~(Calling' /\ command'.sent) =>
           GivenUp(Deploy)' = GivenUp(Deploy) /\ GivenUp(AllowCalls)' = GivenUp(AllowCalls)
      /\ ~Expected /\ command' = command =>
           /\ GivenUp(Deploy)' = GivenUp(Deploy) - deployed
           /\ GivenUp(AllowCalls)' = GivenUp(AllowCalls) - allowed
  BY MinedCount
<1>10. CASE ~Expected
  <2>1. command' = command /\ (Calling' <=> Calling) /\ (Recording' <=> Recording)
    BY <1>2, <1>10 DEF Calling, Recording
  <2>2. Owed' = Owed /\ Owed \in {0, 1}
    BY <2>1 DEF One, Owed
  <2>3. /\ Deploying' = Deploying
        /\ Deploying \in {0, 1}
    BY <2>1 DEF One, Deploying
  <2>4. /\ Repeating' <= Repeating + allowed
        /\ Repeating' \in {0, 1}
        /\ Repeating \in {0, 1}
    <3>1. CASE call.op \in AllowCalls
      BY <3>1 DEF One, Repeating
    <3>2. CASE call.op \notin AllowCalls
      <4>1. (Awaits(AllowCalls)' <=> Awaits(AllowCalls)) /\ (AlreadyDone(command.call)' <=> AlreadyDone(command.call))
        BY <1>3, <2>1, <3>2 DEF Awaits, AlreadyDone
      <4> QED
        BY <3>2, <4>1 DEF One, Repeating
    <3> QED
      BY <3>1, <3>2
  <2> HIDE DEF deployed, allowed
  <2>5. AtsBooks'
    <3>1. /\ GivenUp(Deploy)' = GivenUp(Deploy) - deployed
          /\ GivenUp(AllowCalls)' = GivenUp(AllowCalls) - allowed
      BY <1>9, <1>10, <2>1
    <3>2. Len(securities') + Cardinality(OnWire(Deploy)') + Deploying' <= MaxTokens
      BY <1>7, <1>8, <1>9, <2>3, AtsCounts
    <3>3. Cardinality(Stray)' + GivenUp(Deploy)' <= spoilt'.stops + Owed'
      BY <1>2, <1>7, <1>8, <2>2, <3>1, StraysCount
    <3>4. spoilt'.reverts + GivenUp(AllowCalls)' + Repeating' <= spoilt'.stops
      <4>1. spoilt'.reverts = spoilt.reverts /\ spoilt'.stops = spoilt.stops
        BY <1>2
      <4> QED
        BY <1>7, <2>4, <3>1, <4>1, RevertsCount
    <3> QED
      BY <3>2, <3>3, <3>4 DEF AtsBooks
  <2> QED
    BY <1>5, <1>6, <2>5 DEF AtsInv
<1>11. CASE Expected
  <2>1. Owed = 0 /\ Owed' = deployed
    BY <1>1, <1>4, <1>11 DEF One, Deploy, Owed
  <2>2. /\ Deploying' = 0
        /\ Deploying = 0
    BY <1>1, <1>4, <1>11 DEF One, Deploying
  <2>3. /\ Repeating' = 0
        /\ Repeating \in {0, 1}
    BY <1>4, <1>11 DEF One, Awaits, Repeating
  <2> HIDE DEF deployed, allowed
  <2>4. AtsBooks'
    <3>1. GivenUp(Deploy)' = GivenUp(Deploy) /\ GivenUp(AllowCalls)' = GivenUp(AllowCalls)
      BY <1>4, <1>9, <1>11
    <3>2. Len(securities') + Cardinality(OnWire(Deploy)') + Deploying' <= MaxTokens
      BY <1>7, <1>8, <1>9, <2>2, AtsCounts
    <3>3. Cardinality(Stray)' + GivenUp(Deploy)' <= spoilt'.stops + Owed'
      BY <1>2, <1>7, <1>8, <2>1, <3>1, StraysCount
    <3>4. spoilt'.reverts + GivenUp(AllowCalls)' + Repeating' <= spoilt'.stops
      BY <1>2, <2>3, <3>1, RevertsCount
    <3> QED
      BY <3>2, <3>3, <3>4 DEF AtsBooks
  <2> QED
    BY <1>5, <1>6, <2>4 DEF AtsInv
<1> QED
  BY <1>10, <1>11

(* A mined call that reverts: of allow, it was done by an earlier one. *)
LEMMA AtsReverts ==
  ASSUME AtsInv, MineCall, ~Accepted(Head(wire))
  PROVE  AtsInv'
<1> DEFINE call == Head(wire)
<1> DEFINE allowed == One(call.op \in AllowCalls)
<1>1. /\ wire # <<>> /\ wire' \in Seq(Call) /\ call \in Call /\ Sensible(call) /\ atsBonds' = atsBonds
      /\ \A i \in DOMAIN wire' : Sensible(wire'[i])
      /\ Expected => Calling /\ command.sent /\ command.call = call /\ ~Recording
      /\ Calling /\ command.sent /\ ~Expected => wire' # <<>> /\ wire'[Len(wire')] = command.call
  BY WireMined
<1>2. /\ command' = IF Expected THEN Idle ELSE command
      /\ UNCHANGED <<securities, issuers, kyc, allowlist, held>>
      /\ spoilt' = [spoilt EXCEPT !.reverts = @ + (IF call.op \in AllowCalls THEN 1 ELSE 0)]
  BY DEF MineCall, Expected, tokenVars
<1>3. call.op # "deployBond"
  BY DEF Accepted
<1>4. call.op \in AllowCalls => AlreadyDone(call)
  BY <1>1, <1>3 DEF AllowCalls, Accepted, AlreadyDone, Sensible
<1>5. allowed \in {0, 1}
  BY DEF One
<1>6. spoilt' = [stops |-> spoilt.stops, expiries |-> spoilt.expiries, reverts |-> spoilt.reverts + allowed]
  <2>1. \A x, a, b, c, n : x = [stops |-> a, expiries |-> b, reverts |-> c] =>
          [x EXCEPT !.reverts = @ + n] = [stops |-> a, expiries |-> b, reverts |-> c + n]
    OBVIOUS
  <2>2. spoilt = [stops |-> spoilt.stops, expiries |-> spoilt.expiries, reverts |-> spoilt.reverts]
    BY StrayCount DEF AtsInv
  <2>3. spoilt' = [spoilt EXCEPT !.reverts = @ + allowed]
    BY <1>2 DEF One
  <2> QED
    BY <2>1, <2>2, <2>3
<1>7. /\ spoilt' \in [stops: Nat, expiries: Nat, reverts: Nat] /\ spoilt'.stops = spoilt.stops
      /\ spoilt'.reverts = spoilt.reverts + allowed
  <2>1. /\ spoilt.stops \in Nat /\ spoilt.expiries \in Nat /\ spoilt.reverts \in Nat
        /\ spoilt.reverts + allowed \in Nat
    BY <1>5, StrayCount DEF AtsInv
  <2> QED
    BY <1>6, <2>1
<1>8. AtsTyped'
  BY <1>1, <1>2, <1>7 DEF AtsInv, AtsTyped
<1>9. /\ Calling' => Calling /\ command' = command /\ ~Expected
      /\ Recording' => Recording /\ command' = command
      /\ ~Expected => (Calling' <=> Calling) /\ (Recording' <=> Recording)
      /\ Expected => ~Calling' /\ ~Recording' /\ ~Recording
  BY <1>1, <1>2 DEF Calling, Recording
<1>10. AtsCalls'
  <2>1. (\A i \in DOMAIN wire : Sensible(wire[i]))'
    BY <1>1, <1>2 DEF Sensible
  <2>2. Calling' => Sensible(command.call)'
    BY <1>2, <1>9 DEF AtsInv, AtsCalls, Sensible
  <2>3. /\ Calling' /\ command'.sent => wire' # <<>> /\ wire'[Len(wire')] = command'.call
        /\ Calling' /\ command'.call.op = "deployBond" => atsBonds'[command'.call.ref] = 0
        /\ Recording' => command'.record \in DOMAIN securities' /\ atsBonds'[securities'[command'.record]] = 0
    BY <1>1, <1>2, <1>9 DEF AtsInv, AtsCalls
  <2> QED
    BY <2>1, <2>2, <2>3 DEF AtsCalls
<1>11. Stray' = Stray /\ Len(securities') = Len(securities)
  BY <1>1, <1>2 DEF Stray
<1>12. One(call.op \in Deploy) = 0
  BY <1>3 DEF One, Deploy
<1>13. /\ Cardinality(OnWire(Deploy)') = Cardinality(OnWire(Deploy))
       /\ GivenUp(Deploy)' = GivenUp(Deploy)
       /\ GivenUp(AllowCalls)' = IF Expected THEN GivenUp(AllowCalls) ELSE GivenUp(AllowCalls) - allowed
  BY <1>2, <1>9, <1>12, MinedCount, AtsCounts
<1>14. CASE ~Expected
  <2>1. Owed' = Owed /\ Owed \in {0, 1}
    BY <1>9, <1>14 DEF One, Owed
  <2>2. /\ Deploying' = Deploying
        /\ Deploying \in {0, 1}
    BY <1>2, <1>9, <1>14 DEF One, Deploying
  <2>3. /\ Repeating' = Repeating
        /\ Repeating \in {0, 1}
    <3>1. (Awaits(AllowCalls)' <=> Awaits(AllowCalls)) /\ (AlreadyDone(command.call)' <=> AlreadyDone(command.call))
      BY <1>2, <1>9, <1>14 DEF Awaits, AlreadyDone
    <3> QED
      BY <3>1 DEF One, Repeating
  <2> HIDE DEF allowed
  <2>4. AtsBooks'
    <3>1. Len(securities') + Cardinality(OnWire(Deploy)') + Deploying' <= MaxTokens
      BY <1>11, <1>13, <2>2, AtsCounts
    <3>2. Cardinality(Stray)' + GivenUp(Deploy)' <= spoilt'.stops + Owed'
      BY <1>7, <1>11, <1>13, <2>1, StraysCount
    <3>3. spoilt'.reverts + GivenUp(AllowCalls)' + Repeating' <= spoilt'.stops
      BY <1>5, <1>7, <1>13, <1>14, <2>3, RevertsCount
    <3> QED
      BY <3>1, <3>2, <3>3 DEF AtsBooks
  <2> QED
    BY <1>8, <1>10, <2>4 DEF AtsInv
<1>15. CASE Expected
  <2>1. Owed' = 0 /\ Owed = 0
    BY <1>9, <1>15 DEF One, Owed
  <2>2. /\ Deploying' = 0
        /\ Deploying = 0
    BY <1>1, <1>9, <1>15 DEF One, Deploying
  <2>3. /\ Repeating' = 0
        /\ Repeating = allowed
    BY <1>1, <1>4, <1>9, <1>15 DEF One, Awaits, Repeating
  <2> HIDE DEF allowed
  <2>4. AtsBooks'
    <3>1. Len(securities') + Cardinality(OnWire(Deploy)') + Deploying' <= MaxTokens
      BY <1>11, <1>13, <2>2, AtsCounts
    <3>2. Cardinality(Stray)' + GivenUp(Deploy)' <= spoilt'.stops + Owed'
      BY <1>7, <1>11, <1>13, <2>1, StraysCount
    <3>3. spoilt'.reverts + GivenUp(AllowCalls)' + Repeating' <= spoilt'.stops
      BY <1>5, <1>7, <1>13, <1>15, <2>3, RevertsCount
    <3> QED
      BY <3>1, <3>2, <3>3 DEF AtsBooks
  <2> QED
    BY <1>8, <1>10, <2>4 DEF AtsInv
<1> QED
  BY <1>14, <1>15

(* Before the first command there is nothing to count. *)
LEMMA AtsStarts == AtsInit => AtsInv
<1> SUFFICES ASSUME AtsInit PROVE AtsInv
  OBVIOUS
<1>1. /\ command = Idle /\ wire = <<>> /\ securities = <<>> /\ atsBonds = [r \in References |-> 0]
      /\ issuers = {} /\ kyc = {} /\ allowlist = {} /\ held = {}
      /\ spoilt = [stops |-> 0, expiries |-> 0, reverts |-> 0]
  BY DEF AtsInit
<1>2. AtsTyped
  BY <1>1 DEF AtsTyped
<1>3. ~Calling /\ ~Recording
  BY <1>1 DEF Calling, Recording
<1>4. AtsCalls
  BY <1>1, <1>3 DEF AtsCalls
<1>5. Stray = {} /\ \A ops : OnWire(ops) = {}
  BY <1>1 DEF Stray, OnWire
<1>6. /\ Cardinality(Stray) = 0 /\ Cardinality(OnWire(Deploy)) = 0 /\ Cardinality(OnWire(AllowCalls)) = 0
      /\ One(Awaits(Deploy)) = 0 /\ One(Awaits(AllowCalls)) = 0
      /\ Deploying = 0
      /\ Repeating = 0 /\ Owed = 0
  BY <1>3, <1>5, FS_EmptySet DEF Awaits, One, Deploying, Repeating, Owed
<1>7. /\ Len(securities) = 0 /\ spoilt.stops = 0 /\ spoilt.reverts = 0
  BY <1>1
<1>8. AtsBooks
  BY <1>6, <1>7, AtsAssumption DEF AtsBooks, GivenUp
<1> QED
  BY <1>2, <1>4, <1>8 DEF AtsInv

(* The deployments file names the security: one stray less. *)
LEMMA AtsRecords == ASSUME AtsInv, recordAtsBond PROVE AtsInv'
<1> DEFINE t == command.record
<1> DEFINE ref == securities[t]
<1>1. /\ Recording /\ command' = Idle /\ atsBonds' = [atsBonds EXCEPT ![ref] = t]
      /\ UNCHANGED <<wire, securities, issuers, kyc, allowlist, held, spoilt>>
  BY DEF recordAtsBond, Recording, tokenVars
<1>2. /\ t \in DOMAIN securities /\ ref \in References /\ atsBonds[ref] = 0 /\ t \in Nat \ {0}
      /\ atsBonds \in [References -> Nat] /\ ~Calling
  BY <1>1, CommandIs DEF AtsInv, AtsTyped, AtsCalls
<1>3. ~Calling' /\ ~Recording'
  BY <1>1 DEF Calling, Recording
<1>4. /\ atsBonds' \in [References -> Nat] /\ atsBonds'[ref] = t
      /\ \A r \in References \ {ref} : atsBonds'[r] = atsBonds[r]
  BY <1>1, <1>2
<1>5. AtsTyped'
  <2>1. \A r \in References : atsBonds'[r] # 0 => atsBonds'[r] \in DOMAIN securities /\ securities[atsBonds'[r]] = r
    BY <1>2, <1>4 DEF AtsInv, AtsTyped
  <2> QED
    BY <1>1, <1>4, <2>1 DEF AtsInv, AtsTyped
<1>6. AtsCalls'
  BY <1>1, <1>3 DEF AtsInv, AtsCalls, Sensible
<1>7. Stray' = Stray \ {t} /\ t \in Stray
  <2>1. t \in Stray
    BY <1>2 DEF AtsInv, AtsTyped, Stray
  <2>2. \A s \in DOMAIN securities : (\A r \in References : atsBonds'[r] # s) <=> s # t /\ (\A r \in References : atsBonds[r] # s)
    <3>1. \A s \in DOMAIN securities : s # 0
      BY DEF AtsInv, AtsTyped
    <3> QED
      BY <1>2, <1>4, <3>1
  <2> QED
    BY <1>1, <2>1, <2>2 DEF Stray
<1>8. Cardinality(Stray)' = Cardinality(Stray) - 1
  BY <1>7, StrayCount, FS_RemoveElement DEF AtsInv
<1>9. /\ Owed = 1 /\ Owed' = 0
      /\ One(Awaits(Deploy)) = 0 /\ One(Awaits(Deploy)') = 0
      /\ One(Awaits(AllowCalls)) = 0 /\ One(Awaits(AllowCalls)') = 0
      /\ Deploying' = 0
      /\ Deploying = 0
      /\ Repeating' = 0
      /\ Repeating = 0
  BY <1>1, <1>2, <1>3 DEF Awaits, One, Deploying, Repeating, Owed
<1>10. \A ops : OnWire(ops)' = OnWire(ops)
  BY <1>1 DEF OnWire
<1>11. GivenUp(Deploy)' = GivenUp(Deploy) /\ GivenUp(AllowCalls)' = GivenUp(AllowCalls)
  BY <1>9, <1>10 DEF GivenUp
<1>12. AtsBooks'
  <2>1. Len(securities') + Cardinality(OnWire(Deploy)') + Deploying' <= MaxTokens
    BY <1>1, <1>9, <1>10, AtsCounts
  <2>2. Cardinality(Stray)' + GivenUp(Deploy)' <= spoilt'.stops + Owed'
    <3>1. spoilt'.stops = spoilt.stops
      BY <1>1
    <3> QED
      BY <1>8, <1>9, <1>11, <3>1, StraysCount
  <2>3. spoilt'.reverts + GivenUp(AllowCalls)' + Repeating' <= spoilt'.stops
    BY <1>1, <1>9, <1>11, RevertsCount
  <2> QED
    BY <2>1, <2>2, <2>3 DEF AtsBooks
<1> QED
  BY <1>5, <1>6, <1>12 DEF AtsInv

(* A command that stops gives up at most one call or one record. *)
LEMMA AtsStops == ASSUME AtsInv, CommandStops PROVE AtsInv'
<1>1. /\ command # Idle /\ command' = Idle
      /\ spoilt' = [spoilt EXCEPT !.stops = @ + 1]
      /\ UNCHANGED <<wire, securities, atsBonds, issuers, kyc, allowlist, held>>
  BY DEF CommandStops, tokenVars
<1>2. ~Calling' /\ ~Recording' /\ ~(Calling /\ Recording)
  BY <1>1, CommandIs DEF AtsInv, AtsTyped, Calling, Recording
<1>3. spoilt' = [stops |-> spoilt.stops + 1, expiries |-> spoilt.expiries, reverts |-> spoilt.reverts]
  <2>1. \A x, a, b, c : x = [stops |-> a, expiries |-> b, reverts |-> c] =>
          [x EXCEPT !.stops = @ + 1] = [stops |-> a + 1, expiries |-> b, reverts |-> c]
    OBVIOUS
  <2>2. spoilt = [stops |-> spoilt.stops, expiries |-> spoilt.expiries, reverts |-> spoilt.reverts]
    BY StrayCount DEF AtsInv
  <2> QED
    BY <1>1, <2>1, <2>2
<1>4. /\ spoilt' \in [stops: Nat, expiries: Nat, reverts: Nat] /\ spoilt'.stops = spoilt.stops + 1
      /\ spoilt'.reverts = spoilt.reverts
  <2>1. spoilt.stops \in Nat /\ spoilt.expiries \in Nat /\ spoilt.reverts \in Nat
    BY StrayCount DEF AtsInv
  <2> QED
    BY <1>3, <2>1
<1>5. AtsTyped'
  BY <1>1, <1>4 DEF AtsInv, AtsTyped
<1>6. AtsCalls'
  BY <1>1, <1>2 DEF AtsInv, AtsCalls, Sensible
<1>7. Stray' = Stray /\ \A ops : OnWire(ops)' = OnWire(ops)
  BY <1>1 DEF Stray, OnWire
<1>8. /\ Owed \in {0, 1} /\ Owed' = 0
      /\ One(Awaits(Deploy)) \in {0, 1} /\ One(Awaits(Deploy)') = 0
      /\ One(Awaits(AllowCalls)) \in {0, 1} /\ One(Awaits(AllowCalls)') = 0
      /\ One(Awaits(Deploy)) + Owed <= 1
      /\ Deploying' = 0
      /\ Deploying \in {0, 1}
      /\ Repeating' = 0
      /\ Repeating \in {0, 1}
  BY <1>2 DEF Awaits, One, Deploying, Repeating, Owed
<1>9. /\ GivenUp(Deploy)' = GivenUp(Deploy) + One(Awaits(Deploy))
      /\ GivenUp(AllowCalls)' = GivenUp(AllowCalls) + One(Awaits(AllowCalls))
  <2>1. Cardinality(OnWire(Deploy)) \in Nat /\ Cardinality(OnWire(AllowCalls)) \in Nat
    BY AtsCounts
  <2>2. GivenUp(Deploy)' = GivenUp(Deploy) + One(Awaits(Deploy))
    BY <1>7, <1>8, <2>1 DEF GivenUp
  <2>3. GivenUp(AllowCalls)' = GivenUp(AllowCalls) + One(Awaits(AllowCalls))
    BY <1>7, <1>8, <2>1 DEF GivenUp
  <2> QED
    BY <2>2, <2>3
<1>10. AtsBooks'
  <2>1. Len(securities') + Cardinality(OnWire(Deploy)') + Deploying' <= MaxTokens
    BY <1>1, <1>7, <1>8, AtsCounts
  <2>2. Cardinality(Stray)' + GivenUp(Deploy)' <= spoilt'.stops + Owed'
    BY <1>4, <1>7, <1>8, <1>9, StraysCount
  <2>3. spoilt'.reverts + GivenUp(AllowCalls)' + Repeating' <= spoilt'.stops
    BY <1>4, <1>8, <1>9, RevertsCount
  <2> QED
    BY <2>1, <2>2, <2>3 DEF AtsBooks
<1> QED
  BY <1>5, <1>6, <1>10 DEF AtsInv

(* A grant expires: what was done may have to be done again. *)
LEMMA AtsExpires == ASSUME AtsInv, NEW p \in Pairs, GrantExpires(p) PROVE AtsInv'
<1>1. /\ kyc' = kyc \ {p} /\ spoilt' = [spoilt EXCEPT !.expiries = @ + 1]
      /\ UNCHANGED <<command, wire, securities, atsBonds, issuers, allowlist, held>>
  BY DEF GrantExpires
<1>2. spoilt' = [stops |-> spoilt.stops, expiries |-> spoilt.expiries + 1, reverts |-> spoilt.reverts]
  <2>1. \A x, a, b, c : x = [stops |-> a, expiries |-> b, reverts |-> c] =>
          [x EXCEPT !.expiries = @ + 1] = [stops |-> a, expiries |-> b + 1, reverts |-> c]
    OBVIOUS
  <2>2. spoilt = [stops |-> spoilt.stops, expiries |-> spoilt.expiries, reverts |-> spoilt.reverts]
    BY StrayCount DEF AtsInv
  <2> QED
    BY <1>1, <2>1, <2>2
<1>3. /\ spoilt' \in [stops: Nat, expiries: Nat, reverts: Nat] /\ spoilt'.stops = spoilt.stops
      /\ spoilt'.reverts = spoilt.reverts
  <2>1. spoilt.stops \in Nat /\ spoilt.expiries \in Nat /\ spoilt.reverts \in Nat
    BY StrayCount DEF AtsInv
  <2> QED
    BY <1>2, <2>1
<1>4. AtsTyped'
  BY <1>1, <1>3 DEF AtsInv, AtsTyped
<1>5. (Calling' <=> Calling) /\ (Recording' <=> Recording) /\ \A ops : Awaits(ops)' <=> Awaits(ops)
  BY <1>1 DEF Calling, Recording, Awaits
<1>6. AtsCalls'
  BY <1>1, <1>5 DEF AtsInv, AtsCalls, Sensible
<1>7. Stray' = Stray /\ \A ops : OnWire(ops)' = OnWire(ops)
  BY <1>1 DEF Stray, OnWire
<1>8. AlreadyDone(command.call)' => AlreadyDone(command.call)
  BY <1>1 DEF AlreadyDone
<1>9. /\ Owed' = Owed
      /\ One(Awaits(Deploy)') = One(Awaits(Deploy)) /\ One(Awaits(AllowCalls)') = One(Awaits(AllowCalls))
      /\ Deploying' = Deploying
      /\ Repeating' <= Repeating
      /\ {Owed, Repeating, Repeating', Deploying} \subseteq {0, 1}
  BY <1>1, <1>5, <1>8 DEF One, Deploying, Repeating, Owed
<1>10. GivenUp(Deploy)' = GivenUp(Deploy) /\ GivenUp(AllowCalls)' = GivenUp(AllowCalls)
  BY <1>7, <1>9 DEF GivenUp
<1>11. AtsBooks'
  <2>1. Len(securities') + Cardinality(OnWire(Deploy)') + Deploying' <= MaxTokens
    BY <1>1, <1>7, <1>9, AtsCounts
  <2>2. Cardinality(Stray)' + GivenUp(Deploy)' <= spoilt'.stops + Owed'
    BY <1>3, <1>7, <1>9, <1>10, StraysCount
  <2>3. spoilt'.reverts + GivenUp(AllowCalls)' + Repeating' <= spoilt'.stops
    BY <1>3, <1>9, <1>10, RevertsCount
  <2> QED
    BY <2>1, <2>2, <2>3 DEF AtsBooks
<1> QED
  BY <1>4, <1>6, <1>11 DEF AtsInv

(* No step of a command, of the network or of time breaks the books. *)
LEMMA AtsKeeps == AtsInv /\ [AtsNext]_atsVars => AtsInv'
<1> SUFFICES ASSUME AtsInv, [AtsNext]_atsVars PROVE AtsInv'
  OBVIOUS
<1>1. /\ AtsTyped /\ issuers \subseteq DOMAIN securities
      /\ kyc \subseteq issuers \X Subjects /\ allowlist \subseteq issuers \X Subjects
  BY DEF AtsInv, AtsTyped
<1>2. command = Idle => ~Calling /\ ~Recording
  BY DEF Calling, Recording
<1>3. ASSUME NEW r \in References, StartIssue(r) PROVE AtsInv'
  <2> DEFINE call == [op |-> "deployBond", ref |-> r]
  <2>1. /\ command = Idle /\ atsBonds[r] = 0 /\ Len(securities) + Len(wire) < MaxTokens
        /\ command' = [call |-> call, sent |-> FALSE]
        /\ UNCHANGED <<wire, securities, atsBonds, tokenVars, spoilt>>
    BY <1>3 DEF StartIssue
  <2>2. call \in Call /\ call.op = "deployBond" /\ call.ref = r
    BY DEF Call
  <2> HIDE DEF call
  <2>3. [call |-> call, sent |-> FALSE] \in [call: Call, sent: BOOLEAN]
    BY <2>2
  <2>4. command' \in Commands
    BY <2>1, <2>3 DEF Commands
  <2>5. ~Recording' /\ command'.call = call /\ ~command'.sent
    BY <2>1 DEF Recording
  <2>6. Sensible(call)
    BY <2>2 DEF Sensible
  <2>7. Len(securities) + Cardinality(OnWire(Deploy)) < MaxTokens
    <3>1. Cardinality(OnWire(Deploy)) \in Nat /\ Cardinality(OnWire(Deploy)) <= Len(wire) /\ Len(wire) \in Nat
      BY <1>1, WireCount DEF AtsTyped
    <3>2. Len(securities) \in Nat /\ MaxTokens \in Nat
      BY <1>1, StrayCount, AtsAssumption
    <3> QED
      BY <2>1, <3>1, <3>2
  <2> QED
    BY <1>2, <2>1, <2>2, <2>4, <2>5, <2>6, <2>7, AtsTurns
<1>4. ASSUME NEW t \in DOMAIN securities, StartRecord(t) PROVE AtsInv'
  <2>1. /\ command = Idle /\ atsBonds[securities[t]] = 0 /\ command' = [record |-> t]
        /\ UNCHANGED <<wire, securities, atsBonds, tokenVars, spoilt>>
    BY <1>4 DEF StartRecord
  <2>2. t \in Tokens
    <3>1. Len(securities) \in Nat /\ DOMAIN securities = 1 .. Len(securities)
      BY <1>1, StrayCount
    <3>2. Len(securities) <= MaxTokens
      BY AtsCounts
    <3> QED
      BY <1>4, <3>1, <3>2, AtsAssumption DEF Tokens
  <2>3. command' \in Commands /\ ~Calling' /\ command'.record = t
    BY <2>1, <2>2 DEF Commands, Calling
  <2> QED
    BY <1>2, <1>4, <2>1, <2>3, AtsTurns
<1>5. ASSUME NEW p \in Pairs, NEW op \in AllowCalls \cup {"mint"},
             command' = To(op, p), UNCHANGED <<wire, securities, atsBonds, tokenVars, spoilt>>,
             ~Recording, ~(Calling /\ command.sent),
             p[1] \in DOMAIN securities, op # "addIssuer" => p[1] \in issuers
      PROVE  AtsInv'
  <2>1. /\ command' \in Commands /\ ~Recording' /\ ~command'.sent
        /\ command'.call.op = op /\ command'.call.pair = p
    BY <1>5, ToIs DEF Recording
  <2>2. Sensible(command'.call) /\ op # "deployBond"
    BY <1>5, <2>1 DEF Sensible, AllowCalls
  <2> QED
    BY <1>5, <2>1, <2>2, AtsTurns
<1>6. ASSUME NEW p \in Pairs, StartAllow(p) PROVE AtsInv'
  BY <1>2, <1>5, <1>6 DEF StartAllow, AllowCalls
<1>7. ASSUME NEW p \in Pairs, StartMint(p) PROVE AtsInv'
  <2>1. p[1] \in issuers /\ p[1] \in DOMAIN securities
    BY <1>1, <1>7 DEF StartMint, Allowed
  <2> QED
    BY <1>2, <1>5, <1>7, <2>1 DEF StartMint
<1>8. CASE Proceed
  <2>1. CASE ~AlreadyDone(command.call)
    BY <1>8, <2>1, AtsSends
  <2>2. CASE AlreadyDone(command.call)
    <3> DEFINE call == command.call
    <3>1. /\ Calling /\ ~command.sent /\ command' = Following(call)
          /\ UNCHANGED <<wire, securities, atsBonds, tokenVars, spoilt>>
      BY <1>8, <2>2 DEF Proceed, Calling
    <3>2. call \in Call /\ ~Recording
      BY <1>1, <3>1, CommandIs DEF AtsTyped
    <3>3. call.op \in AllowCalls /\ call.pair[1] \in issuers /\ call.pair \in Pairs
      <4>1. call.op \in AllowCalls
        BY <2>2 DEF AlreadyDone, AllowCalls
      <4>2. call.op # "deployBond"
        BY <4>1 DEF AllowCalls
      <4>3. call.pair[1] \in issuers
        BY <1>1, <2>2 DEF AlreadyDone
      <4> QED
        BY <3>2, <4>1, <4>2, <4>3, CallIs
    <3>4. CASE call.op \in {"addIssuer", "grantKyc"}
      <4>1. command' = IF call.op = "addIssuer" THEN To("grantKyc", call.pair) ELSE To("addToControlList", call.pair)
        BY <3>1, <3>4 DEF Following
      <4>2. PICK op \in AllowCalls : command' = To(op, call.pair)
        BY <4>1 DEF AllowCalls
      <4>3. PICK p \in Pairs : p = call.pair
        BY <3>3
      <4> QED
        BY <1>1, <1>5, <3>1, <3>2, <3>3, <4>2, <4>3
    <3>5. CASE call.op = "addToControlList"
      <4>1. command' = Idle
        BY <3>1, <3>5 DEF Following
      <4>2. ~Calling' /\ ~Recording'
        BY <4>1 DEF Calling, Recording
      <4> QED
        BY <3>1, <3>2, <4>1, <4>2, AtsTurns
    <3> QED
      BY <3>3, <3>4, <3>5 DEF AllowCalls
  <2> QED
    BY <2>1, <2>2
<1>9. CASE MineCall
  BY <1>9, AtsAccepts, AtsReverts
<1>10. CASE recordAtsBond
  BY <1>10, AtsRecords
<1>11. CASE CommandStops
  BY <1>11, AtsStops
<1>12. ASSUME NEW p \in Pairs, GrantExpires(p) PROVE AtsInv'
  BY <1>12, AtsExpires
<1>13. CASE UNCHANGED atsVars
  BY <1>13 DEF atsVars, AtsInv, AtsTyped, AtsCalls, AtsBooks, Calling, Recording, OnWire, Awaits, GivenUp,
       Stray, Owed, Deploying, Repeating, Sensible, AlreadyDone
<1> QED
  BY <1>3, <1>4, <1>6, <1>7, <1>8, <1>9, <1>10, <1>11, <1>12, <1>13 DEF AtsNext

(* What was given up is on the wire besides what is awaited. *)
LEMMA GivenUpIsNat == ASSUME AtsInv, NEW ops PROVE GivenUp(ops) \in Nat
<1>1. wire \in Seq(Call) /\ Cardinality(OnWire(ops)) \in Nat
  BY WireCount DEF AtsInv, AtsTyped
<1>2. CASE Awaits(ops)
  <2>1. wire # <<>> /\ wire[Len(wire)].op \in ops
    BY <1>2 DEF Awaits, AtsInv, AtsCalls
  <2>2. Len(wire) \in DOMAIN wire
    BY <1>1, <2>1
  <2>3. Cardinality(OnWire(ops)) >= 1
    BY <1>1, <2>1, <2>2, WireCount
  <2> QED
    BY <1>1, <1>2, <2>3 DEF GivenUp, One
<1>3. CASE ~Awaits(ops)
  BY <1>1, <1>3 DEF GivenUp, One
<1> QED
  BY <1>2, <1>3

(* So a stray is owed to a stop, and so is a revert. *)
LEMMA AtsPromises == AtsInv => AtsTypeOK /\ StrayAreStops /\ ReRunIsSafe
<1> SUFFICES ASSUME AtsInv PROVE AtsTypeOK /\ StrayAreStops /\ ReRunIsSafe
  OBVIOUS
<1>1. GivenUp(Deploy) \in Nat /\ GivenUp(AllowCalls) \in Nat
  BY GivenUpIsNat
<1>2. Cardinality(Stray) <= spoilt.stops + Owed
  BY <1>1, StraysCount
<1>3. spoilt.reverts <= spoilt.stops
  <2>1. Repeating \in {0, 1}
    BY AtsCounts
  <2> QED
    BY <1>1, <2>1, RevertsCount
<1>4. Len(securities) <= MaxTokens
  BY AtsCounts
<1>5. AtsTypeOK
  BY <1>4 DEF AtsTypeOK, AtsInv, AtsTyped
<1>6. StrayAreStops
  BY <1>2 DEF StrayAreStops, Stray, Owed, One, Recording
<1> QED
  BY <1>3, <1>5, <1>6 DEF ReRunIsSafe

-----------------------------------------------------------------------------
(* The tools run beside each other and share nothing. *)
LEMMA ToolsStart == Init => ToolsIInv
<1> SUFFICES ASSUME Init PROVE ToolsIInv
  OBVIOUS
<1>1. SendInv /\ VerifyInv /\ AtsInv
  BY SendStarts, VerifyStarts, AtsStarts DEF Init
<1>2. /\ signed = [i \in Book |-> 0] /\ onTopic = onMarket /\ onMarket \subseteq Book /\ stopped = 0
      /\ run \in {Off, [at |-> BookLength + 1, step |-> "done"]}
  BY DEF Init, SeedInit
<1>3. SeedInv
  BY <1>2, SeedRests
<1> QED
  BY <1>1, <1>3 DEF ToolsIInv

LEMMA ToolsStep == ToolsIInv /\ [Next]_vars => ToolsIInv'
<1> SUFFICES ASSUME ToolsIInv, [Next]_vars PROVE ToolsIInv'
  OBVIOUS
<1>1. /\ [SeedNext]_seedVars /\ [AtsNext]_atsVars
      /\ [SendNext]_sendVars /\ [VerifyNext]_verifyVars
  <2>1. CASE UNCHANGED toolVars
    BY <2>1 DEF toolVars, scriptVars
  <2>2. CASE SeedNext /\ UNCHANGED <<atsVars, scriptVars>>
    BY <2>2 DEF scriptVars
  <2>3. CASE AtsNext /\ UNCHANGED <<seedVars, scriptVars>>
    BY <2>3 DEF scriptVars
  <2>4. CASE SendNext /\ UNCHANGED <<seedVars, atsVars, verifyVars>>
    BY <2>4
  <2>5. CASE VerifyNext /\ UNCHANGED <<seedVars, atsVars, sendVars>>
    BY <2>5
  <2> QED
    BY <2>1, <2>2, <2>3, <2>4, <2>5 DEF Next, Gate, Others, vars
<1> QED
  BY <1>1, SeedKeeps, AtsKeeps, SendKeeps, VerifyKeeps DEF ToolsIInv

(* What the counts of the tools rest on holds in every state. *)
THEOREM ToolsInductive == Spec => []ToolsIInv
BY ToolsStart, ToolsStep, PTL DEF Spec

(* The operator's tools leave behind no more than the runs that stopped account
   for, and what they say is true: an invoice without its record and a security
   without its entry are owed to a stop each, "sent" is said of money that
   arrived, and a verdict was earned by the claims as they were. *)
THEOREM ToolsKeepPromises == Spec => []ToolsInv
<1>1. ToolsIInv => ToolsInv
  BY SeedPromises, AtsPromises, SendPromises, VerifyPromises DEF ToolsIInv, ToolsInv, ToolsTypeOK
<1> QED
  BY <1>1, ToolsInductive, PTL
=============================================================================
