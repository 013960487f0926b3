------------------------------- MODULE RateLimit -------------------------------
(***************************************************************************)
(* The tiered rate limiter (apps/api/internal/ratelimit/ratelimit.go).  A    *)
(* bucket exists only once its key was seen, is refilled when it is touched  *)
(* and is swept when nobody has touched it for IdleTTL.                      *)
(***************************************************************************)
EXTENDS Clock, FiniteSetsExt

CONSTANTS
  IPs, Wallets,
  Base, VerifiedRate,  \* tokens per minute for an IP and for a verified wallet
  Minute,              \* ticks
  IdleTTL

VARIABLES
  buckets,    \* Tiered.buckets: key -> NoBucket or [tokens, last]
  lastSweep,
  verified,   \* wallets with the Selfie Check signal (IsVerified)
  answer      \* key -> the last answer

limitVars == <<buckets, lastSweep, verified, answer>>

ASSUME LimitAssumption ==
  /\ {Base, VerifiedRate, Minute} \subseteq Nat \ {0}
  /\ IdleTTL \in Nat /\ IdleTTL >= Minute
  /\ IPs \cap Wallets = {}

Keys == IPs \cup Wallets
RateOf == [k \in Keys |-> IF k \in IPs THEN Base ELSE VerifiedRate]
NoBucket == [tokens |-> Never, last |-> Never]

Full(k) == RateOf[k] * Minute

LimitTypeOK ==
  /\ buckets \in [Keys -> {NoBucket} \cup [tokens: Nat, last: Times]]
  /\ \A k \in Keys : buckets[k].tokens <= Full(k) /\ buckets[k].last <= now
  /\ lastSweep \in {-Minute} \cup Times
  /\ verified \subseteq Wallets

LimitInit ==
  /\ now = 0
  /\ buckets = [k \in Keys |-> NoBucket]
  /\ lastSweep = -Minute  \* the zero time
  /\ verified = {}
  /\ answer = [k \in Keys |-> "none"]

(* The tokens a key has now: a new or a forgotten bucket starts full. *)
Level(k) ==
  IF buckets[k] = NoBucket THEN Full(k)
  ELSE Min({Full(k), buckets[k].tokens + (now - buckets[k].last) * RateOf[k]})

SweepIsDue == now - lastSweep >= Minute

(* Mutant of Sweep: forgets every bucket not touched this instant. *)
SweepEarly(bs) == [k \in Keys |-> IF now > bs[k].last THEN NoBucket ELSE bs[k]]

(* sweep *)
Sweep(bs) ==
  [k \in Keys |-> IF SweepIsDue /\ now - bs[k].last > IdleTTL THEN NoBucket ELSE bs[k]]

(* Allow: refills the key's bucket, sweeps, and takes a token if there is one. *)
Allow(k) ==
  LET served == Level(k) >= Minute
      left == IF served THEN Level(k) - Minute ELSE Level(k)
  IN  /\ buckets' = Sweep([buckets EXCEPT ![k] = [tokens |-> left, last |-> now]])
      /\ lastSweep' = IF SweepIsDue THEN now ELSE lastSweep
      /\ answer' = [answer EXCEPT ![k] = IF served THEN "served" ELSE "limited"]
      /\ UNCHANGED verified

(* Middleware: a request from ip that proved it controls wallet w, or no wallet. *)
Request(ip, w) == Allow(IF w \in verified THEN w ELSE ip)

(* A wallet passes the Selfie Check. *)
Verify(w) ==
  /\ w \notin verified
  /\ verified' = verified \cup {w}
  /\ UNCHANGED <<buckets, lastSweep, answer>>

LimitNext ==
  \/ /\ \/ \E ip \in IPs : \E w \in Wallets \cup {ip} : Request(ip, w)
        \/ \E w \in Wallets : Verify(w)
     /\ UNCHANGED now
  \/ Tick /\ UNCHANGED limitVars

LimitSpec == LimitInit /\ [][LimitNext]_<<now, limitVars>>

-----------------------------------------------------------------------------
TokenBuckets == INSTANCE TokenBucket WITH level <- [k \in Keys |-> Level(k)]

(* Refilling on touch, creating buckets on demand and forgetting idle ones is
   not observable: every key is served and refused as by a bucket that is always
   there (ratelimit.go:44-79). *)
LimiterIsTokenBuckets == TokenBuckets!Spec

(* The buckets kept are those of recent traffic: none was left untouched for
   longer than IdleTTL and a minute when the last request came
   (ratelimit.go:35-37, 67-79). *)
BucketsAreRecent ==
  \A j, k \in Keys : buckets[j] # NoBucket /\ buckets[k] # NoBucket =>
    buckets[j].last - buckets[k].last < IdleTTL + Minute
=============================================================================
