------------------------------ MODULE QuoteService ------------------------------
(***************************************************************************)
(* Signed discount quotes (apps/api/internal/quote and quoteHandler in       *)
(* internal/server/server.go): the rate policy, the expiry and the nonce.    *)
(***************************************************************************)
EXTENDS Clock, SequencesExt

CONSTANTS
  Maturities,
  BaseRate, StepRate, MaxRate,  \* baseRateBps, stepRateBps, maxRateBps
  Step,                         \* daysPerStep, in seconds
  Validity,
  CounterMod,                   \* 2^16
  MaxQuotes                     \* bound

VARIABLES
  counter,  \* Signer.counter
  quotes    \* history: the quotes signed, in order

quoteVars == <<counter, quotes>>

ASSUME QuoteAssumption ==
  /\ {BaseRate, StepRate, MaxRate, Validity} \subseteq Nat
  /\ {Step, CounterMod} \subseteq Nat \ {0}
  /\ BaseRate <= MaxRate /\ Maturities \subseteq Nat

Quote == [maturity: Maturities, rate: Nat, validUntil: Nat, nonce: Nat, at: Times]

QuoteTypeOK ==
  /\ counter \in 0 .. CounterMod - 1
  /\ quotes \in Seq(Quote)

QuoteInit == now = 0 /\ counter = 0 /\ quotes = <<>>

(* RateBps, of the time to maturity. *)
RateBps(tenor) ==
  IF BaseRate + StepRate * (tenor \div Step) > MaxRate
    THEN MaxRate ELSE BaseRate + StepRate * (tenor \div Step)

SignedNow == {i \in DOMAIN quotes : quotes[i].at = now}

(* Mutant of NextNonce: the counter starts again with every quote. *)
NonceOfSecond == now * CounterMod

(* NextNonce: the second in the high bits, a wrapping counter in the low ones. *)
NextNonce == now * CounterMod + counter

(* quoteHandler; the limiter lets through far fewer than 2^16 a second. *)
SignQuote(m) ==
  /\ m > now
  /\ Len(quotes) < MaxQuotes /\ Cardinality(SignedNow) < CounterMod
  /\ quotes' = Append(quotes,
       [maturity |-> m, rate |-> RateBps(m - now), validUntil |-> now + Validity,
        nonce |-> NextNonce, at |-> now])
  /\ counter' = (counter + 1) % CounterMod

(* A new process counts from zero; it is not up within the same second. *)
Restart == SignedNow = {} /\ counter' = 0 /\ UNCHANGED quotes

QuoteNext ==
  \/ (Restart \/ \E m \in Maturities : SignQuote(m)) /\ UNCHANGED now
  \/ Tick /\ UNCHANGED quoteVars

QuoteSpec == QuoteInit /\ [][QuoteNext]_<<now, quoteVars>>

-----------------------------------------------------------------------------
(* No two quotes carry one nonce, whatever the counter wraps to between seconds
   and after a restart (signer.go:109-119). *)
NoncesUnique ==
  \A i, j \in DOMAIN quotes : quotes[i].nonce = quotes[j].nonce => i = j

(* Waiting or asking for a shorter tenor never costs more, and no rate leaves the
   band of the policy (pricing.go:17-31). *)
RatesFollowTenor ==
  \A i, j \in DOMAIN quotes :
    /\ quotes[i].maturity - quotes[i].at <= quotes[j].maturity - quotes[j].at
         => quotes[i].rate <= quotes[j].rate
    /\ quotes[i].rate \in BaseRate .. MaxRate
=============================================================================
