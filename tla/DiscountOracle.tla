--------------------------- MODULE DiscountOracle ---------------------------
(***************************************************************************)
(* The on-chain check of signed discount quotes                             *)
(* (contracts/src/DiscountOracle.sol).  A quote is a record; its signature  *)
(* is the field "signer", the key that signed exactly these fields.         *)
(***************************************************************************)
EXTENDS Integers

CONSTANTS
  Quotes,      \* the quotes callers may present
  Signers,     \* signing keys the owner may configure
  MaxRateBps   \* MAX_RATE_BPS

VARIABLES
  signer,      \* the configured signing key
  consumer,    \* the contract allowed to consume quotes
  nonceUsed    \* nonces of consumed quotes

oracleVars == <<signer, consumer, nonceUsed>>

Nonces == {q.nonce : q \in Quotes}

(* Mutant of Verify: forgets which quotes were consumed. *)
VerifyForgetful(q, now) ==
  /\ q.discountRateBps <= MaxRateBps
  /\ now <= q.validUntil
  /\ q.signer = signer

(* verify: not above the rate cap, not expired, not used, rightly signed. *)
Verify(q, now) ==
  /\ q.discountRateBps <= MaxRateBps
  /\ now <= q.validUntil
  /\ q.nonce \notin nonceUsed
  /\ q.signer = signer

(* consume *)
Consume(caller, q, now) ==
  /\ caller = consumer
  /\ Verify(q, now)
  /\ nonceUsed' = nonceUsed \cup {q.nonce}
  /\ UNCHANGED <<signer, consumer>>

(* setSigner *)
SetSigner(s) ==
  /\ signer' = s
  /\ UNCHANGED <<consumer, nonceUsed>>

(* setConsumer *)
SetConsumer(c) ==
  /\ consumer' = c
  /\ UNCHANGED <<signer, nonceUsed>>
=============================================================================
