------------------------------- MODULE MCSowee -------------------------------
(***************************************************************************)
(* Small instances of the on-chain protocol for TLC.                        *)
(***************************************************************************)
EXTENDS Sowee, TLC

CONSTANTS iss, ann, bob, inv, inv2, op, key, key2

Sym == Permutations({ann, bob})

QuoteOf(i, face, rate, maturity, nonce, signedBy) ==
  [invoiceId |-> i, issuer |-> iss, faceValue |-> face, maturity |-> maturity,
   discountRateBps |-> rate, validUntil |-> 0, nonce |-> nonce, signer |-> signedBy]

\* One invoice of three units that matures after one tick.
OneBond == {QuoteOf(inv, 3, 1, 1, 1, key)}

\* Quotes that share a nonce, that share an invoice, that are signed by an
\* old key and that are above the cap.
ManyQuotes ==
  {QuoteOf(inv, 1, 1, 1, 1, key), QuoteOf(inv2, 1, 1, 1, 1, key),
   QuoteOf(inv, 2, 0, 2, 2, key), QuoteOf(inv2, 2, 3, 2, 3, key),
   QuoteOf(inv2, 1, 0, 1, 2, key2)}

Opening == [a \in Accounts |-> 2]
=============================================================================
