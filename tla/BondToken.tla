------------------------------ MODULE BondToken ------------------------------
(***************************************************************************)
(* The permissioned ERC-20 of one invoice (contracts/src/BondToken.sol),    *)
(* for every invoice at once: each variable maps an invoice to that bond's  *)
(* storage.  A bond that is not deployed yet has no roles, so none of its   *)
(* restricted operations is enabled.                                        *)
(*                                                                          *)
(* External: OpenZeppelin's ERC20 bookkeeping (Update) and AccessControl.   *)
(* Allowances are left out: an approval is the holder's own consent, so     *)
(* every transfer a spender could make is a step of Transfer or FillAsk.    *)
(***************************************************************************)
EXTENDS Integers, Totals

CONSTANTS
  Invoices,    \* invoice ids (bytes32)
  Accounts,    \* externally owned accounts that may hold units or USDC
  Screened,    \* accounts the operators decide on
  Operators,   \* compliance operators (the KYC API's accounts)
  Minters,     \* contracts that may hold ISSUER_ROLE
  Amounts,     \* the unit and USDC amounts callers pass
  Zero         \* address(0)

VARIABLES
  totalSupply,     \* ERC20 total supply
  balanceOf,       \* ERC20 balances
  isEligible,      \* accounts allowed to receive units
  isFrozen,        \* accounts that may not send units
  complianceRole,  \* holders of COMPLIANCE_ROLE
  issuerRole       \* holders of ISSUER_ROLE

tokenVars ==
  <<totalSupply, balanceOf, isEligible, isFrozen, complianceRole, issuerRole>>

ASSUME TokenAssumption ==
  /\ IsFiniteSet(Invoices)
  /\ IsFiniteSet(Accounts)
  /\ Screened \subseteq Accounts
  /\ Amounts \subseteq Nat
  /\ Zero \notin Accounts \cup Operators \cup Minters

TokenTypeOK ==
  /\ totalSupply \in [Invoices -> Nat]
  /\ balanceOf \in [Invoices -> [Accounts -> Nat]]
  /\ isEligible \in [Invoices -> SUBSET Accounts]
  /\ isFrozen \in [Invoices -> SUBSET Accounts]
  /\ complianceRole \in [Invoices -> SUBSET Operators]
  /\ issuerRole \in [Invoices -> SUBSET Minters]

TokenInit ==
  /\ totalSupply = [i \in Invoices |-> 0]
  /\ balanceOf = [i \in Invoices |-> [a \in Accounts |-> 0]]
  /\ isEligible = [i \in Invoices |-> {}]
  /\ isFrozen = [i \in Invoices |-> {}]
  /\ complianceRole = [i \in Invoices |-> {}]
  /\ issuerRole = [i \in Invoices |-> {}]

-----------------------------------------------------------------------------
(* Mutant of Update: mints skip the eligibility check, as burns do. *)
UpdateAnyMint(i, from, to, value) ==
  /\ from # Zero => from \notin isFrozen[i] /\ value <= balanceOf[i][from]
  /\ from # Zero /\ to # Zero => to \in isEligible[i]
  /\ balanceOf' = [balanceOf EXCEPT ![i] =
       [a \in Accounts |-> balanceOf[i][a] - (IF a = from THEN value ELSE 0)
                                           + (IF a = to THEN value ELSE 0)]]
  /\ totalSupply' = [totalSupply EXCEPT ![i] =
       totalSupply[i] + (IF from = Zero THEN value ELSE 0)
                      - (IF to = Zero THEN value ELSE 0)]
  /\ UNCHANGED <<isEligible, isFrozen, complianceRole, issuerRole>>

(* _update: every mint (from Zero), burn (to Zero) and transfer. *)
Update(i, from, to, value) ==
  /\ from # Zero => from \notin isFrozen[i] /\ value <= balanceOf[i][from]
  /\ to # Zero => to \in isEligible[i]
  /\ balanceOf' = [balanceOf EXCEPT ![i] =
       [a \in Accounts |-> balanceOf[i][a] - (IF a = from THEN value ELSE 0)
                                           + (IF a = to THEN value ELSE 0)]]
  /\ totalSupply' = [totalSupply EXCEPT ![i] =
       totalSupply[i] + (IF from = Zero THEN value ELSE 0)
                      - (IF to = Zero THEN value ELSE 0)]
  /\ UNCHANGED <<isEligible, isFrozen, complianceRole, issuerRole>>

(* Mutant of Mint: each mint is held against the face value, not their sum. *)
MintEachWithinFace(i, faceValue, caller, to, units) ==
  /\ caller \in issuerRole[i]
  /\ units <= faceValue
  /\ Update(i, Zero, to, units)

(* mint: the face value is the bond's constructor argument. *)
Mint(i, faceValue, caller, to, units) ==
  /\ caller \in issuerRole[i]
  /\ units <= faceValue - totalSupply[i]
  /\ Update(i, Zero, to, units)

(* burn *)
Burn(i, caller, from, units) ==
  /\ caller \in issuerRole[i]
  /\ Update(i, from, Zero, units)

(* ERC20 transfer, and transferFrom under an approval. *)
Transfer(i, from, to, units) == Update(i, from, to, units)

(* setEligible *)
SetEligible(i, caller, account, eligible) ==
  /\ caller \in complianceRole[i]
  /\ isEligible' = [isEligible EXCEPT ![i] =
       IF eligible THEN @ \cup {account} ELSE @ \ {account}]
  /\ UNCHANGED <<totalSupply, balanceOf, isFrozen, complianceRole, issuerRole>>

(* setFrozen *)
SetFrozen(i, caller, account, frozen) ==
  /\ caller \in complianceRole[i]
  /\ isFrozen' = [isFrozen EXCEPT ![i] =
       IF frozen THEN @ \cup {account} ELSE @ \ {account}]
  /\ UNCHANGED <<totalSupply, balanceOf, isEligible, complianceRole, issuerRole>>

(* The constructor and the first role grants of listInvoice. *)
Deploy(i, operator, minters) ==
  /\ complianceRole' = [complianceRole EXCEPT ![i] = {operator}]
  /\ issuerRole' = [issuerRole EXCEPT ![i] = minters]
  /\ UNCHANGED <<totalSupply, balanceOf, isEligible, isFrozen>>

-----------------------------------------------------------------------------
(* The steps an account or an operator takes on the bond directly. *)
TokenNext ==
  \E i \in Invoices :
    \/ \E from, to \in Accounts, units \in Amounts : Transfer(i, from, to, units)
    \/ \E op \in Operators, a \in Screened, b \in BOOLEAN : SetEligible(i, op, a, b)
    \/ \E op \in Operators, a \in Screened, b \in BOOLEAN : SetFrozen(i, op, a, b)
=============================================================================
