-------------------------------- MODULE Faucet --------------------------------
(***************************************************************************)
(* The demo faucet (apps/api/internal/faucet/faucet.go): a slot per wallet   *)
(* is reserved under the mutex and released when the transfer fails; the     *)
(* transfer waits for the treasury key's lock and for its receipt.           *)
(***************************************************************************)
EXTENDS Clock, Sequences

CONSTANTS
  Claimants,    \* wallets that passed the Selfie Check
  Drips,        \* claims in flight at once
  Cooldown,
  MaxTimeouts   \* bound: receipts that come too late

VARIABLES
  last,      \* Faucet.last
  drips,     \* claim -> NoDrip or what it is at
  paid,      \* history: wallet -> when its paid claims were made
  timeouts   \* counter against the bound

faucetVars == <<last, drips, paid, timeouts>>

ASSUME FaucetAssumption == {Cooldown, MaxTimeouts} \subseteq Nat

NoDrip == [at |-> "none"]

FaucetTypeOK ==
  /\ now \in Times
  /\ last \in [Claimants -> Times \cup {Never}]
  /\ drips \in [Drips -> {NoDrip} \cup [at: {"send", "wait"}, wallet: Claimants, since: Times]]
  /\ paid \in [Claimants -> Seq(Times)]
  /\ timeouts \in 0 .. MaxTimeouts

FaucetInit ==
  /\ now = 0
  /\ last = [w \in Claimants |-> Never]
  /\ drips = [c \in Drips |-> NoDrip]
  /\ paid = [w \in Claimants |-> <<>>]
  /\ timeouts = 0

Pays(w, since) == paid' = [paid EXCEPT ![w] = Append(@, since)]
Done(c) == drips' = [drips EXCEPT ![c] = NoDrip]

(* Mutant of Drip: the slot is taken only when the transfer has succeeded. *)
DripUnreserved(c, w) ==
  /\ drips[c] = NoDrip
  /\ last[w] = Never \/ now - last[w] >= Cooldown
  /\ drips' = [drips EXCEPT ![c] = [at |-> "send", wallet |-> w, since |-> now]]
  /\ UNCHANGED <<last, paid, timeouts>>

(* Drip: refuses a wallet that claimed within the cooldown, takes its slot. *)
Drip(c, w) ==
  /\ drips[c] = NoDrip
  /\ last[w] = Never \/ now - last[w] >= Cooldown
  /\ last' = [last EXCEPT ![w] = now]
  /\ drips' = [drips EXCEPT ![c] = [at |-> "send", wallet |-> w, since |-> now]]
  /\ UNCHANGED <<paid, timeouts>>

HasLock(c) == \A o \in Drips \ {c} : drips[o].at # "wait"

(* send: takes the key's lock, estimates and submits. *)
Send(c) ==
  /\ drips[c].at = "send" /\ HasLock(c)
  /\ drips' = [drips EXCEPT ![c].at = "wait"]
  /\ UNCHANGED <<last, paid, timeouts>>

(* send: the transfer went through. *)
Mined(c) ==
  /\ drips[c].at = "wait"
  /\ Pays(drips[c].wallet, drips[c].since)
  /\ Done(c)
  /\ UNCHANGED <<last, timeouts>>

(* Drip: the transfer could not be sent or reverted, the slot is released. *)
DripFails(c) ==
  /\ drips[c] # NoDrip /\ HasLock(c)
  /\ last' = [last EXCEPT ![drips[c].wallet] = Never]
  /\ Done(c)
  /\ UNCHANGED <<paid, timeouts>>

(* Drip: no receipt in time releases the slot too, and the transfer lands. *)
ReceiptLate(c) ==
  /\ drips[c].at = "wait"
  /\ timeouts < MaxTimeouts /\ timeouts' = timeouts + 1
  /\ last' = [last EXCEPT ![drips[c].wallet] = Never]
  /\ Pays(drips[c].wallet, drips[c].since)
  /\ Done(c)

(* A request ends long before the cooldown does: 90 seconds for the receipt
   against a cooldown of hours (config.go). *)
DripsAreShort ==
  \A c \in Drips : drips[c] # NoDrip => now - drips[c].since < Cooldown

FaucetNext ==
  \/ /\ \E c \in Drips :
          \/ \E w \in Claimants : Drip(c, w)
          \/ Send(c) \/ Mined(c) \/ DripFails(c) \/ ReceiptLate(c)
     /\ UNCHANGED now
  \/ Tick /\ UNCHANGED faucetVars /\ DripsAreShort'

FaucetSpec == FaucetInit /\ [][FaucetNext]_<<now, faucetVars>>

-----------------------------------------------------------------------------
(* A wallet is paid once per cooldown, whichever claims race, as long as no
   receipt came late (faucet.go:30, 66-84). *)
OncePerCooldown ==
  timeouts = 0 =>
    \A w \in Claimants : \A i \in 2 .. Len(paid[w]) :
      paid[w][i] - paid[w][i - 1] >= Cooldown

(* A wallet's slot is taken by a claim in flight or by one that paid, so a claim
   that failed never makes the wallet wait (faucet.go:73-82). *)
SlotsAreEarned ==
  \A w \in Claimants : last[w] # Never =>
    \/ \E c \in Drips : drips[c] # NoDrip /\ drips[c].wallet = w
    \/ \E i \in DOMAIN paid[w] : paid[w][i] = last[w]
=============================================================================
