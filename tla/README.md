# Verification of Sowee

Sowee turns invoices into permissioned bonds on Hedera. This directory holds TLA+
models of the parts of it that decide who may hold what and who gets which money,
the TLC runs that check them on small instances, and TLAPS proofs of every safety
property the runs check, one excepted: of the on-chain protocol, the KYC flow, the
audit trail with the Selfie Check, the services of the API and the operator's tools,
the clients of an investor, and the pages.
`PROJECT.json` ties every definition to the source lines it stands for, every
property to a mutant of the code it catches, and lists the hazards the properties
are aimed at.

To repeat a check: `tlc -config <cfg> <module>` for the runs below, `tlapm
<module>_proofs.tla` for the proofs.

## 1. Inventory

### Contracts (`contracts/src`)

| Component | State | Operations | What is hard |
| --- | --- | --- | --- |
| `BondToken`, one per invoice | supply, balances, eligible and frozen accounts, roles | mint, burn, transfer, setEligible, setFrozen | flags change between the steps of a trade or an exit |
| `DiscountOracle` | signing key, consumer, used nonces | consume, setSigner, setConsumer | one quote, one listing, whatever is rotated in between |
| `InvoiceMarket` | listings, asks, fee, treasury, settlement, compliance operator | listInvoice, buyPrimary, makeAsk, cancelAsk, fillAsk, the owner's setters and role passthroughs | asks lock no units; roles outlive rotations; rounding |
| `MaturitySettlement`, may be rotated | repayments, deposits, one pot of USDC for all bonds | registerRepayment, settle, withdrawRepayment, claim | rounding, any order of claims, money that has to have a way out |
| `HederaAssociable`, scripts | none that lasts | associate in a constructor; wiring | nothing a model shows |

They interact by calls within one transaction; a transaction is atomic, so the
concurrency is the order of transactions of issuers, investors, payers, operators
and the owner. They should guarantee: supply within face value, one listing per
quote, units only with eligible accounts and never out of frozen ones, fills
under the maker's terms, repaid money that covers every claim in any order and
never sits without a way out.

### API (`apps/api`)

| Component | State | Operations | What is hard |
| --- | --- | --- | --- |
| KYC policy (`kyc/policy.go`) | none | Evaluate | who exactly is eligible, over every questionnaire and spelling |
| KYC flow (`kyc/flow.go`, `server/kyc.go`) | granted wallets, jobs in flight, rechecks, selfie signals | submit, status, webhook; background grant and revoke | requests read under no lock; jobs outlive requests; a restart forgets |
| Granter (`grant/granter.go`, `txlock`) | one lock per key | walk the bonds, send, wait | receipts that come late or never; the operator key is shared |
| Audit trail (`hcs/`) | pledged documents, mutex | attest, receipt, selfie; replay at start | a record lands but is reported lost; chunks; other writers; half a replay |
| World Selfie Check (`world/`, `server/world.go`) | nullifiers and their wallets | verify, bind, restore | two requests with one proof around an unlocked call to the portal |
| Payment gate (`x402/gate.go`) | payloads seen, usage | reserve, verify, settle, release, record, prune | replay against pruning against lost answers |
| Faucet (`faucet/`) | slot per wallet | drip | racing claims; a failed transfer must give the slot back |
| Rate limiter (`ratelimit/`) | bucket per key | allow, sweep | forgetting a bucket must not be a gift |
| Quote service (`quote/`) | counter | rate, nonce, sign | nonces over seconds, wraps and restarts |
| Sumsub client, signed requests, market reader, server, configuration | none that matters | calls, checks, routing | in the modules of the services that use them, or left out |

### Clients and tools

| Component | State | Operations | What is hard |
| --- | --- | --- | --- |
| Web app: transactions and forms (`use-tx.ts`, `buy-form.tsx`, `asks.tsx`, `issuer-form.tsx`, `association.ts`) | query cache, one transaction per form | simulate, sign, wait, invalidate; approve before the order; quote, list, anchor; associate | decisions from cached reads; forms left with a transaction on its way; one allowance for all asks; a listing whose page was closed before its document was anchored |
| Web app: onboarding wizard (`kyc-wizard.tsx`, `kyc.ts`) | step, wallet, signature, stored status | sign, declare, verify, poll | late answers, wallet switches, expiring signatures, reloads |
| Web app: readers (`hcs.ts`, `market.ts`, `use-bonds.ts`, `marketplace.tsx`, `portfolio.tsx`) | query cache, page, chips, search | fetch, join chunks, sort, page, draw | pages and chunks in motion; keys that outlive the wallet; a list that shrinks under a page number; the last day |
| Investment agent (`apps/agent`) | one run | probe, pay for insights, size, approve, buy | integer sizing against rounding; no simulation; races |
| ATS issuance tool (`apps/ats`) | a record on disk | issue, allow, credit, show | stopped between a transaction and its record, and run again |
| Scripts (`scripts/`) | none | seed the market, send USDC, verify claims | run again where they stopped; a verdict that must be earned |
| Landing page (`apps/landing`) | the kept page | read, render, keep | a failed read replaces a page |
| Presentation, generated ABIs, vendored code, build | none | | no program state |

## 2. Modules

`-->` is "is part of"; `==>` is "implements".

```
Totals (sums, orderings), BondToken, DiscountOracle --> InvoiceMarket
InvoiceMarket --> MaturitySettlement --> Sowee ==> ClaimPool
                                         Sowee --> MCSowee --> MCScenes
InvoiceMarket --> Investor --> Agent -----------------------+
                  Investor --> WebTrading ------------------+--> MCClients

Policy --> KycFlow --> MCKycFlow
Policy --> Questionnaire ----------------------------------+
Onboarding, Issuance, Visitor, TrailReader, Marketplace,   +--> MCSite
Holdings, PayoffLine, LandingPage -------------------------+

AuditTrail --> SelfieCheck

Clock --> X402Gate, Faucet, QuoteService, -----------------+
          RateLimit ==> TokenBucket                        +--> MCApi
SeedMarket, AtsTool, OperatorScripts ----------------------+

Totals_proofs, ClaimPool_proofs --> Sowee_proofs
Kyc_proofs (KycFlow);  SelfieCheck_proofs
Totals_proofs --> Api_proofs (MCApi), Clients_proofs (MCClients), Site_proofs (MCSite)
```

A module has the variables of its component and one action per operation; the
names are those of the source. Sums over accounts and sorting are in `Totals`: a sorted
list is the one enumeration of a set that follows the order (`Ordered`), which says what
every correct sort returns and can be reasoned about. History variables and counters that a bound needs
are marked in the declarations. Operators introduced as "Mutant of" are not part
of any specification: they are the bugs that the properties are shown to catch.

**On chain.** `BondToken` keeps all bonds as functions of the invoice. A
transfer, mint and burn go through `Update`, as the contract's `_update`.
`DiscountOracle` represents a signature by the key that made it. `InvoiceMarket` has
the owner's setters as well as trading, and the clock and the USDC token of the network
as the contracts use them (external). `MaturitySettlement` is a function of the
settlement contract, since the owner may replace it while the old one still
holds money. Allowances are left out here: a holder who did not approve is one
who does not take the step. `Sowee` is the whole with its properties, and
`ClaimPool` is what a settlement contract promises the holders of one bond:
money flows into a pot, the rate is fixed once, units leave paid at that rate or
retired for nothing.

**KYC.** `Policy` reduces each answer to what `Evaluate` tells apart, and
`Questionnaire` is the form that produces the answers. In `KycFlow` a request is a
caller whose reads are separate steps, a background job walks the bonds one
transaction at a time, and transactions queue at the network in nonce order, may
land late, or be dropped. `Restart` clears the process and leaves the queue.

**Audit trail.** `AuditTrail` has the topic as a sequence of chunks with their
payer. Submitting holds the mutex for several steps; anything may be written by
others in between; `Replay` rebuilds the index from a prefix the mirror
serves. A message that was handed to the network stays on the `wire` when its submission is
given up or its process dies, and may land at any later moment, also after the new
process has read the whole topic. `SelfieCheck` runs its requests over that trail.

**API services.** `X402Gate`, `Faucet`, `RateLimit` and `QuoteService` share the
clock of one process and nothing else. `TokenBucket` is the rate limiter without
creation on demand and without forgetting.

**Trading clients.** `Investor` is the market seen from one wallet: the same
actions under ERC-20 approvals, plus what everyone else may do: buy, ask, cancel, fill,
change the fee, move units from under an ask or approve less of them, and take an account off
the allowlist or freeze it. `WebTrading` starts
with the hook of the forms, `use-tx.ts`; a form's transaction is sent, signed and mined at separate
moments, and its call is fixed by the render in which the button was pressed.
Simulation and signature are one step, since whatever happens between them may
as well happen between the signature and the block. It goes on with the query
cache, each query refetched on its own, and the forms that decide from it. A
query is read at one moment, also `fetchAsks`, which reads ask by ask. `Agent`
goes from the probe of the paid endpoint to the purchase; that a payment is served
once is the gate's business. Whether a transaction would succeed is `ENABLED` of
it, which is what `eth_call` answers.

**Pages.** `Onboarding` is the wizard: its step, the wallet and its signatures, the
requests on their way, and the file the API keeps per wallet. A request was built
for the wallet of its moment and its answer is applied to the page as that is
when it arrives. `Issuance` is the issuer's form from picking a file to the
anchored document, with the checklist that finishes what a closed page left.
`Visitor` is the way to an order: dialogs, network, allowlist and USDC
association, each read through a cache, and the API that takes a wallet off the allowlist
again (`overtaken` is the history of that). `TrailReader` follows the mirror node's pages
newest first while others write, and joins chunks; a logo may take one message or
several. `Marketplace` has the list under
its chips, sorting, search and pages while listings appear, fill and mature;
`Holdings` the cached bonds and positions of two pages and two wallets, with balances and
claims read by separate calls and payouts that may round to nothing;
`PayoffLine` the lines that are drawn, in exact fractions instead of floats;
`LandingPage` the kept rendering that is read again behind a visit.

**Tools.** `SeedMarket`, `AtsTool` and, in `OperatorScripts`, `send-usdc.ts` are
processes that read and send in turn, stop anywhere, and are run again by an
operator who sees what they printed; what they sent may be mined after they stopped.
`OperatorScripts` also has `verify-claims.ts`: the list of checks, with services that
go up and down underneath.

## 3. Runs

| Run | Module, cfg | States | What it shows |
| --- | --- | --- | --- |
| `payout` | `MCSowee`, `Payout` | 130 k | the life of one bond: supply within face, deposits add up, claims covered in any order, matured money has a way out, and (liveness) holders of a repaid bond get out without issuer or owner |
| `market` | `MCScenes`, `Market` | 98 k | two scenes. Trading: asks filled in part, cancelled, undercut by transfers, under freezes and a fee; compliance and the maker's terms hold on every path. Rotation: two settlement contracts on one bond, each implementing `ClaimPool`; a settled rate is final |
| `listing` | `MCSowee`, `TwoPots` | 539 k | two invoices, colliding quotes, signer and consumer rotations: one listing per nonce, and one pot of USDC that never mixes bonds |
| `kyc` | `MCKycFlow`, `Kyc` | 758 k | two wallets, one operator key, corrected reviews, failures, a restart: every flag and every transaction goes back to a verdict |
| `kyc_jobs` | `MCKycFlow`, `KycJobs` | 95 k | liveness of granting and revoking across failures, restarts and new listings |
| `trail` | `SelfieCheck`, `Trail` | 1.0 M | one person with two wallets, one document for two invoices: no signal without a person, and no second wallet, second pledge or forgotten pledge but for messages that land late or unreported and replays that are cut short, one for each |
| `api` | `MCApi`, `Api` | 231 k | payments served once and metered honestly, faucet slots, limiter refinement, nonces and rates; the tools leave no more behind than the runs that stopped, say only what is true, and get there when run again |
| `clients` | `MCClients`, `Clients` | 873 k | the trading forms over stale reads and the agent against other investors |
| `site` | `MCSite`, `Site` | 319 k | the wizard files what its owner said and arrives at the status, a listed invoice gets its document anchored, records are read whole, bonds are found, lines end at what is owed, open pages catch up |
| `kyc_restart` | `MCKycFlow`, `KycRestart` | violation | finding 1 |
| `trail_lost` | `SelfieCheck`, `TrailLost` | violation | finding 2 |
| `agent_order` | `MCClients`, `Agent` | violation | finding 3 |

Some names stand for a conjunction of properties, each stated and commented where
its component is: `KycInv`, `TrailInv`, `ServiceInv`, `ToolsInv`, `AgentInv`,
`OnboardingInv`, `WalletPagesInv`, `ReadingsAreWhole`, `BondsAreFound`,
`PayoffIsHonest`, `ApprovalsSuffice`, `OrdersSucceed`, and of the action and temporal ones
`RevocationsComeThrough`, `AsksHonoured`, `ToolsComeThrough`, `PagesCatchUp`. What is a
fact about operators alone is an `ASSUME` that TLC evaluates: that derived ISINs
pass the checksum, over all short bodies from eight characters that cover every case
of doubling and expansion (`IsinsPassTheRule`), and that the page buttons reach every
page and the labels of the axes are readable (`PagesAndAxes`).

### Findings

1. *A granted wallet is not revoked after a restart.* `ensureRevoked`
   (`flow.go:225`) acts only on wallets in the granted map. The map is empty
   after a restart and filled again only while the wallet is eligible, so a wallet
   granted before and blocked after a restart keeps its flag;
   `apps/api/README.md:218` says it is revoked. `GrantedGetsRevoked`.
2. *A restart can forget a pledge.* When the replay at start fails or ends early
   the process serves without the pledges it did not read, and accepts the
   document for another invoice; `apps/api/README.md:117` says that a restart
   cannot forget a pledge. `RestartsForgetNothing`. With full replays
   the same property holds (`trail`).
3. *The agent can order more than it can pay for.* `planBuy` divides the balance
   by the price of one whole unit, and the order is then rounded up again, price
   and fee. At 300 bps, a fee of 50 bps and a balance of 1,000,000 base units it
   orders 1,025,798 for 995,025 + 4,976 = 1,000,001, and the purchase reverts;
   `plan.ts:29` promises otherwise. `OrdersWithinBalance`. What does hold is that the
   excess is two base units at most, which `AgentSpendsAsTold` proves for every
   balance, rate and fee, and that nothing else makes an undisturbed order of the
   agent fail, which `clients` checks.

### Bounds and why they are enough

*On chain.* Bps is 4, so that every division rounds, also at the smallest
amounts; a bond has three units and up to two investors, so that claims can
come in different orders and a fee, an ask or a freeze can fall between any two
of them; time has a tick for maturity and one for the grace period (`Grace = 1`). Two
settlement contracts suffice for every interaction of an old and a new one. Two
invoices share one settlement pot in `listing`. Fees and asks are only in
the trading scene of `market`, role changes only in its rotation scene: together they
exceed what TLC searches, and they meet the properties of the other runs only through units and
balances that the other actions already vary. What the proofs cover holds for
all of them at once.

*KYC.* Two wallets matter where the operator key is shared (`kyc`), two bonds
where a job can fail halfway or a listing comes late (`kyc_jobs`). One caller at
a time is concurrent with both jobs, reviews and the network; the reads of a
request interleave with all of them. Two reviews let a verdict be corrected
once.

*Trail.* Three messages on the topic hold a split record and one more; two
callers and one nullifier over two wallets are the race the lock is there for. One fault
(`MaxFaults`) is what the counting properties have to tell from none, and the constraint
`Bounded` leaves out only states that have many messages, restarts and requests under way at
once; invoices, wallets and callers are interchangeable (`Interchangeable`), which is sound
because the properties are of states and steps and name none of them.

*API.* Two requests for one payload, two payloads of one payer, and a clock that
passes the replay window twice; three claims over two wallets; a bucket is
created, refilled, swept and created again within five ticks; a
counter modulo 2 wraps within one second. The book of the seeding script has three
invoices, so that there is one before and one after the one at which it stops, and
it stops twice; the ATS tool has two invoices, two tokens, two stops and one grant that
expires;
USDC is sent from a treasury that covers two and a half payments, with one receipt
lost; the claims are the script's, in its order, and one of them may change while
it runs.

*Clients.* Each behaviour has the wallet at one desk, because the desks share
only the wallet and TLC cannot search their product: funding, taking and
cancelling asks, selling, or the agent. Two transactions can be on their way, one
of a form that was left. Others move once, at any moment: one move is what makes
a read stale. The agent meets balances 1 to 12, two rates and two fees at Bps 4;
the finding's run uses the real Bps and rates, with a whole unit of 1,000
base units to stay within TLC's integers.

*Site.* One page per behaviour. The wizard has two scenes: two wallets that are
switched under way while nothing fails, and one wallet with two mishaps (a lost
request, an expired signature, a reload, a step back): a late answer needs the
former, a retry the latter. The issuer's form has two files and two accounts. The
trail has two logos of two chunks, one flat enough for a single message and a record of
another invoice, pages of two messages, and two
of them as its limit, so that a record can be cut by a page, by the limit and
by another submission. The marketplace has pages of one bond, so that a bond that
leaves a chip empties a page. The holdings have two wallets, two listings and two moves
(a trade, a claim, a repayment, a listing, a page or another wallet) under answers that
are on their way: a balance and a claim on either side of a move, filed under a page that
was left. They open on the portfolio. The payoff lines
have two bonds with three maturities and every window and day up to past the last.
The landing page has two bonds and one failed read.

`CHECK_DEADLOCK FALSE` stands where a bound on the clock or a counter
lets the bounded model come to rest; the two KYC liveness runs check deadlock.

`MCApi` runs one service or tool at a time, and `MCSite` one page, chosen by the
initial state. They share no state but the clock or the wallet, so their product
only multiplies states. `MCScenes` plays its two scenes in the same way: fees and
asks in one, role changes in the other.

### Fairness

*`payout`:* time passes; a holder who can settle, or claim, does (both functions
are open to them). Issuers, operators and the owner promise nothing.
*`kyc_jobs`, `kyc_restart`:* requests and jobs run to their end, since the HTTP
clients time out after 20 to 30 s and a wait for a receipt after 90 s; the network
serves an account's transactions in order; time passes; and the web app asks
again, because its status query refetches while the wizard or a bond page is
open. Only `EligibleGetsGranted` and the revocations lean on that last one: the
code itself retries on the next status read and on nothing else. *`api`:* the
facilitator answers or the request's context ends; an operator whose seeding or ATS
command stopped runs it again, which is what both are written for: they skip what is
done. *`site`:* a visitor who
began goes on pressing what the page offers; the window gets the focus now and
then, which is what makes react-query refetch; requests are answered; and the
wallet, the chain and the mirror node come through. Nothing is asked of Sumsub, of the
identity check, which may end without a place on the allowlist,
of other writers or of the market. No other run assumes fairness.

## 4. Proofs

For every number of bonds, accounts, settlement contracts, operators, quotes and
amounts, from the named assumptions on the constants:

| Theorem | Says |
| --- | --- |
| `Sowee_proofs!TypeCorrect` | `Spec => []TypeOK` |
| `Sowee_proofs!SupplyWithinFace` | supply is the sum of balances and within face value |
| `Sowee_proofs!RepaymentIsDeposits` | an unsettled repayment is the sum of its deposits |
| `Sowee_proofs!SnapshotSafe` | a settled bond has matured and its snapshot bounds its units for ever |
| `Sowee_proofs!SettledRateFinal` | a settled repayment never changes and its units never grow |
| `Sowee_proofs!AllClaimsCovered` | every pot covers every unit outstanding at the settled rate |
| `Sowee_proofs!PotsStaySeparate` | a settlement contract's USDC is the sum of what it owes per invoice |
| `Sowee_proofs!MoneyAlwaysHasAWayOut` | past the grace period a repayment can be settled or withdrawn, and is there |
| `Sowee_proofs!OneListingEach` | every listing used up a nonce of its own |
| `Sowee_proofs!ComplianceAlways` | no step takes units from a frozen account or gives them to an ineligible one |
| `Sowee_proofs!AsksAlwaysHonoured` | units are sold under an ask of their owner, who gets its price |
| `Sowee_proofs!ImplementsClaimPool` | each settlement contract implements `ClaimPool` for each bond |
| `ClaimPool_proofs!PoolCovered` | the abstract pool covers every unit left at its rate |
| `Kyc_proofs!PolicyDecides` | exactly which reviews and questionnaires are eligible; an answer that cannot be read counts as a no |
| `Kyc_proofs!PolicyIsMonotone` | admitting to something never improves the decision |
| `Kyc_proofs!FlagsFollowVerdicts` | `Spec => []KycInv`: every flag and every transaction on its way goes back to a verdict |
| `SelfieCheck_proofs!SelfieTypes` | `Spec => []TypeOK` |
| `SelfieCheck_proofs!WalletsKeepTheirPerson` | `Spec => []TrailInv`: one wallet per person, and one more for each pass that landed late and each partial replay |
| `SelfieCheck_proofs!DocumentsAreNotPledgedTwice` | `Spec => []OneInvoicePerDoc`: one pledge per document, and one more for each record unreported or late and each partial replay |
| `SelfieCheck_proofs!PledgesOutliveRestarts` | `Spec => PledgesSurvive`: a full replay forgets no pledge, and binds the same one while nothing was unreported, late or lost |
| `Api_proofs!GateServesOnce` | a payment is served at most once |
| `Api_proofs!GateMetersPayments` | no payer is metered for more than it paid |
| `Api_proofs!FaucetPaysOncePerCooldown` | a wallet is paid once per cooldown, and a claim that failed costs it nothing |
| `Api_proofs!QuotesAreDistinctAndFair` | one nonce per quote; rates follow the tenor within their band |
| `Api_proofs!LimiterKeepsRecentBuckets` | only buckets of recent traffic are held |
| `Api_proofs!LimiterImplementsTokenBuckets` | the limiter that forgets implements the buckets that do not |
| `Api_proofs!ServicesKeepPromises` | all of it again for the process of `MCApi`, with `ServiceInv` |
| `Api_proofs!LimiterBesideTheOthers` | the refinement again for that process |
| `Api_proofs!ToolsInductive` | `Spec => []ToolsIInv`: what stopped runs left on the wire is accounted for |
| `Api_proofs!ToolsKeepPromises` | `Spec => []ToolsInv`: leftovers are owed to stops, "sent" and verdicts are earned |
| `Clients_proofs!ClientsInductive` | `Spec => []ClientsIInv`: what is on its way goes back to what was shown and approved |
| `Clients_proofs!WalletApprovesEnough` | `Spec => []ApprovalsSuffice`: open asks are covered, a form sees its approval |
| `Clients_proofs!AgentSpendsAsTold` | `Spec => []AgentInv`: two base units over the balance at most; nothing beyond what it was told |
| `Clients_proofs!PurchasesCostWhatTheyShowed` | `Spec => PaysWhatItShowed`: a purchase takes the total that was shown |
| `Site_proofs!WhatIsFilledInIsDecided` | a form that is let through is decided on its content |
| `Site_proofs!OnboardingIsSafe` | `Spec => []OnboardingInv`: the identity check has a file to go into |
| `Site_proofs!FormsAreFiledByTheirOwner` | `Spec => FiledByItsOwner`: no step files one wallet's form under another |
| `Site_proofs!PagesAreTheWallets` | `Spec => []WalletPagesInv`: what is anchored was named and listed; rows belong to the wallet and lead on, but for the cases named in section 5; an order is offered to a wallet the chain allowed when it was asked |
| `Site_proofs!WhatIsReadIsWhole` | `Spec => []ReadingsAreWhole`: a trail has whole records, each once, its logo is the latest among those of one message or of several, and all or none of the market is on the landing page |
| `Site_proofs!EveryBondIsFound` | `Spec => []BondsAreFound`: every bond is on some page and under its chip, and no page is empty |
| `Site_proofs!PayoffLinesAreHonest` | `Spec => []PayoffIsHonest`: the lines start at par, never fall, and end at what is owed |

*The protocol.* The inductive invariant is `IInv == Core /\
SnapshotBoundsSupply`, with `Core == TypeOK /\ UnitsWithinFace /\
DepositsAddUp`. The parts need each other. That a claim pays a natural number
needs a snapshot above zero. That the snapshot bounds the units needs that nothing
mints after maturity, `Ageing`, which needs listings that keep their maturity
and a clock that does not go back. That a burn leaves the supply non-negative
needs the supply to be the sum of the balances. Each action has a lemma
(`ListInvoiceCore`, `BuyPrimaryCore`, ..., `ClaimCore`); `NextCore` and
`NextSnapshot` put them together, and `Invariance` is the temporal step. Sums
over all accounts are cardinalities of sets of tagged units (`Totals`), which
makes `TotalChange` and `TotalMove` provable without recursion.

*On top of it.* `AllClaimsCovered` is inductive relative to `IInv`: a claim keeps
the cover by `RedeemKeepsCover` (paying floor(a v / n) for v units out of a pot
that covers u units at a / n leaves it covering u - v), and every other step either
leaves pot and units alone or only shrinks the units. `PotsStaySeparate` follows
the USDC of one contract through a step: it moves together with one pot, by the
same amount, or not at all (`OnePotMoves`, `NoPotMoves`). `MoneyAlwaysHasAWayOut`
is then arithmetic: a repayment that is not settled is the sum of its deposits, so
some payer has one, and the contract's USDC bounds it. `OneListingEach` counts finite sets
of nonces. `ComplianceAlways`, `AsksAlwaysHonoured` and the refinement are
properties of steps and have a case per action; in the refinement a fill, a
transfer or a freeze is a stutter of every pool, and a claim is the pool's
redemption of one and a stutter of the others (`MarketPools`, `DepositPools`,
`SettlePools`, `ClaimPools`).

*The KYC flow.* `KycInv` is not inductive: a job that was started by a verdict runs
on when the verdict has changed, and a request decides on reads that are out of
date. So the invariant speaks of the history. `VerdictsNoted` has every present
verdict in it; `CallInv` says what a request that has read something may still
conclude (the Selfie Check is never taken back, and a decision that blocks was
noted when it was read); `JobInv`, `SentInv` and `FlagInv` carry that from the request
to the job, to the network's queue and to the flag. Each action has a lemma
(`StartProfileOrders`, ..., `RestartOrders`), and most are instances of `Forward`: the
history only grows, so what a step does not touch stays justified. Nothing of
it needs the lock per key or the order of the queue, which matter to liveness only.
TLC checked the invariant on the instance of `kyc` before it was proved.

*The trail.* `IInv == Typed /\ Written /\ OnItsWay /\ OnTheWire /\ UsedIsBound /\
PledgesHold /\ PassesHold`. `Written` says how messages belong together: a second
chunk names the first one, which comes before it and has its record and payer, so
that what a replay joins is what was submitted (`CompleteGrows`, `FullReplay`).
`OnItsWay` ties the submission that holds the mutex to its chunks, `OnTheWire` those that
were given up to theirs. `PledgesCounted` is the strengthening of `OneInvoicePerDoc`: the
invoices a document is pledged to on the topic are as many as there were faults, and one
more if the index has the document or its record is complete there while its submitter
does not know it yet. Every step that can add an invoice (a chunk that completes a record, in
time or late) is paid for by one or the other, and a restart that read all of the topic has the
document in its index again (`Backed` and `Indexed` are the two directions). For the
Selfie Check, `PassesInHand` follows one pass from the portal over the request and the
mutex to the topic, `WalletsCounted` counts the wallets a person is bound to in memory and on
the topic in the same way, and `ToldIsThere` has what was reported on the topic. Nothing is
assumed about failures: the properties count what each can cost, and that every one of them
is needed is finding 2 and the first entry of "Seen while modelling".

*The services.* Each has an inductive invariant over its own steps. For the gate,
which needs `GateAssumption` (the replay set outlives the validity of a payload): a
payload the facilitator would still take is in the set if a request is on it or it
was served (`Held`), and later, when it may have been pruned, one request at
most has come past verification (`Once`). `Metered` counts served payloads per
payer, with the cardinality theorems. For the faucet, as long as no receipt was late, a
claim in flight holds its wallet's slot alone and began a cooldown after the last
payment (`Reserved`, `Spaced`), and a slot is always earned (`Earned`). For the
quotes, the nonces of the current second run up to the counter around its modulus
(`QuoteInv`), so that fewer than `CounterMod` of them differ; `RateIsMonotone` is
the arithmetic of the rate. For the limiter, `LimitInv` bounds how long a bucket
that is still held was left alone, which makes a bucket that is swept one that is full:
`LimitImplements` then maps a sweep to nothing, a request to a request and a tick to
the refill of every bucket. The component theorems are of `GateSpec`, `FaucetSpec`,
`QuoteSpec` and `LimitSpec`. `ServicesIInv` composes them: in `MCApi` one of them
runs, its invariant holds, and what does not run has not begun (`Idles`).

*The tools.* `ToolsIInv` has a part for each. None of the properties is inductive,
because what a stopped run left on its way is mined under a later one.
`SendInv` counts the transfers whose run gave up on them: no more than receipts were
lost, and what they may still bring the recipient fits below `said + lost` amounts.
`SeedInv` lets a run stop in two ways, by a failure and by a listing that was signed
before a stop and is mined under the next run; the latter is paid for by the former,
so that stops and listings on their way come to at most twice the failures, and the
invoices listed or about to be without their record (`Unanchored`) to the stops and
the one in hand. `AtsInv` counts in the queue (`OnWire`) the calls no command waits for
(`GivenUp`): a deployment of that kind will be a stray security and a repeated step
of `allow` a revert, and each was left by a stop. `VerifyInv` says of every prefix of the
checks what the verdict says of all. `WireGrows` and `WireShrinks` count in the queue
by its positions, which a mined call moves by one.

*The clients.* `ClientsIInv == MarketInv /\ PageInv /\ RunInv`. A step of the market is
summed up by what the clients depend on, `Goes`: the bond's terms stay and no ask is
reopened or has its price changed, so a price that was read is right for as long as the
ask is open (`ReadInv`), and a total that was shown is the one due until the fee is
changed (`Honest`, which follows a call from the button over the hook to the queue). That is
`PaysWhatItShowed`, whatever the page read in between. `AsksCovered` is not inductive: a
sale is decided on reads and mined later. `SellInv` adds that the form which is about to
approve will approve enough for the asks there are, and the one about to sell has approved
the new ask as well. It rests on one hook waiting for one transaction (`HooksInv`), on the
"sell" form alone writing asks, and on fills using up the approval and the ask together
(`ElsewhereStep`). For the agent, `SpendInv` keeps the account by where the run is, and
`DustIsTwo` is the arithmetic: with S the whole unit, S c < u P + S and
S f < u F + 2 S for the cost c and fee f of u units, so u (P + F) <= S balance gives
c + f < balance + 3. It needs the fee to be 100% at most.

*The pages.* `SiteIInv` has an invariant for each page. One page steps while the others
rest (`SiteSteps`), so each is proved against its own actions (`OnboardingSteps` to
`LandingSteps`).

- *The wizard.* `OfCard` says that a request which keeps a button busy is the only one
  and belongs to the card on screen; without it an answer could meet any step. `Timely`
  is what holds until an answer comes too late: signature, declaration and request are of
  one wallet, and who was accepted has a file. `FiledByItsOwner` is then a property of the
  one step that takes a submission off the wire.
- *The issuer's form.* `NamesAreRead` ties what was read to what is named while files are
  being read, `Named` carries it to the quote, the draft and the document on its way, and
  an anchored document is one whose listing was confirmed before.
- *The visitor.* An answer "allowed" was true when the chain was asked and is still true,
  unless the account was taken off the list since; in the cache and on its way.
- *The trail.* `Numbered` has the slices of a record in order, `Window` says that what was
  fetched is the topic from the cursor on, and `Told` what an answer may claim of a topic
  that goes on growing. A trail lists first what came in one message, in the order of the
  topic, and then what was split, by its last slice; the first logo is the latest of the former
  if there is one, and of the latter if not.
- *The marketplace.* Type and search are inductive; the rest holds in every state and is
  about sorting and pages. `Ranks`, `OrderedAreAll` and `AscendingLists` (in
  `Totals_proofs`) show that an ordering of a finite set lists each element once and in
  order, by induction over sets of natural numbers. What is left is that each sort is a
  total order (`ProductsOfRates` for the yields, which are compared as fractions) and that
  the pages cut the list without a gap.
- *The holdings.* A kept or coming answer is filed under the wallet it was read for, has
  only bonds that this wallet held, and takes for repaid only what is. Once a bond is settled
  its units rest or are in `movedOn`, so that its balance and its claim, whichever was read
  first, tell the same.
- *The payoff lines.* Nothing but the day and the window changes; the rest is arithmetic.
  `SumIsUnique` and `AddedIsTotal` turn the fold over the holdings into a sum that can be
  split and compared. `DividesExactly` and `Scaled` say that the common denominator leaves
  no remainder, and `UnitClimbs` that a unit is worth no less a day later.
- *The landing page.* `Between`: what a rendering has read lies between the market when
  it began and the market now, for the bonds it has already asked.

*Assumptions on the constants.* They are in the modules that declare the constants, and
TLC evaluates each in a run. Those that are more than types: the replay set outlives a
payload's validity (`GateAssumption`; an hour against 180 seconds, `gate.go:46,
199-202`), and there are finitely many payloads, which the meters need; an idle
bucket is kept long enough to be full again (`LimitAssumption`: ten minutes against
one, `ratelimit.go:35-37`) and an address is not a wallet; `None` is no document, invoice,
wallet or person; the fee's limit is no more than the whole price (`InvestorAssumption`;
500 of 10,000, `InvoiceMarket.sol:20-21`).
`PayoffAssumption` has a denominator that every count of days divides, which is how the
model writes the code's floats as exact fractions, and rates of 1 to 10,000 bps.
`MarketplaceAssumption` has a search that suggests at least as many bonds as a top list
(5 and 3). `HoldingsAssumption` wants a wallet and a listing to open with.
`ClientsAssumption` and `SiteAssumption` tie the names that `MCClients` and `MCSite` open
with to the constants. `OnboardingAssumption`, `IssuanceAssumption`, `VisitorAssumption`
and `LandingAssumption` are types and "nothing is not a something".

*Only model-checked.* Of the invariants `OrdersSucceed`, which says of a call that it
would succeed, and that is `ENABLED`. Liveness stays with TLC as well:
`RepaidHoldersGetOut`, `EligibleGetsGranted`, `RevocationsComeThrough`,
`ReservationsEnd`, `ToolsComeThrough`, `ArrivesAtStatus`, `ListedGetsAnchored` and
`PagesCatchUp`. So do the two facts that are evaluated as assumptions,
`IsinsPassTheRule` (a recursion over characters) and `PagesAndAxes`.

## 5. Assumptions and what is left out

- Transactions of the contracts are atomic and revert as a whole; gas and
  reentrancy from a USDC with hooks are not modelled.
- Signatures, hashes and addresses are ideal: a signature is its key, a document
  hash its document, a nullifier its person.
- The amounts of the contracts are 256-bit and checked by the compiler;
  multiplication goes through `mulDiv`, so no width is modelled. The quote counter
  is, modulo `CounterMod`.
- `NoncesUnique` assumes that a new process is not up within the second of its
  predecessor and that fewer than 2^16 quotes are made in one second. The code
  has neither guard.
- `X402Gate` has no restart: payloads and usage are in memory, and after one it is
  the facilitator that refuses a settled payload.
- A "payment" of `PaidOnceServedOnce`, `MeteredIsPaid` and their theorems is the byte string in
  the header: the gate's key is the hash of the JSON as it came (`gate.go:127-128`). The
  same signed payment in another encoding is another key, and only the facilitator can tell
  that it was settled.
- In `kyc_jobs`, `BlockedGetsRevoked` is conditioned on runs without failure
  or restart: finding 1 is one reason, a grant that failed halfway and is not
  remembered (`flow.go:205`) is the other.
- The properties of the trail count its faults: a record that landed and was reported as
  failed (`hiero.go:66`), a message that lands after its submission was given up or its
  process died, and a replay that did not read all of the topic. Each can cost one second
  pledge of a document or one second wallet of a person, and nothing else can.
- A wallet that is on another chain, not allowlisted or not associated is stopped by
  the forms before any order: `WebTrading` starts after, `Visitor` ends there.

*Not modelled.* The generated ABIs (a fifth of the implementation's lines) are
tables of signatures. The legal pages, the layout of the landing page, the shared
interface elements (`ui.tsx`), wallet and chain configuration and routing keep no
state that outlives a view. `HederaAssociable` is one call in a constructor, the
deployment scripts are straight-line wiring whose outcomes are initial states and
setters of the model, signed requests are a pure check of a signature and a time
window, and the API's own market reader reads and sorts without deciding. The gate
has no restart. Which deployment file a client takes (`deploymentFor`), and the
build, are left out.

### Seen while modelling

What the models follow, or leave to prose because it is wording:

- *A message on its way at a restart.* `Submit` hands a message to the network before it
  waits (`hiero.go:59-66`). A record, or the last chunk of one, that is on its way when the
  process dies can land after the next process has read the whole topic. The new process
  does not know of it, accepts the document for another invoice, or the World ID for another
  wallet, and the restart after that binds whichever landed first. So "a restart cannot
  forget a pledge" (`apps/api/README.md:117`) and "a restart cannot hand the same World ID a
  second wallet" (`world.go:253-255`, `main.go:73-75`) hold but for one document or World ID
  per such message, also when no replay failed. `LateConsensus` is the step, `late` counts it.
- The forms announce "Purchase confirmed." or "Ask placed" also when what was
  confirmed is the approval or the association (`buy-form.tsx:250`,
  `asks.tsx:260`), and a connected wallet on another network is asked to connect
  (`asks.tsx:211`). A mined transaction that reverted ends the wait without a
  message. A fee that was not read counts as zero and an allowance that was not
  read as sufficient, which only the simulation catches.
- In the last day before maturity `tenorDays` is 0: a bond's page calls it
  "Matured" (`bond-detail.tsx:196`) while its badge says open or funded, and its
  yield is undefined, "undefined once matured" (`market.ts:242`).
- A search in the header for the term that is already in the address changes
  nothing, whatever was typed into the list's own box since. A list whose refetch failed
  shows the error and the pages of the old data together (`marketplace.tsx:451`).
  Positions that load after an empty list was read are "nothing" until the key
  changes (`marketplace.tsx:41`).
- A submission of several chunks is listed after all whole ones, so the trail is not
  newest first in that case (`hcs.ts:168`), and a logo small enough for one message hides
  every later one that was split, against "most recent first" (`:173`): `downscaleLogo` has an
  upper bound only (`issuer.ts:44-48`). The reader also takes records of any payer, which the
  API's own replay does not.
- A form that was told that its wallet is allowed goes on offering the order when the wallet has
  been taken off the allowlist, until it reads again (`buy-form.tsx:84-91`); the
  purchase then fails in its simulation.
- A settled holding whose payout rounds to zero, as after a partial repayment, has neither a
  link nor a word nor a row to claim it (`portfolio.tsx:176-187, 365-377`), and a balance and a
  claim that were read on either side of a transfer or a claim can look the same
  (`market.ts:132-141`) until the next read.
- The policy says that "anything ambiguous is held" (`policy.go:47`), but a disclosure that is
  answered with anything other than a spelling of yes counts as a no and may be granted; and the
  residence is compared as it came, with any spaces around it, although the check for an
  answer trims it.
- A signature that arrives after the wallet was switched is kept by the page of
  the other wallet (`kyc-wizard.tsx:281`), which then files for the wallet that
  signed what was typed under the other. `FiledByItsOwner`, `IdentityHasAFile` and
  `ArrivesAtStatus` leave out runs with such a late answer (`late`). A status that
  asks for the selfie leads past a form that the API answers with 409. A file picked
  while another is being read may lose to it (`issuer-form.tsx:94`).
- A re-run of `send-usdc.ts` after a receipt that did not come may pay twice, as the
  models of its lost receipts show. The seeding script says that it builds a
  symbol by the rules of the issuer's form (`seed-market.ts:94`), but takes the first
  seven characters, which the form gave up for telling invoices apart (`issuer.ts:63`).
- A regeneration of the landing page that fails replaces a good page by one without
  bonds for a minute (`bonds.ts:138`).
- An ask need not be backed. Making one locks nothing (`InvoiceMarket.sol:197`, "approve this
  contract on the bond", is advice), a fill takes the units by `transferFrom` (`:231`), and
  no form reads the maker's balance, approval or flags, so the order book can show an ask whose
  every fill reverts. `OrdersSucceed` is about orders on asks that are backed (`Backed`) and
  wallets that are still allowed.
- The agent pays for insights before it knows whether there is anything to fund, and
  the insights' best bond is the highest yield even if it is fully funded.

## 6. Plan

Done: every component of the inventory that decides anything is modelled and checked,
and every safety property of the runs is proved but for `OrdersSucceed`.

1. **Larger instances.** Two pages at once, with the wallet switched between them; a
   gate that restarts, against a facilitator that remembers.
2. **`OrdersSucceed` without `ENABLED`.** Spelling out when a call of the market succeeds
   would make it provable, at the price of a second copy of every guard that has to
   follow the first.
3. **The generic facts.** `PageButtonsReach` and `AxesAreReadable` for every number of
   pages and days, which TLC evaluates up to a bound.
