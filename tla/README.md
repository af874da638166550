# viz-gateway in TLA+

The gateway moves value between VIZ and wrapped VIZ (wVIZ) on GRAM (TON) and
Solana.  A federation of operators signs T-of-N; a keyless coordinator collects
the signatures; a dispatcher drives a durable outbox.  This directory models
the parts whose correctness depends on interleavings, crashes and time, checks
them with TLC and proves the central ones with TLAPS.

Paths below are relative to `src/packages/`.

## 1. Inventory

| Component | State | Operations | Hard behaviour | What makes it correct |
|---|---|---|---|---|
| Signer: `signer/src/index.ts`, `replayLedger.ts`, `keyedSigner.ts`, `sourceValidator.ts` | `signed_proposals` row per action (own SQLite) | `/approve`: pause check, `assertNotReplay`, re-validation, signature | concurrent calls, restarts, an untrusted coordinator, expirations, node errors | never two live signatures for one action |
| Coordinator: `coordinator/src/orchestrator.ts`, `adapters.ts`, `index.ts` | pins in memory; writes `txid`, status | `/submit` → `process()`: executed? → build → sign round → broadcast | drives that outlive the dispatcher's wait, restarts, lost answers, staggered claims | a retry neither repeats nor loses a payment; convergence |
| GRAM orders: `GramMintBroadcaster`, `gram-watcher/src/gramApprove.ts`, `gramChain.ts` | order address per row; contracts on the chain | pin, open, approve, poll | delayed and lost messages, order numbers chosen by the contract | no action executes twice, confirmed means executed |
| Dispatcher: `dispatcher/src/index.ts`, `policy.ts` | outbox rows | tick: recover orphans, return HELD rows, deliver due rows, spawn children, close parents | crash between any two writes, stale snapshots, timeouts | every row is closed, each deposit or burn once |
| Source hints: `coordinator/src/sourceHints.ts` | run-once markers | redirect a stuck refund to a mint, at boot | races a tick in progress | not both minted and refunded |
| Store: `common/src/store.ts` | outbox, ledger, pause latch, caps, cursors | `enqueue`, `setStatus`, `due`, `pause`, ... | shared by all processes | first insert wins; compare-and-swap |
| Reconciler: `recon/src/checker.ts`, `index.ts` | failure counters, OK streak | check, escalate, auto-unpause | one shared latch with one reason, exceptions mid-loop | trouble halts the gateway; only a stall heals by itself |
| Watchers: `viz-watcher`, `gram-watcher`, `solana-watcher` (`index.ts`, `*Chain.ts`), `common/src/seenRecovery.ts` | cursors, SEEN rows; shared cap window, rate slots | scan, classify, rate, cap, queue or hold; recover SEEN rows | crash between any two store calls, cold start, truncated scans, caps shared by processes | no event between two cursors is skipped; the processes are one limiter |
| Peg-out scanner and lookup: `solana-watcher/src/pegoutScanner.ts`, `pegoutGuard.ts`, `lookup.ts` | deposit addresses by scan time, SEEN rows with the burn's signature | register an address; claim, guard, burn, checkpoint, queue | the burn is irreversible and unconfirmed when it is recorded | no second burn, parked wVIZ is still there, every address has its turn |
| Solana mints: `SolanaMintBroadcaster`, `solanaSign.ts`, `solanaChain.ts` | durable nonce on chain; txid on the row | look for the mint, read the nonce, sign, send, confirm | nothing is pinned per action; the search is bounded and may come too early | one mint per peg-in |
| Source validation: `signer/src/sourceValidator.ts`, `common/src/canonical.ts`, `gatewayAccounts.ts` | none | re-read the source event, derive the action, compare | pruned nodes, second spellings of an id, children of other rows | only what a source event warrants is signed |
| Registry: `signer/src/register.ts`, `coordinator/src/registry.ts` | nonces, leases in memory | challenge, register, heartbeat; roster of a round | late and lost requests, restarts, moved boxes | threshold counts keys; a box is found again |
| Fees and backing: `common/src/fees.ts`, `dispatcher/src/policy.ts`, `recon/src/checker.ts` | amounts on rows; balances on chains | quote, sweep, refund, return; the reconciler's figures | policies change one process at a time; reads at different moments; sick endpoints | what is owed is covered; no alarm without cause |
| Rotation: `common/src/rotation.ts`, `src/setup-viz/src/rotate.ts`, `src/contracts/{ton,solana}/src/rotate*.ts`, `enforce*.ts` | proposal and state files, manifest; authorities on three chains | propose, co-sign, broadcast, submit, approve, status, hand over | checkpoints after the fact, expirations, two proposals | nobody locked out; checkpoints true; carried through on all chains |
| RPC failover: `vizChain.ts`, `gramChain.ts`, `gramApprove.ts`, `orbsEndpoint.ts` | endpoint index | call, rotate, retry | the index is shared by calls in flight | one healthy endpoint is enough |
| Configuration: `common/src/config.ts`, `keystore.ts` | none | key store, environment, manifest; time budgets | two operators with different environments | one consensus configuration |
| HTTP views, wire format, logging, site, tools | none, or operated by hand | — | — | not modelled, see section 6 |

Interaction: watchers insert rows; the dispatcher POSTs `/submit` to the
coordinator, which POSTs `/approve` to each signer in turn; the chains execute;
the dispatcher writes the outcome.  The store (SQLite, WAL) is shared by the
processes of an operator, and the pause latch in it stops dispatcher,
coordinator, signers and watchers alike.

## 2. Modules

| Module | Models |
|---|---|
| `OneRelease` | abstract: of all bodies of one release at most one becomes a transfer, for good |
| `ReplayLedger` | signers' `/approve` handlers and ledger rows for one action, with arbitrary callers; the VIZ chain |
| `VizRelease` | the same signers and chain (EXTENDS `ReplayLedger`) driven by dispatcher and coordinator |
| `Delivery` | the outbox: watchers, the dispatcher's tick, child rows, drives, redirect, pause |
| `ReconPause` | reconciler loop and the pause latch |
| `GramOrders` | GRAM mints and returns: pins, operators' `sendOrApprove`, the multisig |
| `SolanaMint` | Solana mints: calls, durable nonce, signers' ledger |
| `Admission` | abstract: one limiter gives every event one verdict, within the cap of a day |
| `Intake` | the three watchers; shown to implement `Admission` |
| `PegoutScanner` | scanner, lookup service, deposit accounts, burns |
| `SourceCheck` | `validateAction` and the canonical actions, as operators over facts and node views |
| `Federation` | registrations and signing rounds (EXTENDS `SourceCheck`, which decides what a signer approves) |
| `Backing` | amounts: fees, sweeps, refunds, releases, returns, and the reconciler's reads |
| `Rotation` | rotation tools on VIZ, TON, Solana; the deploy key's hand-over |
| `Failover` | reads over a list of endpoints |
| `Config` | what a process makes of environment, key store and manifest (operators only) |
| `MC*` | instances for TLC: sets, amounts, symmetry |
| `VizReleaseProofs` | theorems about `ReplayLedger` and `VizRelease` |
| `FederationProofs` | theorems about `Config`, `SourceCheck`, `Federation` and `Failover` |
| `CustodyProofs` | theorems about `GramOrders`, `ReconPause`, `Rotation` and `Backing`, in four independent parts |
| `DeliveryProofs`, `SolanaMintProofs`, `PegoutScannerProofs`, `IntakeProofs` | theorems about the module of that name |
| `Sums` | lemmas about totals, for the modules that add up amounts |

**ReplayLedger.**  One action suffices: ledger rows and pins are keyed by action
id.  A handler is a record with the stage it reached; every await that reads or
writes shared state ends a step (`ReadLedger`, `FirstClaim`, `LostClaim`,
`CheckPrevious`, `ReplaceClaim`, `SignBody`).  The two reads of `CheckPrevious`
(head time, landed) are one step because their outcome is stable: a body past
its expiration cannot land any more.  Time is abstracted to the *phase* of a
body, because the code only compares clocks with a body's expiration: Fresh
(more than 90 s left, may be reused), Closing, Expired, Dead (past the 60 s
margin).  `claimed` is a history variable: everything a signer ever put into
its row.

**VizRelease.**  `drive[d]` is a `process()` call.  The dispatcher can stop
waiting for it (timeout, crash), re-submit, and so have two of them running on
the same pins.  `PersistTxid` precedes `Send` as in the code; `Send` may fail
either way; `PollConfirms` drops the pin, `PollTimesOut` keeps it.
`CoordinatorCrash` loses pins and drives, `SignerRestarts` the handlers but not
the ledger.

**Delivery.**  Rows are deposits (`in`), burns (`out`) and their children
(`fee`, `refund`, `return`).  `nature` is what the code can find out about a
source event: payable, below the minimum, without destination, dust.  The tick
is a small program: `StartTick` (the pause is read once), `RecoverOrphan`,
`ReturnHeld`/`FlipHeld`, `ReadDue` (the snapshot), then per row `Submit`,
`Transition`, `Follow`; the dispatcher can die between any two.  How a drive
lands its action is left to the other modules: it checks, pins, waits.
`CoordinatorBoot` applies the redirect directives in one step.

**ReconPause.**  A chain can be read or not, and if so its invariant holds or
not.  `alarm` and `hidden` are history: a critical pause nobody cleared; its
reason was overwritten, or it was raised after the reason was read.

**GramOrders.**  The contract numbers orders itself, so `mail` is a set of
messages that arrive in any order or never.  `sendOrApprove` is split at its
waits: `Look` (inspect, open or wait), `Appears`, `Inspect`, `ApprovalSeen`.
Each action has one drive at a time; order expiry is covered by lost messages
and failing calls.

**SolanaMint.**  The nonce account is a counter and the nonce stands for the
transaction: a transaction lands only while its nonce is current, and advances
it.  A call that the dispatcher gave up on keeps running.  `mintByActionId` is
only asked on a retry, and sees the newest `ScanWindow` transactions.

**Intake.**  Every store call of a watcher ends a step.  Chains are positions
of final transactions; `walk` is the newest-first scan that GRAM and Solana
share, `Window` what a tick reads, with its truncation.  The 24 h and the rate
window are sequences of the events they hold; time is that the oldest leaves.
`Verdict` maps rows to the limiter's view: QUEUED, HELD, or still open.

**PegoutScanner.**  A burn is a transfer and a try; the deposit program only
looks at the balance, so a second burn takes another user's wVIZ.  `Recover`
is the stale-SEEN branch: with a checkpoint it asks the chain, without one it
hands the row to a human.  `forScan` orders addresses by scan time.

**SourceCheck, Federation.**  An action is a record of the fields that
`assertSameAction` compares, and an id has spellings.  A signer's node is a
*view*: the history it has indexed, the blocks it has kept, the accounts it
knows; `getDeposit` falls back from one to the other.  `Warranted` is the
specification: the payments that the facts call for.  The instance submits
every right action and each with one field bent.

**Backing.**  Amounts are small integers; `policy` is per party because
processes are restarted one by one.  The check is split at the awaits of its
`Promise.all` and of the supply read.  `moved` is history: what moved during
the check, or had moved on chain and was not yet on a row.

**Rotation.**  The proposal is what it asks for (`Wanted`).  `running[p]` is what
a command holds between its steps: the transaction it read from the file before
it looked at the chain, the multisig it is about to record.  An hour, an order's
48 hours and a lost terminal are faults.  `Execute` is the multisig
contract; Solana wants every listed signer's signature.

**Failover.**  `met` is history: the endpoints that failed a call.

Definitions commented *Seeded fault* are variants of the definition that
follows them.  They are not part of any specification; replacing the
definition by its variant breaks the property it was written for, which shows
that the property constrains the code.

## 3. Runs

| Run | Instance | Shows |
|---|---|---|
| `viz_safety` | 3 signers, T = 2, 2 bodies, 2 drives, 2 faults | paid at most once; no two live signatures; CONFIRMED is landed; what landed is recoverable by the row's id; implements `LedgerSpec` and `OneRelease` |
| `viz_converges` | 3 signers, 3 bodies, 1 drive, 2 faults, fair | the row ends CONFIRMED |
| `delivery_safety` | 1 deposit, 1 burn, 2 drives, 3 faults, everything may go wrong | CONFIRMED was executed, REFUNDED was repaid, a sweep follows a mint, a burn is not both released and returned |
| `delivery_settles` | same rows, 1 drive, 3 faults, good conditions, fair | no stranded parent, no mint and refund, every row closed |
| `recon_pause` | 2 chains, limit 2, 3 OK ticks, 1 loop error, fair | latch, earned unpause, trouble halts, stalls heal |
| `gram_orders` | 2 actions, 3 operators, T = 2, 3 orders, 2 messages under way | no action executes twice; confirmed was executed |
| `intake` | 2 watchers (VIZ, GRAM), 3 events, cap 3, rate 1, windows of 1, 1 fault, 1 expiry, fair | nothing skipped between cursors; refines `Admission`; every event decided |
| `pegout` | 3 transfers to 2 accounts (a third name is too long), 2 tries, 1 fault, fair | no second burn; parked wVIZ is there; cap exceeded by one peg-out at most; all served |
| `solana_mint` | 2 peg-ins, 2 signers, 2 calls, scan window 1, 1 fault | one mint per peg-in, the one the row names |
| `rotation` | 3 operators, a swap and an impossible proposal, 2 orders, 2 multisigs, 1 fault, fair | checkpoints true, no lock-out, completion on all chains |
| `backing` | 1 deposit, 2 transfers, policies going down party by party, 2 endpoints | solvency; alarms explained |
| `federation` | 2 boxes, 2 URLs, T = 2, 3 nonces, 1 fault, 18 submitted actions, 3 views, fair | threshold is keys; only warranted payments; boxes rejoin |

Each run is `tlc -workers 2 -config <run>.cfg <module>`, with the module that
`PROJECT.json` names.  The other cfgs are run by hand in the same way.
`intake_three.cfg` passes (the same questions without liveness, for all three
watchers, 2.4 million states), and so does `failover_alone.cfg`; the rest are
the counterexamples of section 5.

**Bounds.**  Two bodies make a replaced claim, and three the convergence after
claims on two others; two drives are what a lost answer and a retry produce; a
2-of-3 federation is the smallest where quorums overlap in one signer.  Two or
three faults allow a lost answer followed by a crash and, for `Delivery`, a
pause with a redirect.  One deposit and one burn suffice for `Delivery` because rows
of different source events share only the tick's order.  Two chains let one be
healthy while the other is not.  For GRAM two actions compete for numbers and
three numbers leave room for a stray order.  In `intake` two deposits of one
sender exceed the rate, any two events the cap, and windows of one transaction
truncate every scan.  Two transfers to one deposit account let one burn take
the other's wVIZ; a batch of one makes addresses wait.  Two Solana peg-ins with
a scan window of one push each other out of it.  One deposit and two transfers
already give `backing` 1.6 million states; the amounts are chosen so that floor,
percentage, surcharge and dust all occur.  Two boxes on two URLs can swap
places.  One draft per rotation keeps the three chains' interleavings in reach;
two rival drafts are `rotation_rollback.cfg`.

**Conditions.**  The switches name what a property needs:
`TimelyRounds` (a signing round ends before the body it uses expires — 90 s
against 30 s per signer, so true only while few signers hang), `LastBodyLasts`
(a body is pinned for its ten minutes while retries come every ten seconds, and
no restart hits in that time), `TimelyDrives` (the dispatcher outlasts a
drive), `LateMints` FALSE (a given-up mint never lands), `FlipCrashes` FALSE,
`QuietRedirect` (redirects between ticks), `SeenCrashes` FALSE, `SerialPins`
(no two rows pin the same number), `SignerLookupMayFail` FALSE, `LateFailures`
FALSE (the scanner's try block fails only before the burn is sent),
`EmptyWallet` FALSE, a `MaxSignatures` larger than what gathers on a deposit
account between two visits.  `delivery_safety`
assumes none of its switches.

**Fairness.**  Weak fairness on the loops and event handlers: the dispatcher's
`while (running)` with `setTimeout`, awaited calls bounded by `AbortSignal`,
poll deadlines.  A broadcast release that is still valid is eventually
included.  `RecoverOrphan` is strongly fair in `Delivery`: it is enabled once
per tick, and a row that stays BROADCAST is older than the timeout at one of
them.  The watchers' and the scanner's loops are fair, and a human lifts their
pauses and answers the alert of a truncated scan (`Widen`); a box beats every 20 s and the coordinator answers it.  Rotation is the
one place where people are assumed to act: those who agreed on a set run the
TON and Solana commands until these say they are done, while nothing is assumed
of VIZ proposals.  `Unpause` is fair because every pause is escalated to staff.  No
fairness is assumed of faults; they are finite.

Deadlock checking is off where the system really ends (every row closed, all
bodies or orders used); `ReconPause` never stops and is checked.

## 4. Proofs

Every theorem is for all values of the constants that satisfy the named ASSUMEs
of its module; a switch it needs is a hypothesis of the theorem.  The bounds
(`MaxFaults`, `MaxOrder`, ...) are constants too, so nothing depends on their
size.  Each inductive invariant was first checked by TLC on the run's instance,
except `RoundInv`, which quantifies over all views and hints.

| Property of a run | Theorem | Hypotheses | Inductive invariant |
|---|---|---|---|
| `AtMostOneLanded` | `PaidAtMostOnce`, `ReleasePaidAtMostOnce` | `SignerLookupMayFail` FALSE | `LedgerInv` |
| `OneLiveSignature` | `NeverTwoLiveSignatures` | same | `LedgerInv` |
| `KeepsPromise` (refines `OneRelease`) | `LedgerKeepsPromise` | same | `LedgerInv` |
| `ImplementsLedger` | `ReleaseImplementsLedger` | none | step simulation |
| `ConfirmedIsLanded` | `ConfirmedOnlyIfLanded` | none | `DriveInv` |
| `RecoverableByTxid` | `PaidIsRecoverable` | the lookup as above, `TimelyRounds` | `LedgerInv`, `DriveInv`, `TxidInv` |
| `VizRelease!TypeOK` | `ReleaseTypeCorrect` | none | itself |
| `ConfirmedIsExecuted`, `RefundedIsRepaid`, `SweepOnlyAfterMint`, `ReleaseXorReturn` | `ConfirmedWasExecuted`, `RefundedWasRepaid`, `SweepAfterMint`, `NeverBothWays` | none: all switches | `OutboxInv` |
| `RefundExcludesMint` | `NeverMintedAndRefunded` | `TimelyDrives`, `QuietRedirect`, no `LateMints` | `FlowInv`, `MintHeard` |
| `NotStranded` | `NeverStranded` | `TimelyDrives`, `QuietRedirect`, no `FlipCrashes` | `FlowInv`, `Cared` |
| `GramOrders!TypeOK`, `ExecutedOnce` | `GramTypes`, `NoDoubleMint` | none | `GramInv` |
| `ConfirmedIsMinted` | `ConfirmedHasMinted` | `SerialPins` | `GramInv` with `SerialInv` |
| `MintedOnce`, `TxidIsTheMint` | `MintsOnce`, `TxidNamesTheMint` | none | `MintInv` |
| `BurnedOnce` | `NeverBurnedTwice` | no `LateFailures` | `BurnInv` |
| `OvershootIsOne` | `CapOvershootIsOne` | none | `CapInv` |
| `HeldIsThere` | `ParkedIsStillThere` | no `LateFailures` | `BurnInv`, `Kept`, `Balanced` |
| `Intake!TypeOK` | `TypeCorrect` | none | `Typed` |
| `NothingSkipped` | `NothingIsSkipped` | no `EmptyWallet` | `ScanInv` |
| `OneLimiter` (refines `Admission`) | `WatchersAreOneLimiter` | none | `LimiterInv` |
| `FlagsEarned`, `NoLockout` | `FlagsAreEarned`, `NoRotationLocksOut` | none | `RotationInv` |
| `Solvent` | `GatewayStaysSolvent` | `FeesOnlyFall` | `LedgerInv` of `CustodyProofs` |
| `AlarmExplained` | `AlarmsAreExplained` | `FeesOnlyFall`, `FeesCoverGas` | the same with `FloorKept`, `CheckOk` |
| `LatchedUnlessHidden`, `UnpauseEarned` | `CriticalLatch`, `AutoUnpauseEarned` | none | `ReconInv` |
| `OnlyWarranted` | `BroadcastIsWarranted` | `ChildDirections` | `RoundInv` |
| `ThresholdIsKeys` | `BroadcastHasThresholdKeys` | none | `RoundInv` |

**Releases** (`VizReleaseProofs`), for every finite federation with a strict
majority threshold (`ThresholdAssumption`), any set of bodies and any number of
concurrent calls.  `AtMostOneLanded` is not inductive: nothing in it says why a
second quorum cannot form.  `LedgerInv` adds that signatures are on claimed
bodies (`SignedIsClaimed`), that the row is the newest claim
(`LedgerIsClaimed`), that every older claim is on a body that is dead and did
not land (`OldClaimsGone`), that a handler between its check and its
compare-and-swap still holds what it checked, and one between its claim and
its signature still has the claim (`HandlersHold`), and that what landed
carries a quorum (`LandedIsSigned`).  Two landed bodies would have a signer in
common (`QuorumsIntersect`, from the majority), with both bodies claimed, so
one of them would be gone.  The compare-and-swap is sound because "dead and
not landed" is stable: the check may be arbitrarily old when it is used.
`DriveInv` says that a drive reporting success holds a landed body; every
other coordinator step leaves the chain alone.

`PaidIsRecoverable` is about the outbox's one `txid` column, which overlapping
drives overwrite.  `TxidInv` says that whatever is with a node, or about to be
handed to one, carries a quorum, and unless it is gone it is the body the row
records.  A drive that persists another id has a quorum for another body, and
two quorums leave only one body alive (`OneQuorumLives`); that is why the column
may be overwritten at all.  The round has to end before its body dies, or a
drive would overwrite a live id with a dead one: hence `TimelyRounds`.

**The outbox** (`DeliveryProofs`).  `OutboxInv` gives every status its meaning
(`RowSound`: CONFIRMED has landed, a HELD row is a lost one, a closed parent was
repaid, a fee has a minted parent), ties what landed to pins and rows, and says
what a drive and the tick may rely on between two writes.  No switch is needed:
late answers, crashes and redirects only delay.  A burn is not paid both ways
because a return exists only for a burn whose account cannot be paid.  That a
deposit is not both minted and refunded is another matter, and needs that a row
has one worker at a time (`FlowInv`: `OneDrive`, `TickOwns`, and `Families`,
which relates the statuses of a parent and its repayment).  With it, a mint that
landed is recorded or awaited (`MintHeard`), so no refund is begun; and a
REFUNDING parent has its child under way, or the tick is just closing it, or a
redirect took it back (`Cared`).  `QuietRedirect` is a hypothesis of
`NeverStranded` because the proof goes through `FlowInv`; on the instance TLC
finds `NotStranded` without it.

**GRAM orders** (`CustodyProofs`).  The contract chooses order numbers, so an
action may well be in several orders.  `GramInv` says that an action is pinned
before any order of it opens, at its number or an earlier one, and that
approvals go only to the order at the action's own pin: only that one can reach
the threshold (`ExecutedAtPin`).  A one-operator federation executes on opening
and needs an argument of its own (`AloneOpensOnce`).  Confirmation looks at an
address, hence the hypothesis that no two rows pin the same one.

**Solana mints** (`SolanaMintProofs`), for every non-empty signing subset and any
number of peg-ins, overlapping calls, faults and any scan window.  An action is
`Settled` on a nonce when all signers' ledgers hold it; the ledger never changes
again then, so an action settles once.  `MintInv` says that a call has only
signatures the ledgers bear out, that whatever is being confirmed, answered, in
flight, landed or stored as txid is settled, and that the *i*-th landed
transaction used nonce *i*.  Two mints of one action would be two positions
with one nonce.  The search for an earlier mint is not used in the argument: it
saves work, it does not protect.

**Peg-out scanner** (`PegoutScannerProofs`).  `BurnInv`: a transfer without a
row has no burn, landed or on its way; what there is of it is its latest try,
and the checkpoint is that one or missing (`BurnsHaveRows`); a stale row is
nobody's current one and has nothing on its way (`StaleIsSettled`), so what the
chain says of its checkpoint is final when `Recover` deletes the claim; between
claim and burn nothing was sent (`NothingSentYet`).  The step that needs
`LateFailures` FALSE is the catch that deletes a claim after the burn.  `CapInv`:
from the check to the record the window is within the cap, since others only
fill it up to there.  For `HeldIsThere`, `Balanced` says what a deposit account
holds: the sum of the transfers to it that no burn took out (`Unburned`), which a
burn of another transfer does not change and its own burn lowers by exactly its
amount.  The parked transfers are among them, since nothing is burned for a HELD
row (`Kept`), and a sum over fewer summands is smaller.

**Watchers** (`IntakeProofs`), for any number of events, any window and page
sizes, caps and rates.  `NothingSkipped` speaks of the stored cursor; `ScanInv`
also of the watcher's own cursor, which is ahead of it, and of a window in
progress: everything the window spans has a row, is still to do, or is the event
at hand (`Spanned`), so that the cursor may move to its end when nothing is left,
and what becomes final later lies above it.  The step that needs a non-empty
wallet is the cold start, which anchors at the tip; on an empty wallet that
leaves the cursor at 0, and the next tick anchors again, at a tip that may have
passed a burn (point 7).

`WatchersAreOneLimiter` is a step simulation under `Verdict`: a row is queued or
held in the abstract limiter when the watcher writes that status, which is
several steps after the reservation that decided it.  `LimiterInv` bridges them:
a positive decision has its event in the shared window (`Covered`), what was
queued within the day is in the window (`spent`), and the window's total is
within the cap.  A row under decision is SEEN and no other step touches it, nor
does the recovery of stale rows (`Undecided`), so that no event gets two verdicts.

**Rotation** (`CustodyProofs`), for any proposals, including ones that
`buildActiveAuthority` would refuse.  `RotationInv` says that whatever a chain, an
order, a multisig, a file or the manifest holds is the founding authority or that
of an acceptable proposal (`Adoptable`), which gives `NoLockout` because each of
these can reach its own threshold.  For `FlagsEarned` it relates the steps of a command to the chains:
one that is past its wait follows a block, one that is about to record a
multisig follows its hand-over (`Progress`), TON's authority changes only by an
executed order.

**Backing** (`CustodyProofs`), for any number and size of deposits and transfers.
Solvency compares balances with sums of obligations and is not inductive.  The
balances are sums over the rows (`Books`): each deposit has brought in its gross
and lost what was swept and refunded, has put its net into circulation, and so
on.  With that, solvency follows from one inequality per deposit and one per
transfer (`RowSound`, `RowCovers`): what a deposit brought in covers its net and
what may still be swept or refunded.  `FeesOnlyFall` is where it holds: signers
derive the sweep from the fee policy they have when it lands (point 12).
For `AlarmExplained` a check in progress is related to the present figures:
those not read yet are taken at their worst (`WorstLocked`, ...), and the drift
computed from them is short by no more than what moved since the check began
(`Figures`); every action of the ledger moves the figures by at most what it
records (`BooksMove`).  `FeesCoverGas` says that no policy's base fee is below the
gas floor a pinned fee is compared with; the defaults satisfy it, and nothing in
`config.ts` enforces it.

**Totals** (`Sums`).  What a sum over a finite set does when one summand comes,
goes or changes needs induction over sets.  The library's induction theorems have
an operator as parameter and cannot be used; their set-based form can: a
well-founded relation has a minimal element in every non-empty set (`WFMin`).  So
each fact is proved for a least counterexample, the set of all counterexamples
being an ordinary set.

**Reconciler** (`CustodyProofs`).  `LatchedUnlessHidden` is inductive once it
says that the loop is not about to lift (`LatchInv`).  For `UnpauseEarned` the
streak, which counts ticks, is related to each chain's own run of OK results:
in a tick, the chains already checked are one ahead (`StreakInv`).

**Federation** (`FederationProofs`).  `SignsOnlyWarranted`: whatever
`validateAction` accepts is one of the five payments of `Warranted`, by one lemma
per validator.  A sweep's, refund's or return's `direction` is compared by no
validator (`signer/src/sourceValidator.ts:125`); `ChildDirections` is what the
dispatcher puts there (`dispatcher/src/index.ts:31`), and without it an action
with another direction and otherwise right fields would be accepted, which
`Warranted` does not list.  `RoundInv` says that approvals are in the name of
boxes that signed and that an approved action was validated.  The wire
(`WireAssumption`) is the six fields of `actionFromWire`.
`ConsensusAgrees` and `FederationInRange`: a manifest that pins every account
and has fees gives any two environments the same consensus settings; an accepted
configuration has 1 <= threshold <= n and n operators.  Their hypotheses matter:
see points 15 and 16 below.

**Failover** (`FederationProofs`).  `OnePassThroughTheRing`: for every number of
endpoints, callers and attempts, if calls do not overlap and there is an attempt
for every endpoint, `FailoverSpec => []GivesUpAfterAll`.  The inductive
invariant `OnePass` says that a call at attempt *k* has met the *k* - 1 endpoints
behind the index (`Before`), which rotation shifts by one; *N* of them are the
ring.  `failover_alone.cfg` checks `OnePass` on an instance.

**Only model-checked.**  Liveness (`EventuallyConfirmed`, `Settles`,
`TroubleHalts`, `StallHeals`, `Handled`, `Served`, `Completes`, `Rejoins`):
fairness is out of the prover's reach.  Every invariant and every refinement that
a run checks has a theorem.

## 5. Where code and comments disagree

Every numbered point with a cfg is a counterexample TLC finds with that cfg, or
with a run's cfg and the change named.

1. **A failed lookup counts as "not landed"** (`viz_safety` with
   `SignerLookupMayFail` TRUE, `AtMostOneLanded`).
   `confirmReleaseByTxId` (`viz-watcher/src/vizChain.ts:559`) turns every error
   into null; the ledger, "fail-closed by construction: every uncertain path
   refuses" (`signer/src/replayLedger.ts:36`), then lets a second body be signed
   although the first was paid.
2. **Status before follow-up** (`delivery_flip_crash`, `NotStranded`).  The
   delivery loop writes REFUNDING (`dispatcher/src/index.ts:197`) before the
   refund row, against the rule stated for the HELD branch of the same function
   (line 135).
3. **Window against mint** (`delivery_paid_twice`, `RefundExcludesMint`).  A
   REFUNDING deposit may still be minted: its order stays open for approvals
   (`dispatcher/src/policy.ts:54`), while
   `docs/plan-refund-pruned-history-getblock.md:28` says "mint definitively
   failed".
4. **One reason for all pauses** (`recon_latch`, `CriticalStaysLatched`).  A
   stalled pause overwrites a critical reason (`common/src/store.ts:577`), and
   the auto-unpause goes by the stored reason; `recon/src/checker.ts:11`: every
   other pause "stays latched for a human".
5. **Two rows, one order address** (`gram_orders` with `SerialPins`
   FALSE, `ConfirmedIsMinted`).
   The next address is unique to an action only once its order exists
   (`coordinator/src/adapters.ts:174`; `gram-watcher/src/gramChain.ts:648`: "a
   durable idempotency key we can persist BEFORE sending").
6. **Recovery without classification** (`delivery_seen_recovery`, `Settles`).  A
   stranded burn to an unusable account is queued rather than returned
   (`common/src/seenRecovery.ts:25`: "exactly as the live path would have").
7. **The first burns of an empty wallet** (`intake_first_burns`,
   `NothingSkipped`).  A cold start on a wallet without transactions anchors
   after what arrives meanwhile; `gram-watcher/src/index.ts:44`: "downtime never
   silently skips burns".
8. **A second burn after a late failure** (`pegout` with `LateFailures`
   TRUE, `BurnedOnce`).
   The catch at `solana-watcher/src/pegoutScanner.ts:161` deletes the claim "so
   the next scan retries cleanly" also when the burn was sent and its reply, or
   one of the writes after it, failed.
9. **A Solana re-drive is refused** (`solana_redrive`, `NeverRefused`).  A retry
   reads the current nonce; if it moved on, the signers refuse the row for good,
   although `replayLedger.ts:26` says that the coordinator pins the message.
10. **Raising the threshold** (`rotation_raise`, `ReadyIsAccepted`).  Broadcast
    waits for the NEW threshold and sends all partials; VIZ wants a minimal set
    for the OLD one (`viz-watcher/src/vizSign.ts:69`), so the update is refused.
11. **Anti-rollback is checked before the send only** (`rotation_rollback`,
    `NoRollback`).  Two proposals pinned on one authority can both be applied
    (`src/setup-viz/src/rotate.ts:159`).
12. **Raising fees** (`backing` with `Old` and `New` swapped, `Solvent`).  A deposit minted under
    the old fee is swept under the new one; `common/src/fees.ts:31`: "over-backed,
    never under".
13. **False alarms** (`backing_false_alarm`, `NoFalseAlarm`).  A sweep is on
    chain before its row is CONFIRMED, and the figures are read at different
    moments; with a tolerance below what moves, the check pauses a sound gateway
    (`docs/plan-locked-equals-circulating-fee-sweep.md:54`: "no false-pause").
14. **Overlapping reads** (`failover_overlap`, `GivesUpAfterAll`).  Calls in
    flight share the index (`vizChain.ts:238`; `recon/src/index.ts:173` runs
    several on one instance), so a call may miss the healthy endpoint.
15. *Read from the code:* `rotate broadcast viz` writes `federation.json` with
    chain id, n, threshold and operators only (`rotate.ts:188`), dropping the
    pinned accounts, contracts and fees; the hypothesis of `ConsensusAgrees` then
    fails until they are put back.
16. *Read from the code:* Solana addresses are never pinned; duplicate operator
    ids are not noticed; `activationSurcharge.GRAM` is parsed and ignored; the
    peg-out signing budget does not grow with n; nothing compares heartbeat and
    lease.
17. *Read from the code:* the Solana hand-off needs all old members, while
    `solanaRotation.ts:84` speaks of M-of-N; `status --commit` of
    `rotateSolana.ts` has nothing left to record; `enforceProgramAuthority` does
    not refuse a multisig account as its sibling for metadata does.

Weaker points are visible in properties kept as definitions or in conditions: a
replayed scan takes rate slots again (`OnlyFrequentHeld`), a release may precede
the confirmation of its burn (`SupplyDropsFirst`), a redirect may meet a tick
begun before the pause (`QuietRedirect`), and a redirected deposit whose mint
fails again is paid by nobody (left out of `NotStranded` and `Settles`).

## 6. Not modelled

* Text: memo decryption, addresses, ids and amounts as strings, the wire
  format, the cipher of the key store.  A destination is usable or not, an id
  has its canonical spelling or another.
* HTTP views, the browser site, logging and alerts: no state of their own.
* `tools/`: one-off scripts; `manual-refund.cjs` pays outside the store, so no
  invariant of the outbox covers it.
* The in-memory store (tests only), which differs from SQLite in small ways (null
  after an unpause, windows never pruned).  SQLite's windows forget entries when
  a clock steps back; clocks of the processes are taken to agree.
* Contracts' code, except what the gateway relies on: the multisig's orders and
  the deposit program's burn.  The frozen reserve is a constant and taken as 0.
* A box whose own manifest labels its key differently: `Federation` has the
  parameter (`Claim`), its instance does not use it.

## 7. State and plan

Modelled are all components that keep state, in the order of their importance;
every invariant and refinement of the runs is proved.

Worth adding: GRAM with two drives per action, `Backing` with two deposits at
once in TLC (the theorems cover it), an `Intake` liveness run with all three
watchers.
