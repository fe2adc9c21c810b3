# A TLA+ development of Ascent's server core

Ascent scores repositories on an AI-maturity scale. A scan costs real money (LLM
inference), is paid for with prepaid credits or a monthly allowance, and in bulk runs on a
durable queue that several short-lived serverless instances drain at once. Around it are
the backlog that agents and people work on, a local engine that improves repositories in a
loop, proposals that an assistant may carry out, and the webhooks and gates that let all
this in. What can really go wrong is not in one function: it needs two instances, a kill, a
redelivery or a lost answer. This directory models those parts, checks them with TLC and
proves their main claims with TLAPS.

Paths below are relative to the repository (`src/lib/...`); `PROJECT.json` prefixes the
checkout directory.

## 1. Inventory

| Component | State | Operations | Hard behaviour | Modelled |
|---|---|---|---|---|
| Scan queue: `lib/db/scan-jobs.ts`, `lib/scan-queue-worker.ts` (lanes), `lib/pool.ts` | `ScanJob` rows: state, lease, notBefore, attempts, priority | enqueue, claim, yield to a peer, settle, reap, drain | instances interleave between reads and writes; kills run no `finally`; unconditional writes; best-effort calls | partly |
| Credit ledger: `lib/db/credits.ts`, `lib/db/hosted-credits.ts`, `lib/db/retry.ts` | `Organization.scanCredits`, `CreditLedger` rows with a unique (org, externalId) | `grantCredits`, `consumeScanCredit`, `clawbackOrderRefund`, `reserveHostedRunCredits` | concurrent read-then-write, redeliveries, conflict retries, lost commit acknowledgements, two isolation levels | partly |
| A queued scan and its reservation: `runRescoreJob`, `lib/db/credit-reservations.ts`, `lib/scan-credit.ts` | `creditCharged` flag, debits and refunds under a key per attempt, the stored report | carry, reserve, mark, scan, persist, refund, settle | a kill or lost answer between any two; the row is run again by another worker | partly |
| Import and bulk routes: `app/api/org/import`, `app/api/org/scan` | the request's list of jobs | enqueue and drain inline | race the cron drains for the same rows | as workers of the queue |
| Billing webhook and tiers: `app/api/billing/webhook`, `lib/billing/` | `Organization.plan`, the `Subscription` row that names its grantor | paid, revoked or cancelled, refunded | events late, twice and out of order; two writes per event | partly |
| Follow-up claims: `lib/db/followup-claims.ts`, `followup-attempts.ts`, `followup-claims-human.ts`, `loop-runs-stale.ts`, `updateRecommendation` | a `Recommendation` row's status, holder, executor, lease (also the fence), needsHuman flag; the batches of local lanes | claim, sweep, report, take over, send back, release, edit the status, clean up after dead lanes | a late report by a holder whose lease ran out; read-then-write calls that overlap; a lane's process dies | partly, one row |
| Local loop engine: `lib/local/loop-engine.ts`, `loop-lane.ts`, `lane-exit.ts`, `lane-watchdog.ts`, `boot-sweep.ts` | the registry of live runs, a run's row and lanes, the queue of deferred cycles | drive, claim, defer, settle, stop, backstop, boot sweep | calls that never return; a stop at any point; the process dies | partly, one run |
| Athena proposals: `app/api/athena/proposals/[id]/resolve`, `lib/db/athena-proposals.ts`, `athena-proposals-sweep.ts`, `lib/athena/proposal-lifecycle.ts` | a proposal row: status, claimant, claimedAt, outcome | claim, run the action, stamp, release, decline, interrupt, expire | a request dies inside an action that cannot be taken back | partly |
| Members: `lib/db/members.ts`, `lib/db/invites.ts`, `lib/authz.ts` | memberships, an invite | set a role, remove, seed the first owner, accept, revoke | two owners leave at once; an invite is claimed before its grant is written | partly |
| Scan lifecycle and coalescing: `lib/cache.ts`, `lib/scan-lifecycle.ts`, `lib/scan-finalize.ts` | in-flight runs of a process, their waiters and timers | join, leave, linger, abort, settle, refund | the last waiter leaves as another joins; a slot is taken before it is known who computes | partly, one key |
| Public scan quota: `lib/public-scan-quota.ts`, `lib/db/scan-quota.ts` | an array of timestamps per bucket | consume, refund, purge | read, decide and write back; retries; a window that moves | all of it |
| Webhook deliveries: `lib/db/webhook-deliveries.ts`, `lib/github/webhook-delivery.ts`, `app/api/app/webhook` | delivery rows with an expiry; a per-process memory | claim, work, release, sweep | takeover, fail-open store, eviction, release by id alone | all of it |
| OTLP receipts: `lib/db/otlp-receipts.ts` | rows under a unique key | insert in the writer's transaction | decided by the database | no |
| Audit chain and retention: `lib/db/scans-audit.ts`, `lib/db/retention.ts` | hash chain, horizons | append, seal, purge | seal before delete; a daily claim without a unique key | no |
| Scan persistence: `lib/db/scans-persist.ts` | a report's tables | one transaction per report | carries claim columns it read before | outcomes only |
| Scoring, analysis, LLM prompts, UI, mail, PDF | none | pure | none of these | no |

How they interact: routes, webhooks and crons *enqueue* rows; drains *claim* them and call
`runRescoreJob`; that *reserves* a credit on the ledger under the key
`scan-job:<row>:<attempt>`, runs the scan, persists, perhaps *refunds* under a key naming
the debit, and *settles* the row. The billing webhook *grants* and *claws back* on the
same ledger and moves the plan. A public scan takes a slot of its bucket, joins or starts a
shared run, and gives the slot back if another's run answered it. A lane of the loop claims
rows of the backlog and returns them, or leaves them to the closing rescan. The database is
the only memory that instances share, and the queue and the ledger are never written in one
transaction: everything in `RescoreJob` follows from that. Coalescing and the registry of
loop runs are memory of one process.

What makes each part correct, in a sentence. **Queue**: an enqueued row is settled in the
end, once, and no row has two live runs. **Ledger**: every event moves the balance once,
the trail explains it, the balance stays nonnegative and the caller is told what
happened. **Reservation**: however often a run dies, a job holds one credit at most, and a
credit goes back once and only if it was taken. **Tiers**: the end of a subscription takes
the plan it gave and not that of its replacement. **Follow-ups**: a live lease is honoured,
a write speaks for the claim it read and a fenced report for its own, a row that waits for
a person has no clock, and an agent's claim ends. **Loop**: a claim always has a keeper, a
stopped run ends, and how it ended is written once. **Proposals**: an action runs once, its
outcome on the row is what it came to, and every ask is closed. **Members**: an organization
with an owner keeps one, and an invite that was answered as accepted admits nobody else. **Scans**: a run somebody waits
for is not aborted, one nobody waits for ends, and a slot pays for its visit's own run.
**Quota**: a slot that is held is counted and what is counted is within the allowance.
**Deliveries**: an id is worked on, and while its claim is good only once.

## 2. Modules

    JobLife  <--implements--  ScanQueue        Wallet  <--implements--  CreditLedger
       \                     (ScanQueueProofs)    |                (CreditLedgerProofs)
        \                                         |
         +-----------  RescoreJob  ---------------+   (RescoreJobProofs)

    ProposalLifecycle  <--implements--  AthenaProposals   (ServicesProofs)

    FollowupClaims (FollowupClaimsProofs)     TierRevocation (TierRevocationProofs)
    LoopRun        (LoopRunProofs)            ScanCoalesce   (ServicesProofs)
    Membership, PublicScanQuota, WebhookDelivery     (AdmissionProofs)

    MCCredits    = CreditLedger | RescoreJob | TierRevocation
    MCLocalLanes = FollowupClaims | LoopRun
    MCServices   = AthenaProposals | Membership | ScanCoalesce | PublicScanQuota | WebhookDelivery

* **`ScanQueue`**: rows and the workers of several instances. Every database call is a
  step: list candidates, stamp `now`, conditional claim, peer read, yield, settle, with a
  failing variant of each call the code tolerates, a kill, and a clock. A date d is kept
  as d - now; `claimedAt` is recovered from `leaseUntil`, and the stamp lags behind the
  write by `lag`. `seen` is a history variable.
* **`JobLife`**: the abstract row: queued, claimed by one live run, returned, dropped,
  settled for good, or reaped when no live run has it. `ScanQueue` implements it
  (`ImplementsJobLife`).
* **`CreditLedger`**: calls that read, open a transaction, and commit, conflict, or
  commit with a lost acknowledgement under `withRetry`. `Isolation` is a constant:
  `snapshot` (Aurora DSQL, the hosted database) or `readCommitted` (stock Postgres,
  supported for self-hosting).
* **`Wallet`**: atomic movements under unique keys, never below zero.
* **`RescoreJob`**: `runRescoreJob` over the two abstractions. A kill may fall between any
  two calls (`Drop`), and `Faults` names the calls that may fail or lose their answer.
  `blind`, `billed` and `sold` are history variables.
* **`FollowupClaims`**: the claim columns of one row (`row`), since no call decides on two
  rows and a batch is a loop of calls on one, and a session per caller (`sess`): an agent
  under a token, a local lane, a person, a ledger page. Each database call is a step, and
  `seen` is what a session read before its conditional write. The clock is absolute, for a
  lease is compared with fences as well as with the time. The code takes a lease to be
  unique to its claim (two stamps would have to meet in a millisecond); `Stamp` therefore
  advances the clock when it makes a lease. A local lane's claim and a person's hand-off
  have none. `gen`, `seenGen` and `mine` are history variables: they number the claims so
  that a property can say which claim a write was for.
* **`TierRevocation`**: the plan of one organization as a rank, the grantor on record, and
  handlers whose reads and writes are steps. Polar is the environment: subscriptions are
  bought and end, their events are delivered until acknowledged and again after that, in any
  order and to any number of `Handlers` at once. The history variable `disorder` says which of
  three things that the route does not prevent has happened: handlers that overlapped, a payment
  after that of a later subscription, a failure between the two writes of a grant. Each property
  excepts by name those that break it (section 6).
* **`LoopRun`**: one run from the moment it is registered: lanes through worktree, claim,
  work, delivery and the deferred readings, a driver that starts cycles and ends the run or
  throws and writes its error, the stop, its two timers, lanes that never return, the end of the
  process, both sweeps and the stop of a run that is not in the registry. A release that fails is
  swallowed, as in the code; the history variable `stranded` names the claims that it leaves.
* **`AthenaProposals`**: one row, the requests at the resolve route and the runs of the
  reaper, statement by statement; the cron visits the organization only while it is `watched`, and
  an action that throws keeps its effect (`thrown` is a history variable).
  **`ProposalLifecycle`** is the table `EDGES` that the
  code writes down; `FollowsEDGES` says that the writes follow it.
* **`Membership`**: members and one invite; serializable role changes as transactions that
  abort on conflict, or commit and are reported as failed; the invite's claim, grant and release as
  separate statements. `granted` and `unacked` are history variables.
* **`ScanCoalesce`**: the map from a key to its run, the waiters, the linger timer, the gap
  between settling and eviction, and the slot a visit took before it knew who computes, with
  refunds whose write fails (`lost`) and stages after the scan that throw (`broken`).
* **`PublicScanQuota`**: the array of hits, the retried transaction, the purge, the clock. A
  hit carries its payer so that two of one millisecond can be told apart, which no operation
  reads.
* **`WebhookDelivery`**: the memory of each instance, the row, the work, the task that abandons the
  id, its release, and what is left of the arrival's work after that (`finishing`).
* **`MC*`**: values for TLC. `MCCredits`, `MCLocalLanes` and `MCServices` put modules that
  share no state in one run: a variable `focus` picks the one that moves, so that their
  states add up instead of multiplying, and no property reads two of them. `*Proofs`: the
  theorems.

Definitions whose names begin with `Mut` are alternatives of the definition after them,
each as a plausible bug would have it. Nothing uses them except the check that every
property can fail.

## 3. Runs

| Run | Instance | What it shows |
|---|---|---|
| `scan_queue` | 2 rows of one repository, a cron and a request worker, lease 3, kill after 1, stamp lag up to 1, 2 attempts (462,065 states) | `ClaimIsExclusive` (nobody loses a row while alive, though yield and settle write by id alone), the peer check orders scans by stamp (`LaterClaimRunsOnlyIfOlder`), `ImplementsJobLife`, and `EveryJobSettles` under the fairness of section 4 |
| `scan_queue_one_scan` | the same | *violation*: two scans of one repository do run together |
| `credits` | 8 calls, every choice of 3, opening 1, 3 tries, snapshot; 2 jobs sharing 2 credits, 3 claims, all faults, at most one head reported before; 2 subscriptions of 2 ranks, two handlers up to their first overlap (656,939 states) | balance, trail, reports, clawback bound, `ImplementsWallet`; one held credit per job, a run that believes it paid has, refunds answer debits, a run that reports a refund holds nothing; `PayerKeepsTier`, `TierEndsWithItsPayer` |
| `credit_double_claw` | two refund events of one order, read committed | *violation*: more than the order's credits is reversed |
| `credit_hosted_denied` | one hosted reservation, opening 3, 2 lanes | *violation*: denied after having paid |
| `rescore_unused_credit` | 1 job, 2 claims, no faults but kills | *violation*: settled without a scan and with the credit held |
| `rescore_sold_credit` | the same | *violation*: the credit of a stored report is returned |
| `tier_replaced` | 2 subscriptions of one rank, one handler, late payments | *violation*: the end of a replaced subscription clears the plan that its replacement pays for |
| `followup_claims` | two sessions of one token and an admin, lease 1, clock to 5, 2 claims, 2 calls at a time (1,631,604 states) | `LiveLeaseIsKept`, `WritesHitTheClaimTheyRead`, `FencedReportIsForItsOwnClaim`, `WaitingForAPersonHasNoClock` |
| `local_lanes` | an agent, a local lane, a ledger page, the same bounds; a run of 2 lanes and 2 cycles with one closing reading, failing releases and writes, a throw (287,464 states) | `LeasedClaimEnds`; `ClaimsHaveAKeeper`, `EndIsWrittenOnce`, `StoppedRunEnds` against stops, wedged lanes, throws, the end of the process and the sweeps |
| `followup_cleanup` | the same row, 3 calls at a time | *violation*: the cleanup of a dead lane takes a row that an agent holds |
| `services` | 2 requests and 2 sweeps at one proposal; 2 people, one of them entitled, 2 requests and an invite; 3 visits, 2 runs; 3 payers, allowance 2, window 2, clock to 3; 2 instances, 2 arrivals of one delivery (390,194 states) | `ActionRunsOnce`, `RowTellsTheTruth`, `FollowsEDGES`, `AsksAreClosed`; `OwnedOrgStaysOwned`, `InviteIsSpentOnce`; `WatchedRunLives`, `OneLiveRun`, `SlotPaysForOwnRun`, `UnwatchedRunEnds`; `AllowanceHolds`; `ProcessedOnce`, `DeliveriesAreProcessed` |

Each passing run also checks the type invariants of its modules, except that of
`FollowupClaims`, which `local_lanes` checks.

**Bounds.** Lease and kill time keep the real proportion (15 minutes and 300 seconds are 3 and 1), so an
expired holder is dead but a lease outlives its kill by long. Two rows of one repository is where the
peer check acts; two workers of different kinds are enough for each race of a row, and the proofs cover
any number. A second attempt exercises both branches of the reap. Dates are cut off once they can no
longer matter (`-Lease`, `-MaxLag`). Three concurrent calls on the ledger include each pair that
conflicts plus a third that moves the balance between; `FewCalls` admits *every* three of the eight, and
the withheld ones stay idle, so the cut loses no step of those made. `MaxTries` 3 allows a conflict and a
lost acknowledgement in one call. For queued scans a yield gives a row back without end, so `Claims`
stops at three claims over both jobs: a job can be killed, run again, and run a third time, and a second
job can compete for the balance; an opening of 2 makes a double charge affordable. The jobs are
interchangeable and so are the handlers, no property names one and none is a liveness property, so
symmetry is sound. These bounds are guards of `CreditsNext`. In the
follow-up runs a lease of one tick runs out while the clock has room for a second claim with its own; two
claims are the least at which a write can hit the wrong one, and two sessions of one token are where only
the fence, not the holder, tells them apart. `MaxBusy` limits how many calls overlap (two suffice for a
read and a write with another call's effect between; a call is a sequence, so many calls may *complete*
between them) and leaves out ledger pages, whose only call is the sweep. The proofs need none of these
bounds: they hold for every value. `CHECK_DEADLOCK FALSE` stands where every call, run or visit ends and
the system may stop; the queue's runs check deadlock.

Two subscriptions are a payer and its replacement, and two ranks let the replacement be the
higher, the lower or the same plan. `Apart` ends a behaviour before the first overlap of two handlers,
after which both tier properties except it. Two lanes are where one can be wedged, or throw, while
the other ends, and two cycles are the least in which a reading is deferred and then owed. Two
requests and two sweeps
are a claimant and whoever comes between its statements. Two owners are the least that can
both see another; three visits are one that starts a run, one that joins it and one that
finds it aborted or settled, and two runs of one key are the one that is evicted and the one that
has taken its place. An allowance of 2 with three payers has a refusal, and a window
of 2 in a clock of 3 lets a hit expire and be replaced. Two instances are where the memory of
one does not help the other.

## 4. Fairness

`scan_queue`, `local_lanes` and `services` assume some. In `scan_queue`: time passes (`WF Tick`). A call
that was made returns, in one of its ways, failure included (`WF Work(w)`). And the crons keep coming:
`vercel.json` schedules `/api/cron/rescan` daily, its drain begins with the reap, and a reap that is
attempted again and again does not fail for ever (`SF BeginCronDrain(w, TRUE)`; strong, as the worker is
busy in between). Nothing is assumed of requests, kills, settles or claims. In `local_lanes`, for the
row: time passes, the ledger is read again and again (a page load or an agent's listing, `WF
BeginSweep`), and its sweep, whose failure is swallowed, does not fail for ever (`SF SweepWrite`);
nothing is assumed of whoever holds or wants the row. An unread ledger keeps a dead agent's row, as the
code's own comment says: the sweep runs lazily, on reads and claims, and no cron does. The assumption
that a holder is dead long before its lease ends (`KillAfter < Lease`) is the comment on `JOB_LEASE_MS`,
and on the hosted platform a consequence of `maxDuration`; a self-hosted server, which nobody kills, has
it only as far as its scans are short. `claimJob`'s failing list read ends the lane like an empty one and
is not a step of its own.

For a run of the loop (`LoopFairness`): a lane that is not wedged goes on, since every stage
has a watchdog with a deadline (`lane-watchdog.ts`); the driver goes on; the stop's two timers
fire; and after the end of the process somebody starts the app again. A wedged lane never
moves, and that is the case `StoppedRunEnds` is about. A sweep or a late stop whose write fails is
not the last: somebody opens the page again (strong fairness of the sweep).

In `services`: **asks** end because time passes, a started request ends or is ended, the cron
of the reaper fires every day (`vercel.json`), and the sweep is not cut off at the same row
every day (strong fairness of its writes). The cron visits the organizations with a watched repository
and no other (`listOrgsWithWatchedRepos`), so `EveryAskIsClosed` speaks of one that is watched from
some time on; and it stops at the deadline of its invocation, so it is assumed that the deadline does not
cut the same organization off every day. **Shared scans** have their linger timers and
nothing else: the scan itself may take for ever. **Deliveries** are sent again as long as they
are not done (GitHub redelivers at an operator's request, so this is an assumption about
people), the instances' memories and the claim run out, and an instance neither dies nor
fails on every arrival. Members and the allowance have only safety properties.

## 5. Theorems

All are for every value of the constants that meets the module's named assumption.

**`ScanQueueProofs`.** `IInv` adds to the type invariant that a worker between stamp and
write names a row and lags by at most `MaxLag` (`StampInv`), that no claimed row's lease
exceeds `Lease` (`LeaseInv`), that a holding worker's row is claimed with a lease of at least
`Lease - KillAfter` ticks left (`HoldInv`: what shuts a reap out, and what `Tick`'s guard
preserves) and that two holders hold different rows (`DistinctInv`). Exclusivity alone is not
inductive: a reap could requeue a live row and let a second claim in. From it: type correctness,
`ClaimIsExclusive`, `SettledIsFinal` (proved only), `ImplementsJobLife`. A second invariant on `seen`
(what was claimed when a claim was written is older, unless the stamps contradict the
writes, or its check has not happened yet) gives `LaterClaimRunsOnlyIfOlder`.

**`CreditLedgerProofs`.** At either isolation: types, the trail reconciles, no key is on
the ledger twice, a call moves the balance once, a scan's report is true. With
`Isolation = "snapshot"`: whoever commits read the present account, hence the balance is
nonnegative (proved only), clawbacks are bounded and the ledger implements `Wallet`. Read committed is
excluded for a reason: `credit_double_claw` refutes the bound there, and a negative
adjustment that races a scan takes the balance below zero there (clamp read at
`credits.ts:178`, applied later). That a scan's report is true has one exception, `blind`: the lookup
that finds the call's own debit after a lost acknowledgement is swallowed when it fails
(`PriorAnswers`), and a scan that has paid is denied then.

**`RescoreJobProofs`.** For any number of jobs, any opening balance, any set of faults and
attempts without bound. `IInv` adds to the types and `ReturnsOnlyWhatWasTaken`, per job: the
keys on the ledger name attempts that were made (`KeysOK`, so that a run that has yet to
reserve is the first to use its key), what a run has decided by each phase (`PhaseOK`), and
that a job with no blind run holds at most one debit, none when its run is about to reserve,
and the run's own while it believes itself charged (`CreditOK`). TLC checked it (583,224
states) before it was proved. That the carry finds a held debit where there is one rests on
the well-foundedness of the naturals (`Smallest`, `NewestIsHeld`).

Two results put the jobs and the money together. `JobsMoveTheWallet`: what the queued scans write to the
ledger are movements of a `Wallet`, each under a key of its own and none below zero, so `RescoreJob`
keeps to the promise that `CreditLedger` is shown to give; `JobsLiveByTheQueue` says the same of the
queue, where it holds by construction, for the jobs take `JobLife`'s own steps. And
`JobsCostOneCreditEach`: with finitely many jobs, however often they are killed and run again and
whatever answers are lost, they have together cost at most a credit each and earned none, as long as no
run failed to read the ledger. It follows from `IInv`, which lets the debits that no refund names be
counted by their jobs (`FS_PigeonHole`), and from `PurseInv`: finitely many rows, and a balance that is not
negative. TLC checked them on two jobs (1,166,144 states) before they were proved.

**`FollowupClaimsProofs`.** For any sessions, kinds, actors, leases and bounds. The heart of
`IInv` is that a lease names a claim: every lease that was ever stamped lies before the one
that would be stamped now (`Past`), so a new one is nowhere else until its claim is won
(`FreshOK`), and a row with the lease that a session saw, or won, has that very claim
(`NamesOK`). A sweep remembers a lapsed lease (`ClockOK`), a report the fence it presented
(`CallOK`), and a row that a person has or is asked to see has no lease in *any* status
(`PersonOK`; the property says it of claimed rows only, but a status edit could open
and close the others). All steps but `Stamp`, `ClaimWins` and `Tick` bring no new lease
into the world: `Quiet` says so, and its lemmas take the actions one by one.

**`AdmissionProofs`.** For any people and requests: `OwnedOrgStaysOwned`, whose step is that a
transaction that commits still counts what it counted. `InviteIsSpentOnce`: one request at most
holds the invite, and nothing that it has granted was acknowledged (`HolderOK`). A grant that
commits and is reported as failed returns the invite, and another person may then use it: the
property says so, in terms of `unacked`, and no assumption excludes it.

In the same module, for any instances and arrivals: if work stays within its claim (`Bounded`:
`maxDuration` is minutes, the claim a day), one arrival at most is at work while the store answers. "At
work" ends when a task abandons the id: what is left of that arrival may run beside the redelivery, in
the model as in the code. For any payers, allowance and window: the hits never outnumber the allowance,
every held slot whose window lasts is among them, and no hit is younger than its row (`WrittenOK`), which
is what makes the purge by `updatedAt` safe.

**`LoopRunProofs`.** For any lanes, any number of cycles and either cadence of the rescans (the run has
one of them). `ClaimsHaveAKeeper` is not inductive: that a claim is nobody's is prevented by what the lane
and the driver may still hold. `LoopInv` adds that a lane owes and is watched only in the stages where
it can be, and that an adjudicated claim was given up before the lane went on (`LaneOK`); what the driver
has left behind in each of its states, and that only one that threw writes an error (`DriverOK`, `RowOK`);
and that what is held is in hand or stranded (`KeptOK`). `EndIsWrittenOnce` follows from `RowOK`.
`TeethOK` ties the registry that the stop's teeth read to what they cut. Two results
have no run of their own: a run that came to its end in one process without a throw leaves no row
claimed but those whose release failed (`RunsLeaveNoClaim`), and when the timers of a stop are spent and
the run is still in the registry, a lane that never returns is one the teeth could not reach
(`StopsArePursued`), which is the safety part of `StoppedRunEnds`.

**`ServicesProofs`.** *Proposals*, for any requests and sweeps. The invariant ties the row's columns to
each other (`RowOK`) and each request to the row (`ClaimOK`): a request past its claim is the
claimant, and an action that has run and did not throw is the claimant's. `ActionRunsOnce` and `RowTellsTheTruth`
follow without any assumption on time. `FollowsEDGES` and `InterruptsOnlyTheDead` (proved
only) assume `Capped`, that a request ends before its claim is stale: the release and the
reaper's write do not read the claim's age, so this is what keeps a living request from
stamping over an interruption. The code has it from the platform: `ATHENA_CLAIM_STALE_MS` is twice
the cap on a request.

In the same module, *shared scans*, for any visits and runs: the mapped run is the only live one that is not
aborted (`MapOK`), a run's count is that of its watchers until it is over (`RunOK`), and a
visit's slot agrees with who computed, unless its refund failed or a later stage threw (`VisitOK`).

**`TierRevocationProofs`.** For any number of subscriptions and any tiers. With any number of handlers, and
events as late, as often and in whatever order they come: the organization is on no plan, and has no live
grantor, whose payment was not delivered (`PlansAreBought`, proved only). The two properties of the run
are proved without an assumption on handlers or order: what breaks them is in the properties, as the
history `disorder` has it. `PayerKeepsTier` excepts handlers that overlapped and payments that came late,
`TierEndsWithItsPayer` handlers that overlapped and grants that were torn. `TierInv` says, each part
under the same exceptions, that a handler's reads still stand, and that the newest
payer, once its payment is acknowledged, holds plan and record while nobody is about to clear
the plan; the revoke that is at hand is of another subscription, so it sees a live record that is
not its own. `EndOK` is kept with its help: unless a grant was torn, a plan has its grantor
on record, and the end of that grantor is not acknowledged. Section 6 says what each exception does;
the code prevents none of them.

**The runs that put modules together.** `MCCredits`, `MCLocalLanes` and `MCServices` are shown to behave
as each of their parts (`CreditsAreTheirParts`, `LanesAreTheirParts`, `ServicesAreTheirParts`), so each
theorem above holds of what the run checks, and the types of all parts together follow
(`CreditTypesCorrect`, `LaneTypesCorrect`, `ServiceTypesCorrect`).

**Model-checked only.** The six liveness properties (`EveryJobSettles`, `LeasedClaimEnds`,
`StoppedRunEnds`, `UnwatchedRunEnds`, `AsksAreClosed`, `DeliveriesAreProcessed`): fairness is out of the
prover's reach. The seven violations are counterexamples. Every other property of a run is a theorem.

## 6. Where the code and its documents part

`PROJECT.json` quotes each under "findings".

1. `claimJobById` stamps before it writes; two overlapping claims with stamps and writes in
   opposite orders both pass the peer check (`scan-jobs.ts:314-321`).
2. At READ COMMITTED two overlapping refund events of one order both apply their whole
   target (`credits.ts:265`; `billing.md:412`).
3. A hosted reservation refuses by the balance before it looks for its own earlier row
   (`hosted-credits.ts:97-105`). The hosted lane is not in operation yet.
4. A requeued row that ends before the ledger is read, or is failed by the reaper, keeps
   its credit (`rescan.md:377`).
5. A run killed after storing its report is refunded by its retry's dedup
   (`rescan.md:379`).
6. The cleanup of dead lanes reopens by id alone whatever row their stored batch names
   (`loop-runs-stale.ts:111`), so it takes rows that another worker holds by then, which the
   release is documented never to do (`followup-claims.ts:250-251`).
7. A payment makes its subscription the grantor on record whenever that subscription is still
   active. One that was cancelled at the end of its period is, so its payment, delivered late
   or again after that of its replacement, takes the record over, and its end then clears
   the plan that the replacement pays for (`route.ts:196`; `tierRevocationModel.ts:8-9`,
   `billing.md:423-425`).

Met while modelling and left as behaviours, since no run is about them or the properties except
them by name:

* *Credits.* The lookup by which a retried debit recognizes its own row is swallowed when it fails
  (`credits.ts:399-403`): a scan whose debit was committed is then answered as denied, which
  the comment above it (395-398) says is told apart. `ScanReportsItsDebit` excepts it (`blind`).
* *Tiers.* Nothing in the route serializes events. A revoke that has read the record
  clears the plan after the replacement's payment was handled by another handler (`overlap`), and a payment
  handled while its subscription ends leaves the plan. Finding 7 is `late`. A failure between the two
  writes of a grant may leave a plan that nobody pays for, if the subscription ends before its payment is
  delivered again (`torn`).
* *Follow-ups.* A claim returns its fence by a second, plain read (`followup-claims.ts:213`), which
  a slow claimer may make when the row is already another's, so `FencedReportIsForItsOwnClaim`
  speaks of the fence of the claim that was won. A status edit leaves the claim columns alone,
  so an opened row may carry a live lease, which the next claim must and does respect.
* *Loop.* The backstop names only lanes in flight when the teeth bit (`loop-engine.ts:621-660`): a lane
  that is wedged in its worktree or its delivery, or in a closing reading registered later, or nothing in
  flight, leaves a stopped run running. `StoppedRunEnds` excepts those lanes by name (`OutOfReach`); the
  comment near line 601 says that such a run "must still reach a terminal phase". A deferred lane's row
  says done (`lane-exit.ts:116`), so the end of the process leaves its claims `in_progress` without a
  clock, and `ClaimsHaveAKeeper` ends there. A sweep that read a row while it said running writes
  "Interrupted" over what the driver wrote since; that is the exception in `EndIsWrittenOnce`. The other
  is the error of a drive that threw (`loop-engine.ts:355-361`), which looks neither at `terminated` nor
  at an end already written, though the comment near line 961 says that a run the backstop ended "keeps
  THAT row". What throws is the insert of a lane's row (`loop-lane.ts:889` and, where a lane's setup is
  recorded as failed, `loop-engine.ts:1040`), which nothing catches, though `runLane` is documented never
  to throw; the driver then waits for no lane, and one that defers later defers to nobody. (What the
  `finally` calls swallows its own failures.) A release that fails leaves its rows `in_progress`
  (`lane-exit.ts:157-163`) "for the claim path's own recovery", but the rows of a lane have no lease that
  this path could find expired. An abandoned row says that the lanes' work is not delivered, yet a late
  lane still delivers it. `startLoopRun` checks for another run and then awaits before it creates its
  own, so two starts may both pass (not modelled).
* *Proposals.* The route answers an action that throws with "Nothing was changed" and offers the ask
  again (`route.ts:202-211`), but an action writes row after row (`actions-execute.ts:108-113`), so a
  part or the whole of it may stand; the ask may then be run again, declined or expire. `Ran` leaves such
  runs out. An organization without watched repositories may have asks (`gate.ts:56-80`), which no cron
  visits: its stale claims are never interrupted and its old asks never closed. The route says that a
  change "must never land without" its audit row, but `recordOrgAudit` answers false when it fails and
  nobody looks.
* *Members.* A grant that commits and loses its acknowledgement is reported as `db_error`
  (`members.ts:235-239`) and the invite is returned (`invites.ts:242-247`), so a second person may redeem it,
  though `invites.ts:227-234` calls a double grant impossible. `InviteIsSpentOnce` says so (`unacked`).
  A stale read of the role may downgrade a member who was promoted in
  between (`invites.ts:210-217`). A revoke during a claim answers that nothing was revoked, and the
  invite returns if the grant fails. A death after the claim burns the invite.
* *Shared scans.* A visitor who leaves still pays for the run it started when that run goes on to a report,
  though `scan-lifecycle.ts:138` and `public-scan-quota.ts:364-366` list a client's abort among the refunds. A
  refund whose write fails leaves the slot counted (`lost`). When a stage after the scan throws, the stream
  gives the slot back and the JSON route keeps it.
* *Quota.* A charge whose acknowledgement is lost fails open: the visitor goes in and its slot
  cannot be given back.
* *Deliveries.* When the store does not answer, the route prefers two workers to none (`unsure`,
  excepted in `ProcessedOnce`); a task that abandons the id frees it while the arrival's other tasks still
  run or are still to come (`arms.ts:66-76` and `190-207`, `control-arms.ts:89-92`, `owner-bind.ts:98`), so they
  run beside the redelivery; without `Bounded`, a release by id alone deletes its successor's claim.

Rows with a run that could not read the ledger (`blind`) are excepted from the reservation
properties: the documents state the double charge that this leaves (`rescan.md:424-428`).

## 7. Abstractions and what is left out

* A transaction's reads happen at one instant. At READ COMMITTED they may be spread, which
  under-approximates that level; the theorems that need atomic reads are for snapshot.
* A retry after a lost acknowledgement happens only for the errors `withRetry` retries;
  any other error is reported as one.
* The credit gate's read (plan and allowance) is the choice "free"; unlimited plans and
  zero amounts never reach the ledger. The monthly ceiling of the hosted lane is left out.
* In `RescoreJob` a ledger call is atomic (what `CreditLedger` implements), credits are
  counted for one organisation, and `attempts` counts claims, yields included.
* `FollowupClaims` leaves out the legacy holder name, the rescan that carries claims to the
  rows of a new scan and closes them, the partial release in the middle of a lane, the reads
  by which routes authorise, and the audit and timeline rows. A lane stores its batch of
  picked rows before it claims them, so the row need not be open any more when the model's
  lane begins. That a run is live in another process than the one that cleans up appears
  only as `LaneDies`.
* The pool's deadline projection is a free choice to stop; the public import's settling of
  its unclaimed tail, the schedule's dates and the SSE frames are not modelled.
* `TierRevocation` leaves out one-time plan orders, full refunds of a subscription that stays active
  and a plan set by hand; a cancellation at once and a revoke are one event, which may come twice.
  A Polar client is configured (without one the fence reads the event's own snapshot, as
  `billing.md` says). It ranks plans and does not name them.
* `LoopRun` begins when the run is registered. Left out: arming a run, remote runs, retries of a lane,
  the standing runner, failed writes of a lane's row (its insert apart) and lost acknowledgements. The
  end of the process comes once; the limit on lanes at work at once only delays them; the cadence that
  reads after every cycle (`OncePerRun` false) is in the module and not in a run.
* `AthenaProposals` leaves out how asks are made, what an action does, and audit rows; ages are recent or
  past their limit. An invite whose time is over is in `Membership` one that nobody takes up any more,
  for only the read before the claim looks at the date. It leaves out resending an invite (which rotates
  a token that the model does not have) and the other gates of an organization. `ScanCoalesce` is one key
  in one process, which is not killed; caches, fetching and persistence are outside. `PublicScanQuota`
  has one clock for all instances, and the choice of the bucket is outside. `WebhookDelivery` leaves out
  the signature and what handlers do: the route answers 200 even when one failed.

## 8. Not modelled

* *Scoring, analysis, prompts, pages, mail and PDF*, which are most of the repository's lines: pure
  functions and presentation, without a state that two actors share. For that reason the map covers a
  small share of all lines, though most of those that claim, charge, settle or sweep in the parts above.
* *OTLP receipts and scan persistence*: one transaction each, whose unique keys decide. The rescan that
  carries claim columns it has read before its transaction (`scans-persist.ts:389`) is the one hazard
  there, and is listed.
* *Audit chain and retention*: sealing, purging and its horizons are batches over tables that no module
  has. The daily claim finds before it creates, without a unique key.
* *Remote and standing loop runs, lane retries, arming a run.*
* *Composition of the queue, the ledger and a queued scan as one refinement*: `RescoreJob` is shown to keep
  to the two abstractions, and the detailed modules to implement them; that the three together then do
  what `RescoreJob` does is the reader's conclusion.
