------------------------------ MODULE ScanQueue ------------------------------
(***************************************************************************)
(* The durable scan queue: the ScanJob rows of src/lib/db/scan-jobs.ts and *)
(* the workers that drain them (src/lib/scan-queue-worker.ts).             *)
(*                                                                         *)
(* Every call to the database is one step, and a worker's steps interleave *)
(* with those of workers on other instances.  Between its steps a worker   *)
(* holds what it has read: the stamp `now` it computed before its claim    *)
(* write, and the candidates it listed.  An instance may be killed at any  *)
(* moment; the row it had claimed then stays claimed until its lease is    *)
(* reaped.                                                                 *)
(*                                                                         *)
(* Time.  A date column d is kept as d - now, in ticks: it shrinks as the  *)
(* clock advances.  Claims are compared by claimedAt in the code; as       *)
(* leaseUntil = claimedAt + JOB_LEASE_MS, comparing leaseUntil is the same *)
(* comparison, so claimedAt is not kept.  claimedBy is not kept either: the*)
(* code writes it for diagnostics and never reads it.                      *)
(***************************************************************************)
EXTENDS Integers, FiniteSets

CONSTANTS
    Jobs,           \* row ids; each stands for one idempotencyKey
    RepoOf,         \* RepoOf[j]: the (orgId, repoFullName, lane) of the row
    Priority,       \* Priority[j]: JOB_PRIORITY of the reason it is enqueued for
    CronWorkers,    \* lanes of the cron drains (drainLane without a job list)
    InlineWorkers,  \* lanes of a request that drains its own jobs
    Lease,          \* JOB_LEASE_MS, in ticks
    MaxAttempts,    \* MAX_JOB_ATTEMPTS
    KillAfter,      \* the platform kills an instance this long after its claim
    MaxLag,         \* longest delay between a worker's stamp and its claim write
    Window,         \* how many candidates claimJob lists
    Outcomes        \* the states a run settles to

Workers == CronWorkers \cup InlineWorkers
Settled == {"done", "failed", "skipped"}

\* A row id is compared as a string in the code; a number stands for it here.
\* The comment on JOB_LEASE_MS: the lease is longer than any real scan.
ASSUME QueueAssumption ==
    /\ Jobs \subseteq Nat \ {0}
    /\ Priority \in [Jobs -> Nat]
    /\ CronWorkers \cap InlineWorkers = {}
    /\ MaxLag \in Nat /\ KillAfter \in Nat /\ Lease \in Nat
    /\ MaxLag <= KillAfter /\ KillAfter < Lease
    /\ MaxAttempts \in Nat \ {0}
    /\ Window \in Nat \ {0}
    /\ Outcomes \subseteq Settled

VARIABLES
    state,        \* state[j]: the column, or "absent" before the row exists
    leaseUntil,   \* leaseUntil[j] - now; 0 where the column is null
    notBefore,    \* notBefore[j] - now
    attempts,     \* attempts[j]
    pc,           \* pc[w]: what the worker does next
    on,           \* on[w]: the row it is claiming or running, 0 for none
    lag,          \* lag[w]: how long ago it computed `now` for the claim
    left,         \* left[w]: candidates or pending jobs it has not tried yet
    seen          \* history: seen[j] = the claims on the same repository that
                  \* were already written when the present claim of j was

rows == <<state, leaseUntil, notBefore, attempts>>
vars == <<state, leaseUntil, notBefore, attempts, pc, on, lag, left, seen>>

NoJob == 0

\* A worker in one of these holds a claim that it wrote.
Holding == {"claimed", "yielding", "running"}

TypeOK ==
    /\ state \in [Jobs -> {"absent", "queued", "claimed"} \cup Settled]
    /\ leaseUntil \in [Jobs -> Int]
    /\ notBefore \in [Jobs -> Int]
    /\ attempts \in [Jobs -> Nat]
    /\ pc \in [Workers -> {"idle", "supply", "try", "stamped"} \cup Holding]
    /\ on \in [Workers -> Jobs \cup {NoJob}]
    /\ lag \in [Workers -> Nat]
    /\ left \in [Workers -> SUBSET Jobs]
    /\ seen \in [Jobs -> SUBSET Jobs]

Init ==
    /\ state = [j \in Jobs |-> "absent"]
    /\ leaseUntil = [j \in Jobs |-> 0]
    /\ notBefore = [j \in Jobs |-> 0]
    /\ attempts = [j \in Jobs |-> 0]
    /\ pc = [w \in Workers |-> "idle"]
    /\ on = [w \in Workers |-> NoJob]
    /\ lag = [w \in Workers |-> 0]
    /\ left = [w \in Workers |-> {}]
    /\ seen = [j \in Jobs |-> {}]

-----------------------------------------------------------------------------
(* Enqueueing.  The unique idempotencyKey makes a second enqueue of the same *)
(* key leave the row alone, settled or not: that call changes nothing.       *)

Enqueue(j) ==
    /\ state[j] = "absent"
    /\ state' = [state EXCEPT ![j] = "queued"]
    /\ notBefore' = [notBefore EXCEPT ![j] = 0]
    /\ UNCHANGED <<leaseUntil, attempts, pc, on, lag, left, seen>>

-----------------------------------------------------------------------------
(* The head of a drain: reapExpiredLeases, then the first supply.            *)

\* Mutation of Expired: every claimed row, whatever its lease.
MutExpired(j) == state[j] = "claimed"

Expired(j) == state[j] = "claimed" /\ leaseUntil[j] < 0

\* Mutation of ReapExpiredLeases: the second updateMany is missing.
MutReapForgetsExhausted ==
    /\ state' = [j \in Jobs |->
                    IF Expired(j) /\ attempts[j] < MaxAttempts THEN "queued" ELSE state[j]]
    /\ leaseUntil' = [j \in Jobs |->
                    IF Expired(j) /\ attempts[j] < MaxAttempts THEN 0 ELSE leaseUntil[j]]

\* Mutation of ReapExpiredLeases: a state the column's type does not have.
MutReapToExpired ==
    /\ state' = [j \in Jobs |->
                    IF ~Expired(j) THEN state[j]
                    ELSE IF attempts[j] < MaxAttempts THEN "queued" ELSE "expired"]
    /\ leaseUntil' = [j \in Jobs |-> IF Expired(j) THEN 0 ELSE leaseUntil[j]]

\* The two updateMany of reapExpiredLeases select disjoint rows by one `now`.
ReapExpiredLeases ==
    /\ state' = [j \in Jobs |->
                    IF ~Expired(j) THEN state[j]
                    ELSE IF attempts[j] < MaxAttempts THEN "queued" ELSE "failed"]
    /\ leaseUntil' = [j \in Jobs |-> IF Expired(j) THEN 0 ELSE leaseUntil[j]]

\* The reap is best effort: its failure is reported and the drain goes on.
BeginCronDrain(w, reaps) ==
    /\ w \in CronWorkers
    /\ pc[w] = "idle"
    /\ IF reaps THEN ReapExpiredLeases ELSE UNCHANGED <<state, leaseUntil>>
    /\ pc' = [pc EXCEPT ![w] = "supply"]
    /\ UNCHANGED <<notBefore, attempts, on, lag, left, seen>>

\* A request drains a list of rows that its own run enqueued; rows found by a
\* second request under the same key may be in both lists.  /api/org/scan drains
\* with drainLane, /api/org/import without the reap.
BeginInlineDrain(w, S, reaps) ==
    /\ w \in InlineWorkers
    /\ pc[w] = "idle"
    /\ S # {}
    /\ \A j \in S : state[j] # "absent"
    /\ IF reaps THEN ReapExpiredLeases ELSE UNCHANGED <<state, leaseUntil>>
    /\ pc' = [pc EXCEPT ![w] = "try"]
    /\ left' = [left EXCEPT ![w] = S]
    /\ UNCHANGED <<notBefore, attempts, on, lag, seen>>

-----------------------------------------------------------------------------
(* claimJob: the candidates, then claimJobById on each until one is won.     *)

Eligible == {j \in Jobs : state[j] = "queued" /\ notBefore[j] <= 0}

\* S is a `take: Window` prefix of the eligible rows in priority order.
IsWindow(S) ==
    /\ S \subseteq Eligible
    /\ \/ S = Eligible /\ Cardinality(S) <= Window
       \/ S # Eligible /\ Cardinality(S) = Window
    /\ \A j \in S, k \in Eligible \ S : Priority[k] <= Priority[j]

ListCandidates(w) ==
    /\ w \in CronWorkers
    /\ pc[w] = "supply"
    /\ \E S \in SUBSET Jobs :
        /\ IsWindow(S)
        /\ left' = [left EXCEPT ![w] = S]
    /\ pc' = [pc EXCEPT ![w] = "try"]
    /\ UNCHANGED <<rows, on, lag, seen>>

\* Nothing left to try: claimJob or the pending list answers null and the lane
\* ends.
NothingLeft(w) ==
    /\ pc[w] = "try"
    /\ left[w] = {}
    /\ pc' = [pc EXCEPT ![w] = "idle"]
    /\ UNCHANGED <<rows, on, lag, left, seen>>

\* claimJobById, first line: `now` is computed by the instance, before the write.
Stamp(w, j) ==
    /\ pc[w] = "try"
    /\ j \in left[w]
    /\ w \in CronWorkers => \A k \in left[w] : Priority[k] <= Priority[j]
    /\ pc' = [pc EXCEPT ![w] = "stamped"]
    /\ on' = [on EXCEPT ![w] = j]
    /\ lag' = [lag EXCEPT ![w] = 0]
    /\ left' = [left EXCEPT ![w] = @ \ {j}]
    /\ UNCHANGED <<rows, seen>>

\* Mutation of Claimable: the update is no longer conditional on the state.
MutClaimAnyState(w, j) == state[j] \notin Settled /\ notBefore[j] + lag[w] <= 0

\* The conditional update's predicate, with the dates compared to the stamp.
Claimable(w, j) == state[j] = "queued" /\ notBefore[j] + lag[w] <= 0

SameRepo(j, k) == j # k /\ RepoOf[j] = RepoOf[k]

ClaimWins(w) ==
    LET j == on[w] IN
    /\ pc[w] = "stamped"
    /\ Claimable(w, j)
    /\ state' = [state EXCEPT ![j] = "claimed"]
    /\ leaseUntil' = [leaseUntil EXCEPT ![j] = Lease - lag[w]]
    /\ attempts' = [attempts EXCEPT ![j] = @ + 1]
    /\ pc' = [pc EXCEPT ![w] = "claimed"]
    /\ lag' = [lag EXCEPT ![w] = 0]
    /\ seen' = [k \in Jobs |->
                  IF k = j THEN {p \in Jobs : SameRepo(p, j) /\ state[p] = "claimed"}
                  ELSE seen[k] \ {j}]
    /\ UNCHANGED <<notBefore, on, left>>

ClaimLoses(w) ==
    /\ pc[w] = "stamped"
    /\ ~Claimable(w, on[w])
    /\ pc' = [pc EXCEPT ![w] = "try"]
    /\ on' = [on EXCEPT ![w] = NoJob]
    /\ lag' = [lag EXCEPT ![w] = 0]
    /\ UNCHANGED <<rows, left, seen>>

-----------------------------------------------------------------------------
(* claimJobById, the peer check.                                             *)

\* Claim of p is older than claim of j: claimedAt, ties broken by id.
Precedes(p, j) ==
    \/ leaseUntil[p] < leaseUntil[j]
    \/ leaseUntil[p] = leaseUntil[j] /\ p < j

\* `leaseUntil > now`, where now is j's stamp: Lease - leaseUntil[j] ticks ago.
LiveAtStampOf(p, j) ==
    state[p] = "claimed" /\ leaseUntil[p] + (Lease - leaseUntil[j]) > 0

\* Mutation of OlderPeer: the tie-break by id forgotten.
MutOlderPeerNoTieBreak(j) ==
    \E p \in Jobs :
        SameRepo(p, j) /\ LiveAtStampOf(p, j) /\ leaseUntil[p] < leaseUntil[j]

OlderPeer(j) ==
    \E p \in Jobs : SameRepo(p, j) /\ LiveAtStampOf(p, j) /\ Precedes(p, j)

CheckPeers(w) ==
    /\ pc[w] = "claimed"
    /\ pc' = [pc EXCEPT ![w] = IF OlderPeer(on[w]) THEN "yielding" ELSE "running"]
    /\ UNCHANGED <<rows, on, lag, left, seen>>

\* A failed read rejects claimJobById; drainLane answers null, so a cron lane
\* ends and a request tries its next job.  The row stays claimed.
PeerReadFails(w) ==
    /\ pc[w] = "claimed"
    /\ pc' = [pc EXCEPT ![w] = IF w \in CronWorkers THEN "idle" ELSE "try"]
    /\ on' = [on EXCEPT ![w] = NoJob]
    /\ left' = [left EXCEPT ![w] = IF w \in CronWorkers THEN {} ELSE @]
    /\ UNCHANGED <<rows, lag, seen>>

\* The row goes back, not to run before this claim would have expired.  The
\* attempt is not given back.
Yield(w) ==
    LET j == on[w] IN
    /\ pc[w] = "yielding"
    /\ state' = [state EXCEPT ![j] = "queued"]
    /\ notBefore' = [notBefore EXCEPT ![j] = leaseUntil[j]]
    /\ leaseUntil' = [leaseUntil EXCEPT ![j] = 0]
    /\ pc' = [pc EXCEPT ![w] = "try"]
    /\ on' = [on EXCEPT ![w] = NoJob]
    /\ UNCHANGED <<attempts, lag, left, seen>>

\* The yield's write is best effort: a failure leaves the row claimed.
YieldLost(w) ==
    /\ pc[w] = "yielding"
    /\ pc' = [pc EXCEPT ![w] = "try"]
    /\ on' = [on EXCEPT ![w] = NoJob]
    /\ UNCHANGED <<rows, lag, left, seen>>

-----------------------------------------------------------------------------
(* Running and settling.                                                     *)

\* After a job the lane asks for the next one, unless the wall-clock budget
\* stops it.
NextItem(w, stop) ==
    /\ pc' = [pc EXCEPT ![w] = IF stop THEN "idle"
                               ELSE IF w \in CronWorkers THEN "supply" ELSE "try"]
    /\ left' = [left EXCEPT ![w] = IF stop THEN {} ELSE @]
    /\ on' = [on EXCEPT ![w] = NoJob]

\* settleJob writes by id alone: not conditional on the row's state or holder.
Settle(w, outcome, stop) ==
    LET j == on[w] IN
    /\ pc[w] = "running"
    /\ state' = [state EXCEPT ![j] = outcome]
    /\ leaseUntil' = [leaseUntil EXCEPT ![j] = 0]
    /\ NextItem(w, stop)
    /\ UNCHANGED <<notBefore, attempts, lag, seen>>

\* The settle's write is best effort too.
SettleLost(w, stop) ==
    /\ pc[w] = "running"
    /\ NextItem(w, stop)
    /\ UNCHANGED <<rows, lag, seen>>

-----------------------------------------------------------------------------
(* The environment.                                                          *)

\* The platform kills the instance.  A kill that finds no claim written leaves
\* no trace in the database and is not modelled.
Kill(w) ==
    /\ pc[w] \in Holding
    /\ pc' = [pc EXCEPT ![w] = "idle"]
    /\ on' = [on EXCEPT ![w] = NoJob]
    /\ left' = [left EXCEPT ![w] = {}]
    /\ UNCHANGED <<rows, lag, seen>>

\* Dates never matter once they are this far in the past.
Elapse(d, floor) == IF d > floor THEN d - 1 ELSE d

\* A hosted instance is killed at maxDuration = 300 s, long before the 15 min
\* lease of its claim runs out: a holder still there after KillAfter is dead.
Tick ==
    /\ \A w \in Workers : pc[w] = "stamped" => lag[w] < MaxLag
    /\ \A w \in Workers : pc[w] \in Holding => leaseUntil[on[w]] > Lease - KillAfter
    /\ leaseUntil' = [j \in Jobs |->
                        IF state[j] = "claimed" THEN Elapse(leaseUntil[j], -Lease)
                        ELSE leaseUntil[j]]
    /\ notBefore' = [j \in Jobs |->
                        IF state[j] \in {"queued", "claimed"}
                        THEN Elapse(notBefore[j], -MaxLag) ELSE notBefore[j]]
    /\ lag' = [w \in Workers |-> IF pc[w] = "stamped" THEN lag[w] + 1 ELSE lag[w]]
    /\ UNCHANGED <<state, attempts, pc, on, left, seen>>

-----------------------------------------------------------------------------
\* What a worker does once its drain has begun, whichever way each call ends.
Work(w) ==
    \/ ListCandidates(w)
    \/ NothingLeft(w)
    \/ \E j \in Jobs : Stamp(w, j)
    \/ ClaimWins(w) \/ ClaimLoses(w)
    \/ CheckPeers(w) \/ PeerReadFails(w)
    \/ Yield(w) \/ YieldLost(w)
    \/ \E stop \in BOOLEAN :
        \/ \E outcome \in Outcomes : Settle(w, outcome, stop)
        \/ SettleLost(w, stop)

Next ==
    \/ \E j \in Jobs : Enqueue(j)
    \/ \E w \in Workers :
        \/ Work(w)
        \/ \E reaps \in BOOLEAN :
            \/ BeginCronDrain(w, reaps)
            \/ \E S \in SUBSET Jobs : BeginInlineDrain(w, S, reaps)
        \/ Kill(w)
    \/ Tick

Spec == Init /\ [][Next]_vars

\* Time passes, a call that was made returns, and the crons keep coming: the
\* schedule invokes /api/cron/rescan every day for ever, and its reap does not
\* fail for ever.  Nothing obliges a request to come, an instance to be killed,
\* or any other call to succeed.
Fairness ==
    /\ WF_vars(Tick)
    /\ \A w \in Workers : WF_vars(Work(w))
    /\ \A w \in CronWorkers : SF_vars(BeginCronDrain(w, TRUE))

FairSpec == Spec /\ Fairness

-----------------------------------------------------------------------------
(* Properties.                                                               *)

\* Work is never taken from under a live worker: the row it claimed stays
\* claimed, unexpired, and in no other worker's hands until it lets go, although
\* neither the yield's nor the settle's write checks who holds the row.
ClaimIsExclusive ==
    \A w \in Workers : pc[w] \in Holding =>
        /\ state[on[w]] = "claimed"
        /\ leaseUntil[on[w]] > 0
        /\ \A v \in Workers : pc[v] \in Holding /\ v # w => on[v] # on[w]

\* What the peer check does promise.  Two scans of one repository run at once
\* only when the stamps contradict the order of the claim writes: the claim that
\* was written second carries the older stamp (or the same one and a smaller id).
LaterClaimRunsOnlyIfOlder ==
    \A v, w \in Workers :
        /\ pc[v] = "running" /\ pc[w] \in Holding
        /\ SameRepo(on[v], on[w])
        /\ on[w] \in seen[on[v]]
        => Precedes(on[v], on[w])

\* A settled row is never brought back or rewritten, by a reap, by a peer's
\* yield, by a second settle or by a redelivery that enqueues its key again.
SettledIsFinal ==
    [][\A j \in Jobs : state[j] \in Settled => state'[j] = state[j]]_vars

\* The queue self-heals: whatever is killed or lost on the way, a row that was
\* enqueued is settled in the end, and no broken job starves the rest.
EveryJobSettles ==
    \A j \in Jobs : state[j] = "queued" ~> state[j] \in Settled

\* Towards the work that is done on a row, the queue behaves as JobLife: a claim
\* hands the row to one live run, and a reap never takes it from under it.
Live == {on[w] : w \in {v \in Workers : pc[v] \in Holding}}
Life == INSTANCE JobLife WITH live <- Live
ImplementsJobLife == Life!Spec

\* What the comment on claimJobById and the docs say of the peer check: one scan
\* per repository across instances.
OneScanPerRepo ==
    \A v, w \in Workers :
        pc[v] = "running" /\ pc[w] = "running" => ~SameRepo(on[v], on[w])
=============================================================================
