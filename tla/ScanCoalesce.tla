----------------------------- MODULE ScanCoalesce -----------------------------
(***************************************************************************)
(* Public scans of one commit in one process: the shared run of            *)
(* coalesceScan in src/lib/cache.ts and the order of runScanLifecycle in   *)
(* src/lib/scan-lifecycle.ts with the refunds of its ledger.               *)
(*                                                                         *)
(* A slot of the monthly allowance is taken before the cache is read and   *)
(* before a run is joined; whoever did not start the inference that        *)
(* answers gets it back, once and as far as the store takes the write.     *)
(* PublicScanQuota models the slots themselves.                            *)
(***************************************************************************)
EXTENDS FiniteSets, Naturals

CONSTANTS
    Visits,         \* requests at the two scan routes
    MaxRuns         \* bound: how many computations may be started

ASSUME CoalesceAssumption == IsFiniteSet(Visits) /\ MaxRuns \in Nat

Runs == 1..MaxRuns
NoRun == 0

VARIABLES
    inflight,       \* the entry of inflightScans for the key
    run,            \* run[e]: the entry and its promise
    visit           \* visit[v]: where the request is

coalesceVars == <<inflight, run, visit>>

RunOutcomes == {"none", "report", "degraded", "failed"}

RunState == [phase : {"unborn", "live", "settled", "over"}, outcome : RunOutcomes,
             aborted : BOOLEAN, waiters : Nat, lingers : BOOLEAN]

\* broken: a stage after the scan threw.
VisitPhases == {"idle", "coalescing", "waiting", "done", "broken"}

\* lost: given back by a write that failed, so that the store still counts it.
\* gone: the client's signal, until the await ends.
VisitState == [phase : VisitPhases, of : Runs \cup {NoRun}, joined : BOOLEAN, gone : BOOLEAN,
               slot : {"none", "held", "returned", "lost"}]

CoalesceTypeOK ==
    /\ inflight \in Runs \cup {NoRun}
    /\ run \in [Runs -> RunState]
    /\ visit \in [Visits -> VisitState]

Unborn == [phase |-> "unborn", outcome |-> "none", aborted |-> FALSE, waiters |-> 0, lingers |-> FALSE]

Unvisited == [phase |-> "idle", of |-> NoRun, joined |-> FALSE, gone |-> FALSE, slot |-> "none"]

CoalesceInit ==
    /\ inflight = NoRun
    /\ run = [e \in Runs |-> Unborn]
    /\ visit = [v \in Visits |-> Unvisited]

-----------------------------------------------------------------------------
(* coalesceScan.                                                             *)

\* What becomes of a slot that is given back: the store takes the write or refuses it, and no
\* second refund of the visit tries again.
GivenBack == {"returned", "lost"}

\* Up to the call: a slot is taken, and a report found in a cache, which another process may have
\* filled, or a lookup that throws gives it back; the JSON route takes it after its lookup.  A
\* denied visit goes no further; one that the failing store lets through moves like this one,
\* without a slot.
Arrive(v) ==
    /\ visit[v].phase = "idle"
    /\ \/ visit' = [visit EXCEPT ![v].phase = "coalescing", ![v].slot = "held"]
       \/ \E slot \in {"none"} \cup GivenBack :
            visit' = [visit EXCEPT ![v].phase = "done", ![v].slot = slot]
    /\ UNCHANGED <<inflight, run>>

\* Mutation of Watched: only the visit that starts a run is counted.
MutWatched(e) == IF run[e].waiters = 0 THEN 1 ELSE run[e].waiters

Watched(e) == run[e].waiters + 1

\* Mutation of Entered: a client that is gone is uncounted without having been counted.
MutEntered(e, gone) ==
    [run[e] EXCEPT !.phase = IF @ = "unborn" THEN "live" ELSE @,
                   !.waiters = IF gone THEN @ - 1 ELSE Watched(e),
                   !.lingers = gone /\ run[e].waiters = 0]

\* The visit is counted and the timer stopped; a client that is gone already is uncounted again,
\* and the timer runs if it was alone.
Entered(e, gone) ==
    [run[e] EXCEPT !.phase = IF @ = "unborn" THEN "live" ELSE @,
                   !.waiters = IF gone THEN @ ELSE Watched(e),
                   !.lingers = gone /\ run[e].waiters = 0]

\* The map is read, the entry joined or made, and the visit counted in one turn.
Coalesce(v) ==
    /\ visit[v].phase = "coalescing"
    /\ \E e \in Runs :
        /\ \/ e = inflight
           \/ inflight = NoRun /\ run[e].phase = "unborn" /\ \A f \in 1..(e - 1) : run[f].phase # "unborn"
        /\ inflight' = e
        /\ run' = [run EXCEPT ![e] = Entered(e, visit[v].gone)]
        /\ visit' = [visit EXCEPT ![v].phase = "waiting", ![v].of = e, ![v].joined = (e = inflight)]

\* Mutation of Released: the timer is not started.
MutReleased(e) == [run[e] EXCEPT !.waiters = @ - 1]

\* release: an entry that is still the mapped one and has no waiter left starts to linger.
Released(e) ==
    [run[e] EXCEPT !.waiters = @ - 1, !.lingers = @ \/ (run[e].waiters = 1 /\ inflight = e)]

\* The client disconnects, which nothing reads before the call; its await goes on.
Disconnect(v) ==
    LET e == visit[v].of IN
    /\ ~visit[v].gone
    /\ visit[v].phase \in {"coalescing", "waiting"}
    /\ visit' = [visit EXCEPT ![v].gone = TRUE]
    /\ run' = IF e = NoRun THEN run ELSE [run EXCEPT ![e] = Released(e)]
    /\ UNCHANGED inflight

\* The linger timer: its own test never fails, since joining and settling stop it.
LingerEnds(e) ==
    /\ run[e].lingers
    /\ IF run[e].waiters > 0 \/ inflight # e
       THEN /\ run' = [run EXCEPT ![e].lingers = FALSE]
            /\ UNCHANGED inflight
       ELSE /\ run' = [run EXCEPT ![e].lingers = FALSE, ![e].aborted = TRUE]
            /\ inflight' = NoRun
    /\ UNCHANGED visit

\* The scan ends in a report, in the mock's floor or in an error, an aborted one too ...
Settle(e) ==
    /\ run[e].phase = "live"
    /\ \E outcome \in RunOutcomes \ {"none"} :
        run' = [run EXCEPT ![e].phase = "settled", ![e].outcome = outcome]
    /\ UNCHANGED <<inflight, visit>>

\* Mutation of Unmapped: the key is deleted, whichever run holds it.
MutUnmapped(e) == NoRun

Unmapped(e) == IF inflight = e THEN NoRun ELSE inflight

\* ... and its first callback stops the timer and clears the map; a visit may join before it.
Evict(e) ==
    /\ run[e].phase = "settled"
    /\ run' = [run EXCEPT ![e].phase = "over", ![e].lingers = FALSE]
    /\ inflight' = Unmapped(e)
    /\ UNCHANGED visit

\* Mutation of Returns: a visit that joined keeps its slot.
MutReturns(v) == run[visit[v].of].outcome \in {"failed", "degraded"}

\* onFailure, onJoin and onDegrade of the refund ledger.
Returns(v) == visit[v].joined \/ run[visit[v].of].outcome \in {"failed", "degraded"}

VisitEnds(v, end, slot) ==
    visit' = [visit EXCEPT ![v].phase = end, ![v].gone = FALSE, ![v].slot = slot]

\* The await ends, the client's abort no longer changes a count, and the lifecycle goes on to its
\* refunds and its answer.  When a later stage throws, the stream's outer catch gives the slot
\* back, and the JSON route keeps it; one that has been given back is not given back again.
Wake(v) ==
    /\ visit[v].phase = "waiting"
    /\ run[visit[v].of].phase = "over"
    /\ \/ Returns(v) /\ \E slot \in GivenBack : VisitEnds(v, "done", slot)
       \/ ~Returns(v) /\ VisitEnds(v, "done", "held")
       \/ ~Returns(v) /\ \E slot \in {"held"} \cup GivenBack : VisitEnds(v, "broken", slot)
    /\ UNCHANGED <<inflight, run>>

CoalesceNext ==
    \/ \E v \in Visits : Arrive(v) \/ Coalesce(v) \/ Disconnect(v) \/ Wake(v)
    \/ \E e \in Runs : LingerEnds(e) \/ Settle(e) \/ Evict(e)

CoalesceSpec == CoalesceInit /\ [][CoalesceNext]_coalesceVars

\* Timers fire.  Nothing is assumed of the scan itself, which may take for ever.
CoalesceFairness == \A e \in Runs : WF_coalesceVars(LingerEnds(e))

-----------------------------------------------------------------------------
(* What must hold.                                                           *)

Watching(v, e) == visit[v].phase = "waiting" /\ visit[v].of = e /\ ~visit[v].gone

\* A run that somebody still waits for is never aborted, whoever left, came back or started it.
WatchedRunLives == \A e \in Runs : run[e].aborted => \A v \in Visits : ~Watching(v, e)

\* The commit is computed once at a time: a run that is not aborted and not settled is the mapped
\* one, which whoever comes next joins, so that it is alone.
OneLiveRun == \A e \in Runs : run[e].phase = "live" /\ ~run[e].aborted => inflight = e

OwnReport(v) == visit[v].of # NoRun /\ ~visit[v].joined /\ run[visit[v].of].outcome = "report"

\* A visit that ended without trying to give its slot back started the run that made a real report:
\* it did not join, fail, meet the cache or get the mock's floor.  And that report is paid for,
\* also by a client that left it: only a later stage that throws gives its slot back.  A refund
\* whose write failed is "lost": the visit pays for nothing.
SlotPaysForOwnRun == \A v \in Visits :
    /\ visit[v].phase \in {"done", "broken"} /\ visit[v].slot = "held" => OwnReport(v)
    /\ visit[v].phase = "done" /\ OwnReport(v) => visit[v].slot = "held"

Unwatched(e) == run[e].phase = "live" /\ ~run[e].aborted /\ ~\E v \in Visits : Watching(v, e)

\* No run goes on unwatched: it is joined again, ends or is stopped, so that no abandoned tab
\* pays for a scan without end.
UnwatchedRunEnds == []<>(\A e \in Runs : ~Unwatched(e))
=============================================================================
