--------------------------- MODULE FollowupClaims ---------------------------
(***************************************************************************)
(* Who holds a follow-up: the claim columns of a Recommendation row and    *)
(* every call that writes them.  src/lib/db/followup-claims.ts claims,     *)
(* sweeps and releases, followup-attempts.ts reports, followup-claims-     *)
(* human.ts holds a person's verbs, scans-recommendations.ts edits the     *)
(* status, and loop-runs-stale.ts cleans up after local lanes that died.   *)
(*                                                                         *)
(* One row: no call decides on two rows, and a batch is a loop of calls on *)
(* one row each.  Each database call is a step, and a session remembers    *)
(* what it read between its steps.                                         *)
(*                                                                         *)
(* A claim's lease is also its fence: the value that a later write presents*)
(* to say which claim it speaks for.  The code takes a lease to be unique  *)
(* to its claim (followup-claims.ts), as two stamps of one millisecond     *)
(* would have to meet; here Stamp advances the clock for a leased claim.   *)
(***************************************************************************)
EXTENDS Integers, FiniteSets

CONSTANTS
    Sessions,    \* whoever makes calls: agents, lanes, people, ledger pages
    Kind,        \* Kind[s]: "remote-agent", "local", "human" or "ledger"
    Actor,       \* Actor[s]: the claimActor it writes; sessions may share one
    Admins,      \* the people with the admin role
    Lease,       \* leaseMs of an agent's claim, in ticks
    MaxNow,      \* bound: the clock stops here
    MaxBusy,     \* bound: this many calls overlap, those of ledger pages apart
    MaxClaims    \* bound: no claim is won after this many

Kinds == {"remote-agent", "local", "human", "ledger"}
Nobody == "nobody"

ASSUME ClaimsAssumption ==
    /\ Kind \in [Sessions -> Kinds]
    /\ Nobody \notin {Actor[s] : s \in Sessions}
    /\ Admins \subseteq {s \in Sessions : Kind[s] = "human"}
    /\ Lease \in Nat \ {0} /\ MaxNow \in Nat \ {0}
    /\ MaxBusy \in Nat /\ MaxClaims \in Nat

VARIABLES
    row,      \* the row's status and claim columns
    now,      \* the clock
    sess,     \* sess[s]: where a session stands and what it remembers
    gen       \* history: how many claims of the row were won so far

vars == <<row, now, sess, gen>>

NoLease == 0
Statuses == {"open", "in_progress", "done", "dismissed"}
Verdicts == {"resolved", "skipped", "needs_human"}
Verbs == {"take-over", "send-back", "release"}

Rows == [status : Statuses, actor : {Actor[s] : s \in Sessions} \cup {Nobody},
         executor : Kinds \cup {"none"}, lease : Nat, needsHuman : BOOLEAN]

FreeRow == [status |-> "open", actor |-> Nobody, executor |-> "none",
            lease |-> NoLease, needsHuman |-> FALSE]

\* lease, stamp: of the claim being made; fence: what the last claim returned;
\* batch: the lane's stored batch names the row; seen, verb: of the call under
\* way.  History: seenGen, the claim that seen shows; mine, the last claim won.
Session == [pc |-> "idle", lease |-> NoLease, stamp |-> 0, fence |-> NoLease,
            batch |-> FALSE, seen |-> FreeRow, verb |-> "none", presented |-> NoLease,
            seenGen |-> 0, mine |-> [gen |-> 0, lease |-> NoLease]]

Phases == {"idle", "sweeping", "stamping", "claiming", "refused", "reading", "working",
           "closing", "deferred", "dead", "cleaning", "reporting", "acting", "patching"}

SessionStates ==
    [pc : Phases, lease : Nat, stamp : Nat, fence : Nat, batch : BOOLEAN, seen : Rows,
     verb : Verdicts \cup Verbs \cup Statuses \cup {"none"}, presented : Nat,
     seenGen : 0 .. MaxClaims, mine : [gen : 0 .. MaxClaims, lease : Nat]]

TypeOK ==
    /\ row \in Rows
    /\ now \in 1 .. MaxNow
    /\ gen \in 0 .. MaxClaims
    /\ sess \in [Sessions -> SessionStates]

Init ==
    /\ row = FreeRow
    /\ now = 1
    /\ sess = [s \in Sessions |-> Session]
    /\ gen = 0

Goes(s, pc) == sess' = [sess EXCEPT ![s] = [@ EXCEPT !.pc = pc]]

\* The end of a call: what it read is forgotten.
Back(s, pc) == sess' = [sess EXCEPT ![s] =
    [@ EXCEPT !.pc = pc, !.seen = FreeRow, !.verb = "none", !.presented = NoLease, !.seenGen = 0]]

\* The read that the later write of the same call is conditional on.
Reads(s, pc, seen, verb, presented) == sess' = [sess EXCEPT ![s] =
    [@ EXCEPT !.pc = pc, !.seen = seen, !.verb = verb, !.presented = presented, !.seenGen = gen]]

\* What a sweep and a report remember of the row; a person's verb remembers it all.
LeaseSeen == [FreeRow EXCEPT !.lease = row.lease]

\* A session that is not in the middle of a call, and the bound on those that are.
Resting == {"idle", "working", "deferred", "dead"}
MayCall(s) ==
    Kind[s] # "ledger" =>
        Cardinality({t \in Sessions : Kind[t] # "ledger" /\ sess[t].pc \notin Resting}) < MaxBusy

\* What the sweep, the release, a skip and the cleanup write: needsHuman stays.
Released ==
    [row EXCEPT !.status = "open", !.actor = Nobody, !.executor = "none", !.lease = NoLease]

\* Mutation of SameClaim: the update is guarded by the status alone.
MutSameClaim(s) == row.status = "in_progress"

\* The guard of every compare-and-set on a claim that was read before.
SameClaim(s) == row.status = "in_progress" /\ row.lease = sess[s].seen.lease

Tick ==
    /\ now < MaxNow
    /\ now' = now + 1
    /\ UNCHANGED <<row, sess, gen>>

-----------------------------------------------------------------------------
(* sweepExpiredLeases, at the head of a claim and of a read of the ledger.   *)

\* Mutation of Lapsed: the `not null` of the predicate lost its `not`.
MutLapsed == row.status = "in_progress" /\ row.lease = NoLease

Lapsed == row.status = "in_progress" /\ row.lease # NoLease /\ row.lease < now

\* A session that claims goes on after its sweep; a ledger page is done.
AfterSweep(s) == IF Kind[s] = "ledger" THEN "idle" ELSE "stamping"

\* A lane stores its batch before it claims.
BeginSweep(s) ==
    /\ sess[s].pc = "idle" /\ MayCall(s)
    /\ sess' = [sess EXCEPT ![s] =
         [@ EXCEPT !.pc = IF Lapsed THEN "sweeping" ELSE AfterSweep(s),
                   !.seen = IF Lapsed THEN LeaseSeen ELSE FreeRow,
                   !.seenGen = IF Lapsed THEN gen ELSE 0,
                   !.batch = (Kind[s] = "local")]]
    /\ UNCHANGED <<row, now, gen>>

SweepWrite(s) ==
    /\ sess[s].pc = "sweeping"
    /\ row' = IF SameClaim(s) THEN Released ELSE row
    /\ Back(s, AfterSweep(s))
    /\ UNCHANGED <<now, gen>>

\* Both callers swallow the sweep's error.
SweepFails(s) ==
    /\ sess[s].pc = "sweeping"
    /\ Back(s, AfterSweep(s))
    /\ UNCHANGED <<row, now, gen>>

-----------------------------------------------------------------------------
(* claimFollowups, after its sweep.                                          *)

\* A person's hand-off and a local lane's claim have no lease.
Stamp(s) ==
    LET leased == Kind[s] = "remote-agent" IN
    /\ sess[s].pc = "stamping"
    /\ leased => now + Lease < MaxNow      \* bound: a lease ends before the clock does
    /\ sess' = [sess EXCEPT ![s] = [@ EXCEPT !.pc = "claiming", !.stamp = now,
                                        !.lease = IF leased THEN now + Lease ELSE NoLease]]
    /\ now' = IF leased THEN now + 1 ELSE now
    /\ UNCHANGED <<row, gen>>

\* Mutation of Candidate: an open row, whatever its lease.
MutCandidate(s) == row.status = "open"

Candidate(s) == row.status = "open" /\ (row.lease = NoLease \/ row.lease < sess[s].stamp)

\* Mutation of Claimed: the flag of the claim before stays.
MutClaimed(s) == [status |-> "in_progress", actor |-> Actor[s], executor |-> Kind[s],
                  lease |-> sess[s].lease, needsHuman |-> row.needsHuman]

Claimed(s) == [status |-> "in_progress", actor |-> Actor[s], executor |-> Kind[s],
               lease |-> sess[s].lease, needsHuman |-> FALSE]

ClaimWins(s) ==
    /\ sess[s].pc = "claiming" /\ Candidate(s)
    /\ gen < MaxClaims                     \* bound
    /\ row' = Claimed(s)
    /\ gen' = gen + 1
    /\ sess' = [sess EXCEPT ![s] =
         [@ EXCEPT !.pc = "reading", !.mine = [gen |-> gen + 1, lease |-> sess[s].lease]]]
    /\ UNCHANGED now

ClaimLoses(s) ==
    /\ sess[s].pc = "claiming" /\ ~Candidate(s)
    /\ Goes(s, "refused")
    /\ UNCHANGED <<row, now, gen>>

\* The refusal reads back what beat it.  A lane takes a row that is held out of
\* its stored batch, and leaves in it a row that is not open for another reason.
Refused(s) ==
    LET held == row.status = "in_progress" IN
    /\ sess[s].pc = "refused"
    /\ sess' = [sess EXCEPT ![s] =
         [@ EXCEPT !.pc = IF sess[s].batch /\ ~held THEN "closing" ELSE "idle",
                   !.batch = sess[s].batch /\ ~held, !.lease = NoLease, !.stamp = 0]]
    /\ UNCHANGED <<row, now, gen>>

\* The claim returns the row, and with it the fence, by a second, plain read.
ReadBack(s) ==
    /\ sess[s].pc = "reading"
    /\ sess' = [sess EXCEPT ![s] =
         [@ EXCEPT !.pc = IF Kind[s] = "local" THEN "working" ELSE "idle", !.fence = row.lease,
                   !.lease = NoLease, !.stamp = 0]]
    /\ UNCHANGED <<row, now, gen>>

-----------------------------------------------------------------------------
(* reportAttempt.  The agent presents its fence, or none as old clients do.  *)

\* Mutation of FenceVerdict: a lease that is there matches any fence.
MutFenceVerdict(stored, presented) ==
    IF presented = NoLease THEN IF stored = NoLease THEN "ok" ELSE "unfenced"
    ELSE IF stored = NoLease THEN "stale" ELSE "ok"

FenceVerdict(stored, presented) ==
    IF presented = NoLease THEN IF stored = NoLease THEN "ok" ELSE "unfenced"
    ELSE IF stored = presented THEN "ok" ELSE "stale"

ReportRead(s, verdict, presented) ==
    /\ Kind[s] = "remote-agent" /\ sess[s].pc = "idle" /\ MayCall(s)
    /\ row.status = "in_progress" /\ row.actor = Actor[s]
    /\ FenceVerdict(row.lease, presented) # "stale"
    /\ Reads(s, "reporting", LeaseSeen, verdict, presented)
    /\ UNCHANGED <<row, now, gen>>

Reported(verdict) ==
    CASE verdict = "skipped" -> Released
      [] verdict = "needs_human" -> [row EXCEPT !.lease = NoLease, !.needsHuman = TRUE]
      [] verdict = "resolved" -> [row EXCEPT !.lease = NoLease]

ReportLands(s) == SameClaim(s) /\ row.actor = Actor[s]

ReportWrite(s) ==
    /\ sess[s].pc = "reporting"
    /\ row' = IF ReportLands(s) THEN Reported(sess[s].verb) ELSE row
    /\ Back(s, "idle")
    /\ UNCHANGED <<now, gen>>

-----------------------------------------------------------------------------
(* A person's verbs, and the edit of the status.                             *)

Eligible(s, verb, r) ==
    CASE verb = "take-over" -> r.needsHuman
      [] verb = "send-back" -> s \in Admins \/ r.needsHuman
      [] verb = "release" -> /\ r.executor = "human" /\ r.lease = NoLease
                             /\ s \in Admins \/ r.actor = Actor[s]

VerbRead(s, verb) ==
    /\ Kind[s] = "human" /\ sess[s].pc = "idle" /\ MayCall(s)
    /\ row.status = "in_progress" /\ Eligible(s, verb, row)
    /\ Reads(s, "acting", row, verb, NoLease)
    /\ UNCHANGED <<row, now, gen>>

\* The guard that every verb shares, and the clauses of each.
VerbLands(s) ==
    LET seen == sess[s].seen IN
    /\ SameClaim(s) /\ row.actor = seen.actor
    /\ sess[s].verb = "take-over" => row.needsHuman
    /\ sess[s].verb = "send-back" => row.needsHuman = seen.needsHuman
    /\ sess[s].verb = "release" => row.executor = "human" /\ row.lease = NoLease

VerbWrite(s) ==
    /\ sess[s].pc = "acting"
    /\ row' = IF ~VerbLands(s) THEN row
              ELSE IF sess[s].verb = "take-over"
                   THEN [row EXCEPT !.actor = Actor[s], !.executor = "human",
                                    !.lease = NoLease, !.needsHuman = FALSE]
                   ELSE FreeRow
    /\ Back(s, "idle")
    /\ UNCHANGED <<now, gen>>

\* updateRecommendation is conditional on the status alone, and writes no claim
\* column: a row that it opens keeps its holder and its lease.
PatchRead(s, status) ==
    /\ Kind[s] = "human" /\ sess[s].pc = "idle" /\ MayCall(s)
    /\ status # row.status
    /\ Reads(s, "patching", [FreeRow EXCEPT !.status = row.status], status, NoLease)
    /\ UNCHANGED <<row, now, gen>>

PatchWrite(s) ==
    /\ sess[s].pc = "patching"
    /\ row' = IF row.status = sess[s].seen.status THEN [row EXCEPT !.status = sess[s].verb]
              ELSE row
    /\ Back(s, "idle")
    /\ UNCHANGED <<now, gen>>

\* A request ends between two of its calls: a call throws, or its process dies.
\* A claim that was won and never answered stays on the row.
CallEnds(s) ==
    /\ Kind[s] # "local" /\ sess[s].pc \notin Resting
    /\ sess' = [sess EXCEPT ![s] =
         [Session EXCEPT !.fence = sess[s].fence, !.mine = sess[s].mine]]
    /\ UNCHANGED <<row, now, gen>>

-----------------------------------------------------------------------------
(* How a local lane's claim ends.                                            *)

\* releaseFollowups: whatever this actor still holds; a failure releases nothing.
LaneRelease(s) ==
    row' \in {row, IF row.status = "in_progress" /\ row.actor = Actor[s] THEN Released ELSE row}

LaneExits(s) ==
    /\ sess[s].pc = "working"
    /\ LaneRelease(s) /\ Goes(s, "closing")
    /\ UNCHANGED <<now, gen>>

\* An adjudicated lane leaves the claim to the scan, a deferred one to the run's
\* closing scan.
LaneTransfers(s) ==
    /\ sess[s].pc = "working"
    /\ Goes(s, "closing")
    /\ UNCHANGED <<row, now, gen>>

\* The lane's terminal row.
Close(s) ==
    /\ sess[s].pc = "closing"
    /\ \E pc \in {"idle", "deferred"} :
         sess' = [sess EXCEPT ![s] = [@ EXCEPT !.pc = pc, !.batch = FALSE]]
    /\ UNCHANGED <<row, now, gen>>

\* abandonDeferredCycles, or the closing scan's exit, long after the lane's own end.
SettleDeferred(s) ==
    /\ sess[s].pc = "deferred"
    /\ LaneRelease(s) /\ Goes(s, "idle")
    /\ UNCHANGED <<now, gen>>

\* The process that drives the lane dies; its stored batch stays.
LaneDies(s) ==
    /\ sess[s].batch /\ sess[s].pc \notin {"dead", "cleaning"}
    /\ sess' = [sess EXCEPT ![s] = [Session EXCEPT !.pc = "dead", !.batch = TRUE]]
    /\ UNCHANGED <<row, now, gen>>

\* markStaleRunsStopped, for the lane of a run that no process drives.
CleanupRead(l) ==
    /\ sess[l].pc = "dead"
    /\ sess' = [sess EXCEPT ![l] = IF row.status = "in_progress" THEN [@ EXCEPT !.pc = "cleaning"]
                                   ELSE [@ EXCEPT !.pc = "idle", !.batch = FALSE]]
    /\ UNCHANGED <<row, now, gen>>

\* By id alone: nothing asks whose claim it is.  Its failure is swallowed.
CleanupWrite(l) ==
    /\ sess[l].pc = "cleaning"
    /\ row' \in {row, Released}
    /\ sess' = [sess EXCEPT ![l] = [@ EXCEPT !.pc = "idle", !.batch = FALSE]]
    /\ UNCHANGED <<now, gen>>

-----------------------------------------------------------------------------
\* The calls of agents, people and the ledger page; a lane claims and releases with the first two lines.
CallerStep(s) ==
    \/ BeginSweep(s) \/ SweepWrite(s) \/ SweepFails(s)
    \/ Stamp(s) \/ ClaimWins(s) \/ ClaimLoses(s) \/ Refused(s) \/ ReadBack(s)
    \/ \E v \in Verdicts, p \in {NoLease, sess[s].fence} : ReportRead(s, v, p)
    \/ ReportWrite(s)
    \/ \E v \in Verbs : VerbRead(s, v)
    \/ VerbWrite(s)
    \/ \E st \in Statuses : PatchRead(s, st)
    \/ PatchWrite(s)
    \/ CallEnds(s)

\* What becomes of a lane's claim, and of its batch when its process dies.
LaneLife(s) ==
    \/ LaneExits(s) \/ LaneTransfers(s) \/ Close(s) \/ SettleDeferred(s)
    \/ LaneDies(s) \/ CleanupRead(s) \/ CleanupWrite(s)

Step(s) == CallerStep(s) \/ LaneLife(s)

Next == Tick \/ \E s \in Sessions : Step(s)

Spec == Init /\ [][Next]_vars

\* Time passes, the ledger is read again and again, and its sweep does not fail
\* for ever.  Nothing is assumed of whoever holds or wants the row.
Fairness ==
    /\ WF_vars(Tick)
    /\ \A s \in {t \in Sessions : Kind[t] = "ledger"} :
         WF_vars(BeginSweep(s)) /\ SF_vars(SweepWrite(s))

FairSpec == Spec /\ Fairness

-----------------------------------------------------------------------------
(* Properties.                                                               *)

\* A live lease is honoured: while it runs, only its own actor's report or
\* release, a person, or the cleanup of dead lanes takes it off the row.  In
\* particular no claim takes a row that a person opened under a live lease, and
\* no sweep acts on a lease that it read before the row was claimed again.
LiveLeaseIsKept ==
    [][row.lease >= now /\ row'.lease # row.lease =>
        \E s \in Sessions :
            \/ row.actor = Actor[s] /\ (ReportWrite(s) \/ LaneExits(s) \/ SettleDeferred(s))
            \/ VerbWrite(s) \/ CleanupWrite(s)]_vars

\* Between the read of a sweep, a report or a person's verb and its write the
\* row may be swept, reported on and claimed again, even by the same actor: the
\* write then does nothing, provided the claim that was read had a lease.
WritesHitTheClaimTheyRead ==
    [][\A s \in Sessions :
        /\ SweepWrite(s) \/ ReportWrite(s) \/ VerbWrite(s)
        /\ row' # row
        /\ sess[s].seen.lease # NoLease
        => sess[s].seenGen = gen]_vars

\* A report that presents the fence of its session's own claim never changes a
\* later claim, though both are of one token and the holder clause holds of both.
\* (The fence that a claim returns is its own unless its second read was late:
\* then it is a later claim's, and this says nothing.)
FencedReportIsForItsOwnClaim ==
    [][\A s \in Sessions :
        /\ ReportWrite(s) /\ row' # row
        /\ sess[s].presented # NoLease
        /\ sess[s].presented = sess[s].mine.lease
        => gen = sess[s].mine.gen]_vars

\* A row that waits for a person, because one took it or because an agent asked
\* for one, has no clock: no sweep will take it out of the person's hands.
WaitingForAPersonHasNoClock ==
    row.status = "in_progress" /\ (row.needsHuman \/ row.executor = "human")
        => row.lease = NoLease

\* An agent that is never heard of again does not keep its row: a claim with a
\* lease ends, by a report or by a sweep.
LeasedClaimEnds ==
    (row.status = "in_progress" /\ row.lease # NoLease)
        ~> (row.status # "in_progress" \/ row.lease = NoLease)

\* followup-claims.ts on the release: only rows this actor still holds, as a
\* crashed lane's late cleanup must not un-claim what another worker picked up.
\* The cleanup of markStaleRunsStopped does not ask, so this is violated.
CleanupSparesOtherHolders ==
    [][\A l \in Sessions :
        CleanupWrite(l) /\ row' # row /\ row.status = "in_progress"
            => row.actor = Actor[l]]_vars
=============================================================================
