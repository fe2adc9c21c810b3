------------------------ MODULE FollowupClaimsProofs ------------------------
(***************************************************************************)
(* Theorems about FollowupClaims, for any number of sessions of any kinds  *)
(* and actors, and for any lease and any bounds.                           *)
(***************************************************************************)
EXTENDS FollowupClaims, TLAPS

\* A lease that was ever stamped lies before the one that would be stamped now.
Past(lease) == lease < now + Lease

\* Whatever is remembered of the past is past; a sweep saw a lapsed lease.
ClockOK(s) ==
    /\ Past(sess[s].lease) /\ Past(sess[s].seen.lease) /\ Past(sess[s].mine.lease)
    /\ sess[s].stamp <= now
    /\ sess[s].pc = "sweeping" => sess[s].seen.lease # NoLease /\ sess[s].seen.lease < now

\* The lease of a claim that is about to be written is an agent's, and new: it is
\* nowhere else.
FreshOK(s) ==
    sess[s].pc = "claiming" /\ sess[s].lease # NoLease =>
        /\ Kind[s] = "remote-agent"
        /\ sess[s].lease # row.lease
        /\ \A t \in Sessions :
             /\ sess[s].lease # sess[t].seen.lease
             /\ sess[s].lease # sess[t].mine.lease
             /\ t # s /\ sess[t].pc = "claiming" => sess[s].lease # sess[t].lease

\* So a lease names its claim: where the row has the lease that a session saw, or
\* the lease that it won, it has that claim.
NamesOK(s) ==
    /\ sess[s].seen.lease # NoLease /\ sess[s].seen.lease = row.lease =>
           sess[s].seenGen = gen
    /\ sess[s].mine.lease # NoLease /\ sess[s].mine.lease = row.lease =>
           sess[s].mine.gen = gen

\* The verb of a call is one of its kind, and a report saw the fence it presented.
CallOK(x) ==
    /\ x.pc = "reporting" =>
         x.verb \in Verdicts /\ (x.presented # NoLease => x.seen.lease = x.presented)
    /\ x.pc = "patching" => x.verb \in Statuses

\* Stronger than WaitingForAPersonHasNoClock: in every status.
PersonOK == row.needsHuman \/ row.executor = "human" => row.lease = NoLease

SessionOK(s) == ClockOK(s) /\ FreshOK(s) /\ NamesOK(s) /\ CallOK(sess[s])

IInv ==
    /\ TypeOK
    /\ Past(row.lease)
    /\ PersonOK
    /\ \A s \in Sessions : SessionOK(s)

-----------------------------------------------------------------------------
(* Types.                                                                    *)

\* The other sessions are as they were.
Others(s) == \A t \in Sessions \ {s} : sess'[t] = sess[t]

\* What a step writes to its session.
LEMMA SessSet ==
    ASSUME TypeOK, NEW s \in Sessions, NEW r \in SessionStates,
           sess' = [sess EXCEPT ![s] = r]
    PROVE  sess' \in [Sessions -> SessionStates] /\ Others(s) /\ sess'[s] = r
  BY DEF TypeOK, Others

\* The rows that the steps write are rows.
LEMMA RowTypes ==
    ASSUME TypeOK
    PROVE  /\ FreeRow \in Rows /\ Released \in Rows /\ LeaseSeen \in Rows
           /\ \A st \in Statuses : [FreeRow EXCEPT !.status = st] \in Rows
           /\ \A st \in Statuses : [row EXCEPT !.status = st] \in Rows
           /\ \A v \in Verdicts : Reported(v) \in Rows
           /\ \A s \in Sessions : Claimed(s) \in Rows
  <1> USE ClaimsAssumption DEF TypeOK, Rows, FreeRow, Released, LeaseSeen, Statuses, Kinds, NoLease
  <1>1. FreeRow \in Rows /\ Released \in Rows /\ LeaseSeen \in Rows
    OBVIOUS
  <1>2. /\ \A st \in Statuses : [FreeRow EXCEPT !.status = st] \in Rows
        /\ \A st \in Statuses : [row EXCEPT !.status = st] \in Rows
    OBVIOUS
  <1>3. \A v \in Verdicts : Reported(v) \in Rows
    BY DEF Reported, Verdicts
  <1>4. ASSUME NEW s \in Sessions PROVE Claimed(s) \in Rows
    BY DEF Claimed, SessionStates
  <1> QED BY <1>1, <1>2, <1>3, <1>4

-----------------------------------------------------------------------------
(* Steps that neither stamp nor win a claim.                                 *)

\* What such a step of s may do to what the invariant speaks of.
Quiet(s) ==
    /\ Others(s)
    /\ gen' = gen /\ now' = now
    /\ row' \in Rows /\ row'.lease \in {row.lease, NoLease}
    /\ sess' \in [Sessions -> SessionStates]
    /\ sess'[s].pc # "claiming" /\ CallOK(sess'[s])
    /\ sess'[s].lease \in {sess[s].lease, NoLease}
    /\ sess'[s].stamp \in {sess[s].stamp, 0}
    /\ sess'[s].mine \in {sess[s].mine, Session.mine}
    /\ \/ sess'[s].seen.lease = NoLease
       \/ sess'[s].seen = sess[s].seen /\ sess'[s].seenGen = sess[s].seenGen
       \/ /\ row' = row
          /\ sess'[s].seen.lease = row.lease /\ sess'[s].seenGen = gen
    /\ sess'[s].pc = "sweeping" => Lapsed /\ sess'[s].seen.lease = row.lease

\* Every step of a session but Stamp and ClaimWins is such a step.
QuietStep(s) ==
    \/ BeginSweep(s) \/ SweepWrite(s) \/ SweepFails(s)
    \/ ClaimLoses(s) \/ Refused(s) \/ ReadBack(s)
    \/ \E v \in Verdicts, p \in {NoLease, sess[s].fence} : ReportRead(s, v, p)
    \/ ReportWrite(s)
    \/ \E v \in Verbs : VerbRead(s, v)
    \/ VerbWrite(s)
    \/ \E st \in Statuses : PatchRead(s, st)
    \/ PatchWrite(s)
    \/ CallEnds(s)
    \/ LaneExits(s) \/ LaneTransfers(s) \/ Close(s) \/ SettleDeferred(s)
    \/ LaneDies(s) \/ CleanupRead(s) \/ CleanupWrite(s)

\* A step that writes only the row and r to its session is quiet when both are.
LEMMA QuietBy ==
    ASSUME TypeOK, NEW s \in Sessions, NEW r \in SessionStates,
           sess' = [sess EXCEPT ![s] = r], UNCHANGED <<now, gen>>,
           row' \in Rows, row'.lease \in {row.lease, NoLease},
           r.pc # "claiming", CallOK(r), r.lease \in {sess[s].lease, NoLease},
           r.stamp \in {sess[s].stamp, 0}, r.mine \in {sess[s].mine, Session.mine},
           \/ r.seen.lease = NoLease
           \/ r.seen = sess[s].seen /\ r.seenGen = sess[s].seenGen
           \/ row' = row /\ r.seen.lease = row.lease /\ r.seenGen = gen,
           r.pc = "sweeping" => Lapsed /\ r.seen.lease = row.lease
    PROVE  Quiet(s)
  BY SessSet DEF Quiet

\* What each kind of call writes to its session.
LEMMA CallTypes ==
    ASSUME TypeOK, NEW s \in Sessions
    PROVE  /\ sess[s] \in SessionStates
           /\ \A pc \in Phases :
                /\ [sess[s] EXCEPT !.pc = pc] \in SessionStates
                /\ [sess[s] EXCEPT !.pc = pc, !.batch = FALSE] \in SessionStates
                /\ [sess[s] EXCEPT !.pc = pc, !.seen = FreeRow, !.verb = "none",
                        !.presented = NoLease, !.seenGen = 0] \in SessionStates
                /\ \A seen \in Rows, verb \in Verdicts \cup Verbs \cup Statuses, p \in Nat :
                     [sess[s] EXCEPT !.pc = pc, !.seen = seen, !.verb = verb,
                         !.presented = p, !.seenGen = gen] \in SessionStates
           /\ Session \in SessionStates
  <1>1. sess[s] \in SessionStates /\ FreeRow \in Rows /\ gen \in 0 .. MaxClaims
    BY RowTypes DEF TypeOK
  <1>2. 0 \in 0 .. MaxClaims
    BY ClaimsAssumption
  <1>3. Session \in SessionStates
    BY <1>1, <1>2 DEF SessionStates, NoLease, Session, Phases
  <1>4. ASSUME NEW pc \in Phases
        PROVE  /\ [sess[s] EXCEPT !.pc = pc] \in SessionStates
               /\ [sess[s] EXCEPT !.pc = pc, !.batch = FALSE] \in SessionStates
    BY <1>1 DEF SessionStates
  <1>5. ASSUME NEW pc \in Phases, NEW seen \in Rows, NEW p \in Nat, NEW g \in 0 .. MaxClaims,
               NEW verb \in Verdicts \cup Verbs \cup Statuses \cup {"none"}
        PROVE  [sess[s] EXCEPT !.pc = pc, !.seen = seen, !.verb = verb,
                    !.presented = p, !.seenGen = g] \in SessionStates
    BY <1>1 DEF SessionStates
  <1>6. NoLease \in Nat
    BY DEF NoLease
  <1> QED BY <1>1, <1>2, <1>3, <1>4, <1>5, <1>6

\* The phases that put no demand on the rest of the session.
Plain == Phases \ {"claiming", "sweeping", "reporting", "patching"}

\* A call's end is quiet whatever it writes to the row, short of a new lease.
LEMMA BackIsQuiet ==
    ASSUME TypeOK, NEW s \in Sessions, NEW pc \in Plain,
           Back(s, pc), UNCHANGED <<now, gen>>,
           row' \in Rows, row'.lease \in {row.lease, NoLease}
    PROVE  Quiet(s)
  <1> DEFINE r == [sess[s] EXCEPT !.pc = pc, !.seen = FreeRow, !.verb = "none",
                       !.presented = NoLease, !.seenGen = 0]
  <1>1. r \in SessionStates /\ sess' = [sess EXCEPT ![s] = r]
    BY CallTypes DEF Back, TypeOK, Plain
  <1>2. /\ r.pc = pc /\ r.lease = sess[s].lease /\ r.stamp = sess[s].stamp
        /\ r.mine = sess[s].mine /\ r.seen.lease = NoLease
    BY CallTypes DEF SessionStates, FreeRow
  <1> QED
    <2> HIDE DEF r
    <2> QED BY <1>1, <1>2, QuietBy DEF CallOK, Plain

\* So is a step that only moves its session on.
LEMMA GoesIsQuiet ==
    ASSUME TypeOK, NEW s \in Sessions, NEW pc \in Plain,
           Goes(s, pc), UNCHANGED <<now, gen>>,
           row' \in Rows, row'.lease \in {row.lease, NoLease}
    PROVE  Quiet(s)
  <1> DEFINE r == [sess[s] EXCEPT !.pc = pc]
  <1>1. r \in SessionStates /\ sess' = [sess EXCEPT ![s] = r]
    BY CallTypes DEF Goes, TypeOK, Plain
  <1>2. /\ r.pc = pc /\ r.lease = sess[s].lease /\ r.stamp = sess[s].stamp
        /\ r.mine = sess[s].mine /\ r.seen = sess[s].seen /\ r.seenGen = sess[s].seenGen
    BY CallTypes DEF SessionStates
  <1> QED
    <2> HIDE DEF r
    <2> QED BY <1>1, <1>2, QuietBy DEF CallOK, Plain

\* So is the read of a report, a verb or an edit.
LEMMA ReadsIsQuiet ==
    ASSUME TypeOK, NEW s \in Sessions, NEW pc \in {"reporting", "acting", "patching"},
           NEW seen \in Rows, NEW verb \in Verdicts \cup Verbs \cup Statuses, NEW p \in Nat,
           Reads(s, pc, seen, verb, p), UNCHANGED <<row, now, gen>>,
           seen.lease \in {row.lease, NoLease},
           pc = "reporting" => verb \in Verdicts /\ (p # NoLease => seen.lease = p),
           pc = "patching" => verb \in Statuses
    PROVE  Quiet(s)
  <1> DEFINE r == [sess[s] EXCEPT !.pc = pc, !.seen = seen, !.verb = verb,
                       !.presented = p, !.seenGen = gen]
  <1>1. r \in SessionStates /\ sess' = [sess EXCEPT ![s] = r]
    BY CallTypes DEF Reads, TypeOK, Phases
  <1>2. /\ r.pc = pc /\ r.lease = sess[s].lease /\ r.stamp = sess[s].stamp
        /\ r.mine = sess[s].mine /\ r.seen = seen /\ r.seenGen = gen /\ r.verb = verb
        /\ r.presented = p
    BY CallTypes DEF SessionStates
  <1>3. row' \in Rows /\ row'.lease = row.lease
    BY DEF TypeOK
  <1> QED
    <2> HIDE DEF r
    <2> QED BY <1>1, <1>2, <1>3, QuietBy DEF CallOK

\* One step per action.
LEMMA QuietSteps ==
    ASSUME TypeOK, NEW s \in Sessions, CallOK(sess[s]), QuietStep(s)
    PROVE  Quiet(s)
  <1> DEFINE x == sess[s]
  <1>t. /\ x \in SessionStates
        /\ row \in Rows
        /\ row' = row => (row' \in Rows /\ row'.lease = row.lease)
    BY CallTypes DEF TypeOK
  <1>f. /\ FreeRow \in Rows /\ FreeRow.lease = NoLease
        /\ Released \in Rows /\ Released.lease = NoLease
        /\ LeaseSeen \in Rows /\ LeaseSeen.lease = row.lease
    BY RowTypes DEF FreeRow, Released, LeaseSeen, Rows, TypeOK
  <1>p. {"idle", "stamping", "refused", "reading", "working", "closing", "deferred", "dead",
         "cleaning"} \subseteq Plain
    BY DEF Plain, Phases
  <1>a. AfterSweep(s) \in {"idle", "stamping"}
    BY DEF AfterSweep
  <1>1. CASE BeginSweep(s)
    <2> DEFINE r == [x EXCEPT !.pc = IF Lapsed THEN "sweeping" ELSE AfterSweep(s),
                              !.seen = IF Lapsed THEN LeaseSeen ELSE FreeRow,
                              !.seenGen = IF Lapsed THEN gen ELSE 0,
                              !.batch = (Kind[s] = "local")]
    <2>1. r \in SessionStates /\ sess' = [sess EXCEPT ![s] = r]
      <3>1. gen \in 0 .. MaxClaims /\ 0 \in 0 .. MaxClaims
        BY ClaimsAssumption DEF TypeOK
      <3>2. (Kind[s] = "local") \in BOOLEAN
        OBVIOUS
      <3>3. r \in SessionStates
        BY <1>t, <1>f, <1>a, <3>1, <3>2 DEF SessionStates, Phases
      <3> QED BY <1>1, <3>3 DEF BeginSweep, TypeOK
    <2>2. /\ r.pc # "claiming" /\ r.lease = x.lease /\ r.stamp = x.stamp /\ r.mine = x.mine
          /\ r.pc \in {"sweeping", "idle", "stamping"}
          /\ Lapsed => r.seen.lease = row.lease /\ r.seenGen = gen
          /\ ~Lapsed => r.seen.lease = NoLease /\ r.pc # "sweeping"
      BY <1>t, <1>f, <1>a DEF SessionStates
    <2>3. row' = row /\ UNCHANGED <<now, gen>>
      BY <1>1 DEF BeginSweep
    <2> QED
      <3> HIDE DEF r
      <3> QED BY <1>t, <2>1, <2>2, <2>3, QuietBy DEF CallOK
  <1>2. CASE SweepWrite(s)
    <2>1. row' \in Rows /\ row'.lease \in {row.lease, NoLease}
      BY <1>2, <1>t, <1>f DEF SweepWrite
    <2> QED BY <1>2, <2>1, <1>a, <1>p, BackIsQuiet DEF SweepWrite
  <1>3. CASE SweepFails(s)
    BY <1>3, <1>t, <1>a, <1>p, BackIsQuiet DEF SweepFails
  <1>4. CASE ClaimLoses(s)
    BY <1>4, <1>t, <1>p, GoesIsQuiet DEF ClaimLoses
  <1>5. CASE Refused(s)
    <2> DEFINE held == row.status = "in_progress"
               r == [x EXCEPT !.pc = IF sess[s].batch /\ ~held THEN "closing" ELSE "idle",
                              !.batch = sess[s].batch /\ ~held, !.lease = NoLease, !.stamp = 0]
    <2>1. r \in SessionStates /\ sess' = [sess EXCEPT ![s] = r]
      <3>1. r \in SessionStates
        BY <1>t DEF SessionStates, Phases, NoLease
      <3> QED BY <1>5, <3>1 DEF Refused, TypeOK
    <2>2. /\ r.pc \in {"idle", "closing", "working"} /\ r.lease = NoLease /\ r.stamp = 0
          /\ r.mine = x.mine /\ r.seen = x.seen /\ r.seenGen = x.seenGen
      BY <1>t DEF SessionStates
    <2>3. row' = row /\ UNCHANGED <<now, gen>>
      BY <1>5 DEF Refused
    <2> QED
      <3> HIDE DEF r
      <3> QED BY <1>t, <2>1, <2>2, <2>3, QuietBy DEF CallOK
  <1>6. CASE ReadBack(s)
    <2> DEFINE r == [x EXCEPT !.pc = IF Kind[s] = "local" THEN "working" ELSE "idle",
                              !.fence = row.lease, !.lease = NoLease, !.stamp = 0]
    <2>1. r \in SessionStates /\ sess' = [sess EXCEPT ![s] = r]
      <3>1. row.lease \in Nat
        BY <1>t DEF Rows
      <3>2. r \in SessionStates
        BY <1>t, <3>1 DEF SessionStates, Phases, NoLease
      <3> QED BY <1>6, <3>2 DEF ReadBack, TypeOK
    <2>2. /\ r.pc \in {"idle", "closing", "working"} /\ r.lease = NoLease /\ r.stamp = 0
          /\ r.mine = x.mine /\ r.seen = x.seen /\ r.seenGen = x.seenGen
      BY <1>t DEF SessionStates
    <2>3. row' = row /\ UNCHANGED <<now, gen>>
      BY <1>6 DEF ReadBack
    <2> QED
      <3> HIDE DEF r
      <3> QED BY <1>t, <2>1, <2>2, <2>3, QuietBy DEF CallOK
  <1>7. CASE \E v \in Verdicts, p \in {NoLease, sess[s].fence} : ReportRead(s, v, p)
    <2>1. PICK v \in Verdicts, p \in {NoLease, sess[s].fence} : ReportRead(s, v, p)
      BY <1>7
    <2>2. p \in Nat
      BY <1>t DEF SessionStates, NoLease
    <2>3. p # NoLease => row.lease = p
      BY <2>1 DEF ReportRead, FenceVerdict
    <2> QED BY <2>1, <2>2, <2>3, <1>f, ReadsIsQuiet DEF ReportRead
  <1>8. CASE ReportWrite(s)
    <2>1. sess[s].verb \in Verdicts
      BY <1>8 DEF ReportWrite, CallOK
    <2>2. ASSUME NEW v \in Verdicts PROVE Reported(v).lease = NoLease /\ Reported(v) \in Rows
      BY <1>t, <1>f, RowTypes DEF Reported, Verdicts, Rows
    <2>3. row' \in Rows /\ row'.lease \in {row.lease, NoLease}
      BY <1>8, <2>1, <2>2, <1>t DEF ReportWrite
    <2> QED BY <1>8, <2>3, <1>p, BackIsQuiet DEF ReportWrite
  <1>9. CASE \E v \in Verbs : VerbRead(s, v)
    BY <1>9, <1>t, ReadsIsQuiet DEF VerbRead, NoLease
  <1>10. CASE VerbWrite(s)
    <2>1. row' \in Rows /\ row'.lease \in {row.lease, NoLease}
      <3>1. [row EXCEPT !.actor = Actor[s], !.executor = "human",
                 !.lease = NoLease, !.needsHuman = FALSE] \in Rows
        BY <1>t DEF Rows, Kinds, NoLease
      <3> QED BY <1>10, <3>1, <1>t, <1>f DEF VerbWrite, Rows
    <2> QED BY <1>10, <2>1, <1>p, BackIsQuiet DEF VerbWrite
  <1>11. CASE \E st \in Statuses : PatchRead(s, st)
    <2>1. PICK st \in Statuses : PatchRead(s, st)
      BY <1>11
    <2>2. /\ [FreeRow EXCEPT !.status = row.status] \in Rows
          /\ [FreeRow EXCEPT !.status = row.status].lease = NoLease
      BY <1>t, <1>f, RowTypes DEF Rows
    <2>3. NoLease \in Nat
      BY DEF NoLease
    <2> QED BY <2>1, <2>2, <2>3, ReadsIsQuiet DEF PatchRead
  <1>12. CASE PatchWrite(s)
    <2>1. sess[s].verb \in Statuses
      BY <1>12 DEF PatchWrite, CallOK
    <2>2. row' \in Rows /\ row'.lease \in {row.lease, NoLease}
      BY <1>12, <2>1, <1>t, RowTypes DEF PatchWrite, Rows
    <2> QED BY <1>12, <2>2, <1>p, BackIsQuiet DEF PatchWrite
  <1>13. CASE CallEnds(s)
    <2> DEFINE r == [Session EXCEPT !.fence = sess[s].fence, !.mine = sess[s].mine]
    <2>1. Session \in SessionStates
      BY CallTypes
    <2>2. r \in SessionStates /\ sess' = [sess EXCEPT ![s] = r]
      BY <1>13, <1>t, <2>1 DEF CallEnds, SessionStates, TypeOK
    <2>3. /\ r.pc = "idle" /\ r.lease = NoLease /\ r.stamp = 0 /\ r.mine = sess[s].mine
          /\ r.seen.lease = NoLease
      BY <1>f DEF Session
    <2>4. row' = row /\ UNCHANGED <<now, gen>>
      BY <1>13 DEF CallEnds
    <2> QED
      <3> HIDE DEF r
      <3> QED BY <1>t, <2>2, <2>3, <2>4, QuietBy DEF CallOK
  <1>14. CASE LaneExits(s) \/ SettleDeferred(s)
    <2>1. row' \in Rows /\ row'.lease \in {row.lease, NoLease}
      BY <1>14, <1>t, <1>f DEF LaneExits, SettleDeferred, LaneRelease
    <2> QED BY <1>14, <2>1, <1>p, GoesIsQuiet DEF LaneExits, SettleDeferred
  <1>15. CASE LaneTransfers(s)
    BY <1>15, <1>t, <1>p, GoesIsQuiet DEF LaneTransfers
  <1>16. CASE Close(s) \/ CleanupRead(s) \/ CleanupWrite(s)
    <2>1. PICK pc \in {"idle", "deferred"} :
             \/ sess' = [sess EXCEPT ![s] = [x EXCEPT !.pc = pc, !.batch = FALSE]]
             \/ sess' = [sess EXCEPT ![s] = [x EXCEPT !.pc = "cleaning"]]
      BY <1>16 DEF Close, CleanupRead, CleanupWrite, TypeOK
    <2>2. row' \in Rows /\ row'.lease \in {row.lease, NoLease} /\ UNCHANGED <<now, gen>>
      BY <1>16, <1>t, <1>f DEF Close, CleanupRead, CleanupWrite
    <2>3. CASE sess' = [sess EXCEPT ![s] = [x EXCEPT !.pc = "cleaning"]]
      BY <2>2, <2>3, <1>p, GoesIsQuiet DEF Goes
    <2>4. CASE sess' = [sess EXCEPT ![s] = [x EXCEPT !.pc = pc, !.batch = FALSE]]
      <3> DEFINE r == [x EXCEPT !.pc = pc, !.batch = FALSE]
      <3>1. r \in SessionStates /\ sess' = [sess EXCEPT ![s] = r]
        BY <2>4, <1>p, CallTypes DEF Plain
      <3>2. /\ r.pc \in {"idle", "deferred"} /\ r.lease = x.lease /\ r.stamp = x.stamp
            /\ r.mine = x.mine /\ r.seen = x.seen /\ r.seenGen = x.seenGen
        BY <1>t DEF SessionStates
      <3> QED
        <4> HIDE DEF r
        <4> QED BY <2>2, <3>1, <3>2, QuietBy DEF CallOK
    <2> QED BY <2>1, <2>3, <2>4
  <1>17. CASE LaneDies(s)
    <2> DEFINE r == [Session EXCEPT !.pc = "dead", !.batch = TRUE]
    <2>1. Session \in SessionStates
      BY CallTypes
    <2>2. r \in SessionStates /\ sess' = [sess EXCEPT ![s] = r]
      BY <1>17, <1>p, <2>1 DEF LaneDies, SessionStates, Plain
    <2>3. /\ r.pc = "dead" /\ r.lease = NoLease /\ r.stamp = 0 /\ r.mine = Session.mine
          /\ r.seen.lease = NoLease
      BY <1>f DEF Session
    <2>4. row' = row /\ UNCHANGED <<now, gen>>
      BY <1>17 DEF LaneDies
    <2> QED
      <3> HIDE DEF r
      <3> QED BY <1>t, <2>2, <2>3, <2>4, QuietBy DEF CallOK
  <1> QED
    BY <1>1, <1>2, <1>3, <1>4, <1>5, <1>6, <1>7, <1>8, <1>9, <1>10, <1>11, <1>12, <1>13,
       <1>14, <1>15, <1>16, <1>17 DEF QuietStep

-----------------------------------------------------------------------------
(* The invariant.                                                            *)

\* The arithmetic of the types.
LEMMA Numbers ==
    ASSUME TypeOK
    PROVE  /\ Lease \in Nat \ {0} /\ now \in Nat \ {0} /\ gen \in Nat /\ row.lease \in Nat
           /\ NoLease = 0
           /\ \A s \in Sessions :
                /\ sess[s].lease \in Nat /\ sess[s].seen.lease \in Nat /\ sess[s].stamp \in Nat
                /\ sess[s].mine.lease \in Nat /\ sess[s].mine.gen \in Nat
  <1>1. Lease \in Nat \ {0} /\ MaxNow \in Nat /\ MaxClaims \in Nat
    BY ClaimsAssumption
  <1>2. now \in Nat \ {0} /\ gen \in Nat
    BY <1>1 DEF TypeOK
  <1>3. row.lease \in Nat
    BY DEF TypeOK, Rows
  <1>4. ASSUME NEW s \in Sessions
        PROVE  /\ sess[s].lease \in Nat /\ sess[s].seen.lease \in Nat /\ sess[s].stamp \in Nat
               /\ sess[s].mine.lease \in Nat /\ sess[s].mine.gen \in 0 .. MaxClaims
    BY DEF TypeOK, SessionStates, Rows
  <1> QED BY <1>1, <1>2, <1>3, <1>4 DEF NoLease

\* A quiet step brings no lease into the world.
LEMMA QuietKeeps ==
    ASSUME IInv, NEW s \in Sessions, Quiet(s)
    PROVE  TypeOK' /\ Past(row.lease)' /\ \A t \in Sessions : SessionOK(t)'
  <1>n. /\ Lease \in Nat \ {0} /\ now \in Nat \ {0} /\ row.lease \in Nat /\ NoLease = 0
        /\ \A t \in Sessions : sess[t].lease \in Nat /\ sess[t].stamp \in Nat
    BY Numbers DEF IInv
  <1>g. now' = now /\ gen' = gen /\ row'.lease \in {row.lease, NoLease}
    BY DEF Quiet
  <1>1. TypeOK'
    BY DEF IInv, TypeOK, Quiet
  <1>2. Past(row.lease)' /\ Past(NoLease)
    BY <1>n, <1>g DEF IInv, Past
  <1>3. ASSUME NEW t \in Sessions PROVE SessionOK(t)'
    <2>o. \A u \in Sessions : u # s => sess'[u] = sess[u]
      BY DEF Quiet, Others
    <2>i. ClockOK(t) /\ FreshOK(t) /\ NamesOK(t) /\ CallOK(sess[t])
      BY DEF IInv, SessionOK
    <2>m. sess'[s].mine = sess[s].mine \/ sess'[s].mine.lease = NoLease
      BY DEF Quiet, Session
    <2>c. CallOK(sess'[t])
      BY <2>o, <2>i DEF Quiet
    <2>1. CASE t # s
      <3>1. ClockOK(t)'
        BY <2>1, <2>o, <2>i, <1>g DEF ClockOK, Past
      <3>2. FreshOK(t)'
        BY <2>1, <2>o, <2>i, <2>m, <1>g DEF FreshOK, Quiet
      <3>3. NamesOK(t)'
        BY <2>1, <2>o, <2>i, <1>g DEF NamesOK
      <3> QED BY <3>1, <3>2, <3>3, <2>c DEF SessionOK, CallOK
    <2>2. CASE t = s
      <3>1. ClockOK(t)'
        <4>1. Past(sess[s].lease)' /\ Past(sess'[s].mine.lease) /\ sess'[s].stamp <= now
          BY <2>2, <2>i, <2>m, <1>n, <1>g, <1>2 DEF Quiet, ClockOK, Past
        <4>2. Past(sess'[s].seen.lease)
          BY <2>2, <2>i, <1>2 DEF Quiet, ClockOK, IInv
        <4>3. sess'[s].pc = "sweeping" => sess'[s].seen.lease # NoLease /\ sess'[s].seen.lease < now
          BY DEF Quiet, Lapsed
        <4> QED BY <2>2, <4>1, <4>2, <4>3, <1>g DEF ClockOK, Past
      <3>2. FreshOK(t)'
        BY <2>2 DEF FreshOK, Quiet
      <3>3. NamesOK(t)'
        BY <2>2, <2>i, <2>m, <1>g DEF NamesOK, Quiet
      <3> QED BY <3>1, <3>2, <3>3, <2>c DEF SessionOK, CallOK
    <2> QED BY <2>1, <2>2
  <1> QED BY <1>1, <1>2, <1>3

\* A row that is given to a person, or flagged for one, loses its lease.
LEMMA PersonStep ==
    ASSUME IInv, NEW s \in Sessions, QuietStep(s)
    PROVE  PersonOK'
  <1>n. row \in Rows /\ PersonOK
    BY DEF IInv, TypeOK
  <1>f. FreeRow.lease = NoLease /\ Released.lease = NoLease
    BY <1>n DEF FreeRow, Released, Rows
  <1> SUFFICES \/ row'.lease = NoLease
               \/ /\ row'.lease = row.lease
                  /\ row'.needsHuman = row.needsHuman /\ row'.executor = row.executor
    BY <1>n DEF PersonOK
  <1>1. CASE ReportWrite(s)
    <2>1. sess[s].verb \in Verdicts
      BY <1>1 DEF ReportWrite, IInv, SessionOK, CallOK
    <2>2. ASSUME NEW v \in Verdicts PROVE Reported(v).lease = NoLease
      BY <1>n, <1>f DEF Reported, Verdicts, Rows
    <2> QED BY <1>1, <2>1, <2>2 DEF ReportWrite
  <1>2. CASE VerbWrite(s)
    BY <1>2, <1>n, <1>f DEF VerbWrite, Rows
  <1>3. CASE PatchWrite(s)
    BY <1>3, <1>n DEF PatchWrite, Rows
  <1>4. CASE SweepWrite(s) \/ LaneExits(s) \/ SettleDeferred(s) \/ CleanupWrite(s)
    BY <1>4, <1>f DEF SweepWrite, LaneExits, SettleDeferred, LaneRelease, CleanupWrite
  <1>5. CASE row' = row
    BY <1>5
  <1>6. row' = row \/ ReportWrite(s) \/ VerbWrite(s) \/ PatchWrite(s) \/ SweepWrite(s)
        \/ LaneExits(s) \/ SettleDeferred(s) \/ CleanupWrite(s)
    BY DEF QuietStep, BeginSweep, SweepFails, ClaimLoses, Refused, ReadBack, ReportRead, VerbRead,
           PatchRead, CallEnds, LaneTransfers, Close, LaneDies, CleanupRead
  <1> QED BY <1>1, <1>2, <1>3, <1>4, <1>5, <1>6

\* A stamp takes a lease that lies beyond all that were ever taken, and passes it.
LEMMA StampKeeps ==
    ASSUME IInv, NEW s \in Sessions, Stamp(s)
    PROVE  IInv'
  <1> DEFINE leased == Kind[s] = "remote-agent"
             lease == IF leased THEN now + Lease ELSE NoLease
             r == [sess[s] EXCEPT !.pc = "claiming", !.stamp = now, !.lease = lease]
  <1>n. /\ Lease \in Nat \ {0} /\ now \in Nat \ {0} /\ row.lease \in Nat /\ NoLease = 0
        /\ \A t \in Sessions :
             /\ sess[t].lease \in Nat /\ sess[t].seen.lease \in Nat /\ sess[t].stamp \in Nat
             /\ sess[t].mine.lease \in Nat
    BY Numbers DEF IInv
  <1>g. /\ row' = row /\ gen' = gen
        /\ leased => now' = now + 1 /\ now + Lease < MaxNow
        /\ ~leased => now' = now
    BY DEF Stamp
  <1>r. r \in SessionStates
    <2>1. sess[s] \in SessionStates
      BY DEF IInv, TypeOK
    <2>2. lease \in Nat /\ now \in Nat
      BY <1>n
    <2> HIDE DEF lease
    <2> QED BY <2>1, <2>2 DEF SessionStates, Phases
  <1>x. /\ sess'[s] = r /\ sess' \in [Sessions -> SessionStates]
        /\ \A t \in Sessions : t # s => sess'[t] = sess[t]
    <2>1. sess' = [sess EXCEPT ![s] = r]
      BY DEF Stamp
    <2> HIDE DEF r
    <2> QED BY <2>1, <1>r, SessSet DEF IInv, Others
  <1>y. /\ sess'[s].pc = "claiming" /\ sess'[s].stamp = now /\ sess'[s].lease = lease
        /\ sess'[s].seen = sess[s].seen /\ sess'[s].seenGen = sess[s].seenGen
        /\ sess'[s].mine = sess[s].mine
    BY <1>x DEF IInv, TypeOK, SessionStates
  <1> HIDE DEF r
  <1>i. \A t \in Sessions : ClockOK(t) /\ FreshOK(t) /\ NamesOK(t) /\ CallOK(sess[t])
    BY DEF IInv, SessionOK
  <1>z. \A t \in Sessions : sess'[t].seen = sess[t].seen /\ sess'[t].seenGen = sess[t].seenGen
                           /\ sess'[t].mine = sess[t].mine
    BY <1>x, <1>y
  <1>1. TypeOK'
    <2>1. now' \in 1 .. MaxNow
      <3>1. now \in 1 .. MaxNow /\ MaxNow \in Nat
        BY ClaimsAssumption DEF IInv, TypeOK
      <3> QED BY <3>1, <1>n, <1>g
    <2> QED BY <2>1, <1>g, <1>x DEF IInv, TypeOK
  <1>2. Past(row.lease)' /\ PersonOK'
    BY <1>n, <1>g DEF IInv, Past, PersonOK
  <1>3. ASSUME NEW t \in Sessions PROVE SessionOK(t)'
    <2>1. ClockOK(t)'
      <3>1. CASE t # s
        BY <3>1, <1>n, <1>g, <1>x, <1>i DEF ClockOK, Past
      <3>2. CASE t = s
        BY <3>2, <1>n, <1>g, <1>y, <1>i DEF ClockOK, Past
      <3> QED BY <3>1, <3>2
    <2>2. FreshOK(t)'
      <3>1. CASE t # s
        BY <3>1, <1>n, <1>g, <1>x, <1>y, <1>z, <1>i DEF FreshOK, ClockOK, Past
      <3>2. CASE t = s
        BY <3>2, <1>n, <1>g, <1>x, <1>y, <1>z, <1>i DEF FreshOK, ClockOK, Past, IInv
      <3> QED BY <3>1, <3>2
    <2>3. NamesOK(t)'
      BY <1>g, <1>z, <1>i DEF NamesOK
    <2>4. CallOK(sess'[t])
      BY <1>x, <1>y, <1>i DEF CallOK
    <2> QED BY <2>1, <2>2, <2>3, <2>4 DEF SessionOK, CallOK
  <1> QED BY <1>1, <1>2, <1>3 DEF IInv

\* The lease of a claim that is won is on no other claim.
LEMMA ClaimWinsKeeps ==
    ASSUME IInv, NEW s \in Sessions, ClaimWins(s)
    PROVE  IInv'
  <1> DEFINE r == [sess[s] EXCEPT !.pc = "reading",
                        !.mine = [gen |-> gen + 1, lease |-> sess[s].lease]]
  <1>n. /\ Lease \in Nat \ {0} /\ now \in Nat \ {0} /\ gen \in Nat /\ NoLease = 0
        /\ \A t \in Sessions : sess[t].lease \in Nat
    BY Numbers DEF IInv
  <1>g. /\ row' = Claimed(s) /\ gen' = gen + 1 /\ now' = now /\ gen < MaxClaims
        /\ sess[s].pc = "claiming"
    BY DEF ClaimWins
  <1>l. /\ row' \in Rows /\ row'.lease = sess[s].lease
        /\ row'.needsHuman = FALSE /\ row'.executor = Kind[s]
    BY <1>g, RowTypes DEF Claimed, IInv
  <1>m. gen + 1 \in 0 .. MaxClaims
    BY <1>n, <1>g, ClaimsAssumption
  <1>r. r \in SessionStates
    <2>1. sess[s] \in SessionStates
      BY DEF IInv, TypeOK
    <2> DEFINE won == [gen |-> gen + 1, lease |-> sess[s].lease]
    <2>2. won \in [gen : 0 .. MaxClaims, lease : Nat]
      BY <1>n, <1>m
    <2> HIDE DEF won
    <2>3. [sess[s] EXCEPT !.pc = "reading", !.mine = won] \in SessionStates
      BY <2>1, <2>2 DEF SessionStates, Phases
    <2> QED BY <2>3 DEF won
  <1>x. /\ sess'[s] = r /\ sess' \in [Sessions -> SessionStates]
        /\ \A t \in Sessions : t # s => sess'[t] = sess[t]
    <2>1. sess' = [sess EXCEPT ![s] = r]
      BY DEF ClaimWins
    <2> HIDE DEF r
    <2> QED BY <2>1, <1>r, SessSet DEF IInv, Others
  <1>y. /\ sess'[s].pc = "reading" /\ sess'[s].stamp = sess[s].stamp
        /\ sess'[s].lease = sess[s].lease
        /\ sess'[s].seen = sess[s].seen /\ sess'[s].seenGen = sess[s].seenGen
        /\ sess'[s].mine.gen = gen + 1 /\ sess'[s].mine.lease = sess[s].lease
    BY <1>x DEF IInv, TypeOK, SessionStates
  <1> HIDE DEF r
  <1>i. \A t \in Sessions : ClockOK(t) /\ FreshOK(t) /\ NamesOK(t) /\ CallOK(sess[t])
    BY DEF IInv, SessionOK
  <1>1. TypeOK'
    BY <1>g, <1>l, <1>m, <1>x DEF IInv, TypeOK
  <1>2. Past(row.lease)'
    BY <1>g, <1>l, <1>i DEF ClockOK, Past
  <1>3. PersonOK'
    BY <1>g, <1>l, <1>i DEF PersonOK, FreshOK
  <1>4. ASSUME NEW t \in Sessions PROVE SessionOK(t)'
    <2>1. ClockOK(t)'
      <3>1. CASE t # s
        BY <3>1, <1>g, <1>x, <1>i DEF ClockOK, Past
      <3>2. CASE t = s
        BY <3>2, <1>g, <1>y, <1>i DEF ClockOK, Past
      <3> QED BY <3>1, <3>2
    <2>2. FreshOK(t)'
      <3>1. CASE t # s
        BY <3>1, <1>g, <1>l, <1>x, <1>y, <1>i DEF FreshOK
      <3>2. CASE t = s
        BY <3>2, <1>y DEF FreshOK
      <3> QED BY <3>1, <3>2
    <2>3. NamesOK(t)'
      <3>1. CASE t # s
        BY <3>1, <1>g, <1>l, <1>x, <1>i DEF NamesOK, FreshOK
      <3>2. CASE t = s
        BY <3>2, <1>g, <1>l, <1>y, <1>i DEF NamesOK, FreshOK
      <3> QED BY <3>1, <3>2
    <2>4. CallOK(sess'[t])
      BY <1>x, <1>y, <1>i DEF CallOK
    <2> QED BY <2>1, <2>2, <2>3, <2>4 DEF SessionOK, CallOK
  <1> QED BY <1>1, <1>2, <1>3, <1>4 DEF IInv

\* At first nothing is claimed.
LEMMA InitHolds == Init => IInv
  <1> SUFFICES ASSUME Init PROVE IInv
    OBVIOUS
  <1>1. TypeOK
    <2>1. FreeRow \in Rows
      BY DEF FreeRow, Rows, Statuses, NoLease
    <2>2. 0 \in 0 .. MaxClaims /\ now \in 1 .. MaxNow
      BY ClaimsAssumption DEF Init
    <2>3. Session \in SessionStates
      BY <2>1, <2>2 DEF Session, SessionStates, Phases, NoLease
    <2> QED BY <2>1, <2>2, <2>3 DEF Init, TypeOK
  <1>2. now = 1 /\ Lease \in Nat \ {0} /\ row.lease = 0 /\ NoLease = 0
    BY <1>1, Numbers DEF Init, FreeRow
  <1>3. row.needsHuman = FALSE /\ row.executor = "none"
    BY DEF Init, FreeRow
  <1>4. ASSUME NEW s \in Sessions PROVE SessionOK(s)
    <2>1. /\ sess[s].pc = "idle" /\ sess[s].lease = 0 /\ sess[s].stamp = 0
          /\ sess[s].seen.lease = 0 /\ sess[s].mine.lease = 0
      BY DEF Init, Session, FreeRow, NoLease
    <2> QED BY <2>1, <1>2 DEF SessionOK, ClockOK, FreshOK, NamesOK, CallOK, Past
  <1> QED BY <1>1, <1>2, <1>3, <1>4 DEF IInv, Past, PersonOK

\* A step of a session is quiet, or makes or wins a claim.
LEMMA StepKinds ==
    ASSUME NEW s \in Sessions, Step(s)
    PROVE  QuietStep(s) \/ Stamp(s) \/ ClaimWins(s)
  BY DEF Step, CallerStep, LaneLife, QuietStep

\* Each step keeps the invariant.
LEMMA NextKeeps == IInv /\ [Next]_vars => IInv'
  <1> SUFFICES ASSUME IInv, [Next]_vars PROVE IInv'
    OBVIOUS
  <1>1. CASE Tick
    <2>n. /\ Lease \in Nat \ {0} /\ now \in Nat \ {0} /\ row.lease \in Nat
          /\ \A t \in Sessions :
               /\ sess[t].lease \in Nat /\ sess[t].seen.lease \in Nat /\ sess[t].stamp \in Nat
               /\ sess[t].mine.lease \in Nat
      BY Numbers DEF IInv
    <2>g. now < MaxNow /\ now' = now + 1 /\ row' = row /\ sess' = sess /\ gen' = gen
      BY <1>1 DEF Tick
    <2>1. TypeOK'
      BY <2>g, ClaimsAssumption DEF IInv, TypeOK
    <2>2. Past(row.lease)' /\ PersonOK'
      BY <2>n, <2>g DEF IInv, Past, PersonOK
    <2>3. ASSUME NEW s \in Sessions PROVE SessionOK(s)'
      <3>1. ClockOK(s)'
        BY <2>n, <2>g DEF IInv, SessionOK, ClockOK, Past
      <3>2. FreshOK(s)' /\ NamesOK(s)' /\ CallOK(sess'[s])
        BY <2>g DEF IInv, SessionOK, FreshOK, NamesOK
      <3> QED BY <3>1, <3>2 DEF SessionOK, CallOK
    <2> QED BY <2>1, <2>2, <2>3 DEF IInv
  <1>2. ASSUME NEW s \in Sessions, Step(s) PROVE IInv'
    <2>1. CASE QuietStep(s)
      <3>1. Quiet(s)
        BY <2>1, QuietSteps DEF IInv, SessionOK
      <3> QED BY <3>1, <2>1, QuietKeeps, PersonStep DEF IInv
    <2> QED BY <1>2, <2>1, StepKinds, StampKeeps, ClaimWinsKeeps
  <1>3. CASE UNCHANGED vars
    BY <1>3 DEF vars, IInv, TypeOK, Past, PersonOK, SessionOK, ClockOK, FreshOK, NamesOK, CallOK
  <1> QED BY <1>1, <1>2, <1>3 DEF Next

-----------------------------------------------------------------------------
(* The theorems.                                                             *)

\* The invariant holds of every reachable state.
THEOREM ClaimsInvHolds == Spec => []IInv
  BY InitHolds, NextKeeps, PTL DEF Spec

\* The columns, the clock and what the sessions remember keep their types.
THEOREM ClaimsTypeCorrect == Spec => []TypeOK
  <1>1. IInv => TypeOK
    BY DEF IInv
  <1> QED BY <1>1, ClaimsInvHolds, PTL

\* No sweep takes a row out of the hands of a person it waits for.
THEOREM PersonHasNoClock == Spec => []WaitingForAPersonHasNoClock
  <1>1. IInv => WaitingForAPersonHasNoClock
    BY DEF IInv, PersonOK, WaitingForAPersonHasNoClock
  <1> QED BY <1>1, ClaimsInvHolds, PTL

\* A live lease goes only by its holder, a person or the cleanup of dead lanes.
THEOREM LiveLeaseKept == Spec => LiveLeaseIsKept
  <1> DEFINE Kept(s) == \/ row.actor = Actor[s]
                              /\ (ReportWrite(s) \/ LaneExits(s) \/ SettleDeferred(s))
                        \/ VerbWrite(s) \/ CleanupWrite(s)
  <1>1. ASSUME IInv, [Next]_vars, row.lease >= now, row'.lease # row.lease
        PROVE  \E s \in Sessions : Kept(s)
    <2>n. now \in Nat \ {0} /\ row.lease \in Nat /\ NoLease = 0
      BY <1>1, Numbers DEF IInv
    <2>1. PICK s \in Sessions : Step(s)
      BY <1>1 DEF Next, Tick, vars
    <2>t. sess[s].stamp \in Nat /\ sess[s].stamp <= now
      BY <1>1, Numbers DEF IInv, SessionOK, ClockOK
    <2>2. CASE SweepWrite(s)
      <3>1. sess[s].seen.lease = row.lease
        BY <1>1, <2>2 DEF SweepWrite, SameClaim
      <3>2. sess[s].seen.lease < now
        BY <1>1, <2>2 DEF SweepWrite, IInv, SessionOK, ClockOK
      <3> QED BY <1>1, <2>n, <3>1, <3>2
    <2>3. CASE ClaimWins(s)
      BY <1>1, <2>3, <2>n, <2>t DEF ClaimWins, Candidate
    <2>4. CASE ReportWrite(s)
      BY <1>1, <2>4 DEF ReportWrite, ReportLands
    <2>5. CASE LaneExits(s) \/ SettleDeferred(s)
      BY <1>1, <2>5 DEF LaneExits, SettleDeferred, LaneRelease
    <2>6. CASE PatchWrite(s)
      BY <1>1, <2>6 DEF PatchWrite, IInv, TypeOK, Rows
    <2>7. \/ SweepWrite(s) \/ ClaimWins(s) \/ ReportWrite(s) \/ LaneExits(s) \/ SettleDeferred(s)
          \/ PatchWrite(s) \/ VerbWrite(s) \/ CleanupWrite(s)
      BY <1>1, <2>1 DEF Step, CallerStep, LaneLife, BeginSweep, SweepFails, Stamp, ClaimLoses, Refused, ReadBack,
         ReportRead, VerbRead, PatchRead, CallEnds, LaneTransfers, Close, LaneDies, CleanupRead
    <2> QED BY <2>2, <2>3, <2>4, <2>5, <2>6, <2>7
  <1>2. IInv /\ [Next]_vars =>
          [row.lease >= now /\ row'.lease # row.lease => \E s \in Sessions : Kept(s)]_vars
    BY <1>1
  <1> QED BY <1>2, ClaimsInvHolds, PTL DEF Spec, LiveLeaseIsKept

\* A write that changes a leased row changes the claim that its call read.
THEOREM WritesHitTheirClaim == Spec => WritesHitTheClaimTheyRead
  <1> DEFINE Hits(s) == /\ SweepWrite(s) \/ ReportWrite(s) \/ VerbWrite(s)
                        /\ row' # row
                        /\ sess[s].seen.lease # NoLease
                        => sess[s].seenGen = gen
  <1>1. IInv => \A s \in Sessions : Hits(s)
    BY DEF IInv, SessionOK, NamesOK, SweepWrite, ReportWrite, ReportLands, VerbWrite, VerbLands,
           SameClaim
  <1>2. IInv /\ [Next]_vars => [\A s \in Sessions : Hits(s)]_vars
    BY <1>1
  <1> QED BY <1>2, ClaimsInvHolds, PTL DEF Spec, WritesHitTheClaimTheyRead

\* A report with its own claim's fence never changes a later claim.
THEOREM FencedReportsOwnClaim == Spec => FencedReportIsForItsOwnClaim
  <1> DEFINE Own(s) == /\ ReportWrite(s) /\ row' # row
                       /\ sess[s].presented # NoLease
                       /\ sess[s].presented = sess[s].mine.lease
                       => gen = sess[s].mine.gen
  <1>1. IInv => \A s \in Sessions : Own(s)
    BY DEF IInv, SessionOK, NamesOK, CallOK, ReportWrite, ReportLands, SameClaim
  <1>2. IInv /\ [Next]_vars => [\A s \in Sessions : Own(s)]_vars
    BY <1>1
  <1> QED BY <1>2, ClaimsInvHolds, PTL DEF Spec, FencedReportIsForItsOwnClaim
=============================================================================
