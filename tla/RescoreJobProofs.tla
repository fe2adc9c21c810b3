--------------------------- MODULE RescoreJobProofs ---------------------------
(***************************************************************************)
(* Theorems about RescoreJob, for every set of jobs, every opening balance *)
(* and every set of faults, and for attempts without bound.                *)
(***************************************************************************)
EXTENDS RescoreJob, TLAPS, WellFoundedInduction, FiniteSetTheorems

\* The keys on the ledger name attempts that were made, and a run knows only keys
\* that are there.
KeysOK(j) ==
    /\ DebitsOf(j) \subseteq {j} \X (1 .. attempts[j])
    /\ run[j].key # NoKey => <<j, run[j].key>> \in DebitsOf(j)
    /\ flag[j] => DebitsOf(j) # {}

\* What a run has decided by each phase.  A run that has yet to reserve is the
\* first to use its attempt's key.
PhaseOK(j) ==
    /\ run[j].at \in {"start", "reserve"} =>
        /\ ~run[j].charged /\ run[j].key = NoKey
        /\ attempts[j] > 0 /\ <<j, attempts[j]>> \notin DebitsOf(j)
    /\ run[j].at = "mark" => run[j].key # NoKey
    /\ run[j].charged /\ run[j].key = NoKey => j \in blind
    /\ run[j].refunded => run[j].at = "settle"
    /\ run[j].at \in {"refund", "settle"} => run[j].outcome \in Life!Settled

\* A run reserves only where its job holds nothing, and until it ends it holds
\* what it reserved or carried.
CreditOK(j) ==
    j \notin blind =>
        /\ \A k, m \in Held(j) : k = m
        /\ run[j].at = "reserve" => Held(j) = {}
        /\ run[j].charged /\ run[j].at \in {"mark", "scan", "persist", "refund"} =>
            <<j, run[j].key>> \in Held(j)
        /\ run[j].at = "settle" /\ run[j].refunded => Held(j) = {}

IInv ==
    /\ JobTypeOK
    /\ ReturnsOnlyWhatWasTaken
    /\ \A j \in Jobs : KeysOK(j) /\ PhaseOK(j) /\ CreditOK(j)

-----------------------------------------------------------------------------
(* The newest held debit.                                                    *)

\* A nonempty set of naturals has a least element.
LEMMA Smallest ==
    ASSUME NEW T, T \subseteq Nat, T # {}
    PROVE  \E x \in T : \A y \in T : x <= y
  <1> DEFINE Less == {ss \in Nat \X Nat : ss[1] < ss[2]}
  <1>1. IsWellFoundedOn(Less, Nat)
    BY NatLessThanWellFounded DEF OpToRel
  <1>2. PICK x \in T : \A y \in T : <<y, x>> \notin Less
    <2> HIDE DEF Less
    <2> QED BY <1>1, WFMin
  <1>3. \A y \in T : ~(y < x)
    BY <1>2
  <1> QED BY <1>3

\* Newest chooses a held debit wherever one is held, however many there are.
LEMMA NewestIsHeld ==
    ASSUME JobTypeOK, NEW j \in Jobs, KeysOK(j), Held(j) # {}
    PROVE  Newest(j) \in Held(j) /\ Newest(j)[1] = j /\ Newest(j)[2] \in 1 .. attempts[j]
  <1> DEFINE T == {attempts[j] - k[2] : k \in Held(j)}
  <1>1. attempts[j] \in Nat /\ Held(j) \subseteq {j} \X (1 .. attempts[j])
    BY DEF JobTypeOK, KeysOK, Held
  <1>2. T \subseteq Nat /\ T # {}
    BY <1>1
  <1>3. PICK x \in T : \A y \in T : x <= y
    BY <1>2, Smallest
  <1>4. PICK k \in Held(j) : x = attempts[j] - k[2]
    BY <1>3
  <1>5. \A m \in Held(j) : m[2] <= k[2]
    <2> SUFFICES ASSUME NEW m \in Held(j) PROVE m[2] <= k[2]
      OBVIOUS
    <2>1. x <= attempts[j] - m[2]
      BY <1>3
    <2> QED BY <2>1, <1>1, <1>4
  <1>6. Newest(j) \in Held(j)
    BY <1>4, <1>5 DEF Newest
  <1> QED BY <1>1, <1>6

-----------------------------------------------------------------------------
(* Type correctness.                                                         *)

\* What the queue's steps write has the columns' types.
LEMMA QueueType ==
    ASSUME JobTypeOK, NEW j \in Jobs,
           \/ Life!Enqueue(j) \/ Life!Claim(j) \/ Life!Return(j) \/ Life!Drop(j)
           \/ \E outcome \in Life!Settled : Life!Settle(j, outcome)
    PROVE  /\ state' \in [Jobs -> {"absent", "queued", "claimed"} \cup Life!Settled]
           /\ attempts' \in [Jobs -> Nat]
           /\ live' \subseteq Jobs
  BY DEF JobTypeOK, Life!Enqueue, Life!Claim, Life!Return, Life!Drop, Life!Settle, Life!Settled

\* The type of a run, from TypeOK.
Runs == [at : Phases, charged : BOOLEAN, key : Nat, refunded : BOOLEAN,
         outcome : Life!Settled \cup {"none"}]

\* The other runs are as they were.
Others(j) == \A i \in Jobs \ {j} : run'[i] = run[i]

\* What a step writes to one run.
LEMMA RunSet ==
    ASSUME JobTypeOK, NEW j \in Jobs, NEW r \in Runs, run' = [run EXCEPT ![j] = r]
    PROVE  run' \in [Jobs -> Runs] /\ Others(j) /\ run'[j] = r
  BY DEF JobTypeOK, Runs, Others

\* A run that goes to another phase changes nothing else of its own or another's.
LEMMA RunGoes ==
    ASSUME JobTypeOK, NEW j \in Jobs, NEW from, NEW to \in Phases, Goes(j, from, to)
    PROVE  /\ run' \in [Jobs -> Runs] /\ Others(j)
           /\ run[j].at = from /\ run'[j] = [run[j] EXCEPT !.at = to]
  BY DEF JobTypeOK, Goes, Runs, Others

\* A run that ends has its outcome besides.
LEMMA RunEnds ==
    ASSUME JobTypeOK, NEW j \in Jobs, NEW from, NEW outcome \in Life!Settled,
           Ends(j, from, outcome)
    PROVE  /\ run' \in [Jobs -> Runs] /\ Others(j)
           /\ run[j].at = from
           /\ run'[j] = [run[j] EXCEPT !.at = "settle", !.outcome = outcome]
  BY DEF JobTypeOK, Ends, Runs, Others, Phases

\* No step takes a variable out of its type; a run that settles has an outcome.
LEMMA TypeStep == ASSUME IInv, [JobNext]_jobVars PROVE JobTypeOK'
  <1> USE DEF JobTypeOK, Phases, NoRun, NoKey, queue, trail, history
  <1>t. JobTypeOK
    BY DEF IInv
  <1>1. ASSUME NEW j \in Jobs, \/ Enqueue(j) \/ Claim(j) \/ Yield(j) \/ Drop(j) \/ Settle(j)
        PROVE  JobTypeOK'
    <2>1. /\ state' \in [Jobs -> {"absent", "queued", "claimed"} \cup Life!Settled]
          /\ attempts' \in [Jobs -> Nat]
          /\ live' \subseteq Jobs
      <3>1. Settle(j) => run[j].outcome \in Life!Settled
        BY DEF IInv, PhaseOK, Settle
      <3> QED BY <1>1, <3>1, QueueType DEF IInv, Enqueue, Claim, Yield, Drop, Settle, Life!Settled
    <2>2. run' \in [Jobs -> Runs]
      <3>1. NoRun \in Runs /\ [NoRun EXCEPT !.at = "start"] \in Runs
        BY DEF Runs
      <3>2. CASE Enqueue(j)
        BY <1>t, <3>2 DEF Enqueue, Runs
      <3> HIDE DEF NoRun
      <3>3. CASE Claim(j)
        BY <1>t, <3>1, <3>3, RunSet DEF Claim
      <3>4. CASE Yield(j) \/ Drop(j) \/ Settle(j)
        BY <1>t, <3>1, <3>4, RunSet DEF Yield, Drop, Settle
      <3> QED BY <1>1, <3>2, <3>3, <3>4
    <2>3. flag' \in [Jobs -> BOOLEAN]
      BY <1>1, <1>t DEF Enqueue, Claim, Yield, Drop, Settle
    <2> QED BY <1>1, <1>t, <2>1, <2>2, <2>3 DEF Enqueue, Claim, Yield, Drop, Settle, Runs
  <1>2. ASSUME NEW S \in SUBSET Jobs, Reap(S) PROVE JobTypeOK'
    BY <1>2 DEF IInv, Reap, Life!Reap, Life!Settled
  <1>3. ASSUME NEW j \in Jobs, Preparing(j) PROVE JobTypeOK'
    <2>1. CASE SkipEarly(j) \/ Unmetered(j) \/ ReserveFree(j) \/ ReserveRefused(j)
      <3>1. run' \in [Jobs -> Runs]
        BY <2>1, <1>t, RunGoes, RunEnds
           DEF SkipEarly, Unmetered, ReserveFree, ReserveRefused, Life!Settled
      <3> QED BY <1>t, <2>1, <3>1
              DEF Runs, SkipEarly, Unmetered, ReserveFree, ReserveRefused
    <2>2. ASSUME NEW reads \in BOOLEAN, Carry(j, reads) PROVE JobTypeOK'
      <3>1. LedgerHolds(j, reads) => Newest(j)[2] \in Nat
        BY NewestIsHeld DEF IInv, LedgerHolds
      <3>2. run' \in [Jobs -> Runs]
        <4>1. /\ LedgerHolds(j, reads) =>
                   [run[j] EXCEPT !.at = "scan", !.charged = TRUE, !.key = Newest(j)[2]] \in Runs
              /\ [run[j] EXCEPT !.at = "scan", !.charged = TRUE] \in Runs
              /\ [run[j] EXCEPT !.at = "reserve"] \in Runs
          BY <3>1, <1>t DEF Runs
        <4> QED BY <2>2, <4>1, <1>t, RunSet DEF Carry
      <3> QED BY <1>t, <2>2, <3>2 DEF Carry, Runs
    <2>3. ASSUME NEW learns \in BOOLEAN, ReserveDebits(j, learns) PROVE JobTypeOK'
      <3>1. run' \in [Jobs -> Runs]
        <4>1. CASE learns
          <5>1. [run[j] EXCEPT !.at = "mark", !.charged = TRUE, !.key = ReservationKey(j)[2]]
                   \in Runs
            <6>1. ReservationKey(j)[2] = attempts[j] /\ attempts[j] \in Nat /\ run[j] \in Runs
              BY <1>t DEF Runs, ReservationKey
            <6> QED BY <6>1 DEF Runs
          <5> QED BY <4>1, <5>1, <2>3, <1>t, RunSet DEF ReserveDebits
        <4>2. CASE ~learns
          BY <4>2, <2>3, <1>t, RunEnds DEF ReserveDebits, Life!Settled
        <4> QED BY <4>1, <4>2
      <3> QED BY <1>t, <2>3, <3>1 DEF ReserveDebits, ReservationKey, Runs
    <2>4. ASSUME NEW written \in BOOLEAN, Mark(j, written) PROVE JobTypeOK'
      <3>1. run' \in [Jobs -> Runs]
        BY <2>4, <1>t, RunGoes DEF Mark
      <3> QED BY <1>t, <2>4, <3>1 DEF Mark, Runs
    <2> QED BY <1>3, <2>1, <2>2, <2>3, <2>4 DEF Preparing
  <1>4. ASSUME NEW j \in Jobs, After(j) PROVE JobTypeOK'
    <2>1. ASSUME NEW outcome \in Life!Settled, ScanFails(j, outcome) PROVE JobTypeOK'
      BY <1>t, <2>1 DEF ScanFails
    <2>2. CASE ScanReturns(j) \/ RefundsNothing(j) \/ RefundFails(j)
      <3>1. run' \in [Jobs -> Runs]
        BY <2>2, <1>t, RunGoes DEF ScanReturns, RefundsNothing, RefundFails
      <3> QED BY <1>t, <2>2, <3>1 DEF ScanReturns, RefundsNothing, RefundFails, Runs
    <2>3. CASE PersistFails(j) \/ PersistNew(j)
      <3>1. run' \in [Jobs -> Runs]
        BY <2>3, <1>t, RunEnds DEF PersistFails, PersistNew, Life!Settled
      <3> QED BY <1>t, <2>3, <3>1 DEF PersistFails, PersistNew, Runs
    <2>4. CASE PersistDeduped(j)
      BY <1>t, <2>4 DEF PersistDeduped, Life!Settled
    <2>5. ASSUME NEW learns \in BOOLEAN, RefundLands(j, learns) PROVE JobTypeOK'
      <3>1. run' \in [Jobs -> Runs]
        BY <2>5, <1>t DEF RefundLands, Runs
      <3> QED BY <1>t, <2>5, <3>1 DEF RefundLands, Runs
    <2> QED BY <1>1, <1>4, <2>1, <2>2, <2>3, <2>4, <2>5 DEF After
  <1>5. CASE UNCHANGED jobVars
    BY <1>t, <1>5 DEF jobVars
  <1> QED BY <1>1, <1>2, <1>3, <1>4, <1>5 DEF JobNext
-----------------------------------------------------------------------------
(* The credits.                                                              *)

\* The ledger rows of the other jobs are as they were.
OthersKeys(j) ==
    \A i \in Jobs \ {j} : DebitsOf(i)' = DebitsOf(i) /\ Held(i)' = Held(i)

\* A step of one job: the invariant of the others is not disturbed.
LEMMA OneJobMoves ==
    ASSUME IInv, NEW j \in Jobs, JobTypeOK', ReturnsOnlyWhatWasTaken',
           Others(j), OthersKeys(j),
           \A i \in Jobs \ {j} : attempts'[i] = attempts[i] /\ flag'[i] = flag[i],
           \A i \in Jobs \ {j} : i \in blind' <=> i \in blind,
           KeysOK(j)', PhaseOK(j)', CreditOK(j)'
    PROVE  IInv'
  <1>1. ASSUME NEW i \in Jobs \ {j} PROVE (KeysOK(i) /\ PhaseOK(i) /\ CreditOK(i))'
    <2>1. KeysOK(i)'
      BY DEF IInv, KeysOK, Others, OthersKeys
    <2>2. PhaseOK(i)'
      BY DEF IInv, PhaseOK, Others, OthersKeys
    <2>3. CreditOK(i)'
      BY DEF IInv, CreditOK, Others, OthersKeys
    <2> QED BY <2>1, <2>2, <2>3
  <1> QED BY <1>1 DEF IInv

\* The ledger unchanged, so are each job's debits.
LEMMA LedgerKept ==
    ASSUME UNCHANGED trail
    PROVE  /\ \A i : DebitsOf(i)' = DebitsOf(i) /\ Held(i)' = Held(i)
           /\ \A i : OthersKeys(i)
           /\ ReturnsOnlyWhatWasTaken /\ blind \subseteq blind' => ReturnsOnlyWhatWasTaken'
  BY DEF trail, DebitsOf, Held, OthersKeys, ReturnsOnlyWhatWasTaken

\* Nothing is charged before the first job.
LEMMA InitInv == JobInit => IInv
  <1> SUFFICES ASSUME JobInit PROVE IInv
    OBVIOUS
  <1>1. JobTypeOK
    BY DEF JobInit, JobTypeOK, Life!Init, NoRun, NoKey, Phases
  <1>2. ReturnsOnlyWhatWasTaken
    BY DEF JobInit, ReturnsOnlyWhatWasTaken
  <1>3. ASSUME NEW j \in Jobs PROVE KeysOK(j) /\ PhaseOK(j) /\ CreditOK(j)
    BY DEF JobInit, KeysOK, PhaseOK, CreditOK, DebitsOf, Held, NoRun
  <1> QED BY <1>1, <1>2, <1>3 DEF IInv

\* The queue's own steps: they start or end a run, and touch no credit.
LEMMA QueueStep ==
    ASSUME IInv, JobTypeOK', NEW j \in Jobs,
           Enqueue(j) \/ Claim(j) \/ Yield(j) \/ Drop(j) \/ Settle(j)
    PROVE  IInv'
  <1>1. /\ UNCHANGED trail /\ UNCHANGED blind
        /\ \A i \in Jobs \ {j} : attempts'[i] = attempts[i] /\ flag'[i] = flag[i]
    BY DEF Enqueue, Claim, Yield, Drop, Settle, Life!Enqueue, Life!Claim, Life!Return,
           Life!Drop, Life!Settle, history, queue, IInv, JobTypeOK
  <1>2. Others(j)
    BY DEF Enqueue, Claim, Yield, Drop, Settle, Others, IInv, JobTypeOK
  <1>3. (flag'[j] => flag[j]) /\ attempts[j] \in Nat
    BY DEF Enqueue, Claim, Yield, Drop, Settle, IInv, JobTypeOK
  <1>4. CASE Enqueue(j)
    <2>1. run' = run /\ attempts' = attempts
      BY <1>4 DEF Enqueue, Life!Enqueue
    <2>2. (KeysOK(j) /\ PhaseOK(j) /\ CreditOK(j))'
      BY <1>1, <1>3, <2>1, LedgerKept DEF IInv, KeysOK, PhaseOK, CreditOK
    <2> QED BY <1>1, <1>2, <2>2, LedgerKept, OneJobMoves DEF IInv
  <1>5. CASE Claim(j)
    <2>1. attempts'[j] = attempts[j] + 1 /\ run'[j] = [NoRun EXCEPT !.at = "start"]
      BY <1>5 DEF Claim, Life!Claim, IInv, JobTypeOK
    <2>a. /\ run'[j].at = "start" /\ ~run'[j].charged
          /\ run'[j].key = NoKey /\ ~run'[j].refunded
      BY <2>1 DEF NoRun
    <2>b. /\ DebitsOf(j)' = DebitsOf(j)
          /\ DebitsOf(j) \subseteq {j} \X (1 .. attempts[j])
      BY <1>1, LedgerKept DEF IInv, KeysOK
    <2>c. /\ attempts'[j] > 0
          /\ 1 .. attempts[j] \subseteq 1 .. attempts'[j] /\ attempts'[j] \notin 1 .. attempts[j]
      BY <1>3, <2>1
    <2>2. KeysOK(j)'
      <3>1. DebitsOf(j)' \subseteq {j} \X (1 .. attempts'[j])
        BY <2>b, <2>c
      <3>2. flag'[j] => DebitsOf(j)' # {}
        BY <1>3, <2>b DEF IInv, KeysOK
      <3> QED BY <2>a, <3>1, <3>2 DEF KeysOK
    <2>3. PhaseOK(j)'
      <3>1. <<j, attempts'[j]>> \notin DebitsOf(j)'
        BY <2>b, <2>c
      <3> QED BY <2>a, <2>c, <3>1 DEF PhaseOK
    <2>4. CreditOK(j)'
      BY <1>1, <2>a, LedgerKept DEF IInv, CreditOK
    <2> QED BY <1>1, <1>2, <2>2, <2>3, <2>4, LedgerKept, OneJobMoves DEF IInv
  <1>6. CASE Yield(j) \/ Drop(j) \/ Settle(j)
    <2>1. attempts'[j] = attempts[j] /\ run'[j] = NoRun
      BY <1>6 DEF Yield, Drop, Settle, Life!Return, Life!Drop, Life!Settle, IInv, JobTypeOK
    <2>a. /\ run'[j].at = "none" /\ ~run'[j].charged
          /\ run'[j].key = NoKey /\ ~run'[j].refunded
      BY <2>1 DEF NoRun
    <2>2. KeysOK(j)'
      BY <1>1, <1>3, <2>1, <2>a, LedgerKept DEF IInv, KeysOK
    <2>3. PhaseOK(j)' /\ CreditOK(j)'
      BY <1>1, <2>a, LedgerKept DEF IInv, PhaseOK, CreditOK
    <2> QED BY <1>1, <1>2, <2>2, <2>3, LedgerKept, OneJobMoves DEF IInv
  <1> QED BY <1>4, <1>5, <1>6

\* A reap leaves the credits of the rows it requeues or fails as they are.
LEMMA ReapStep == ASSUME IInv, JobTypeOK', NEW S \in SUBSET Jobs, Reap(S) PROVE IInv'
  <1>1. UNCHANGED <<attempts, flag, run, blind>> /\ UNCHANGED trail
    BY DEF Reap, Life!Reap, history
  <1>2. \A j \in Jobs : (KeysOK(j) /\ PhaseOK(j) /\ CreditOK(j))'
    BY <1>1, LedgerKept DEF IInv, KeysOK, PhaseOK, CreditOK
  <1> QED BY <1>1, <1>2, LedgerKept DEF IInv

\* A step of the run of j that touches neither ledger nor queue: what is left to
\* show is that its new phase is justified.
LEMMA RunStep ==
    ASSUME IInv, JobTypeOK', NEW j \in Jobs, Others(j),
           UNCHANGED trail, attempts' = attempts,
           \A i \in Jobs \ {j} : flag'[i] = flag[i] /\ (i \in blind' <=> i \in blind),
           blind \subseteq blind',
           flag'[j] => flag[j] \/ run[j].at = "mark",
           run'[j].key = run[j].key \/ <<j, run'[j].key>> \in DebitsOf(j),
           PhaseOK(j)', CreditOK(j)'
    PROVE  IInv'
  <1>1. KeysOK(j)'
    BY LedgerKept DEF IInv, KeysOK, PhaseOK
  <1> QED BY <1>1, LedgerKept, OneJobMoves DEF IInv

\* A run that goes on, or ends, with what it has.
LEMMA PlainStep ==
    ASSUME IInv, JobTypeOK', NEW j \in Jobs, Others(j),
           UNCHANGED trail, UNCHANGED <<attempts, blind>>,
           \A i \in Jobs \ {j} : flag'[i] = flag[i],
           flag'[j] => flag[j] \/ run[j].at = "mark",
           run[j].at \in {"start", "reserve", "mark", "scan", "persist", "refund"},
           run'[j].at \in {"scan", "persist", "refund", "settle"},
           run'[j].charged = run[j].charged, run'[j].key = run[j].key,
           run'[j].refunded = run[j].refunded,
           run'[j].at \in {"refund", "settle"} => run'[j].outcome \in Life!Settled
    PROVE  IInv'
  <1>1. PhaseOK(j)'
    BY DEF IInv, PhaseOK
  <1>2. CreditOK(j)'
    <2>1. Held(j)' = Held(j) /\ (j \in blind' <=> j \in blind)
      BY LedgerKept
    <2>2. CreditOK(j) /\ PhaseOK(j)
      BY DEF IInv
    <2> QED BY <2>1, <2>2 DEF PhaseOK, CreditOK
  <1> QED BY <1>1, <1>2, RunStep

\* Up to the scan: a run reserves only if its job holds nothing, else it carries
\* what is held.
LEMMA BeforeStep == ASSUME IInv, JobTypeOK', NEW j \in Jobs, Preparing(j) PROVE IInv'
  <1>t. JobTypeOK
    BY DEF IInv
  <1>1. CASE SkipEarly(j) \/ ReserveRefused(j)
    <2>1. "skipped" \in Life!Settled
      BY DEF Life!Settled
    <2>2. /\ run[j].at \in {"start", "reserve"} /\ Others(j)
          /\ run'[j] = [run[j] EXCEPT !.at = "settle", !.outcome = "skipped"]
          /\ run[j] \in Runs
      BY <1>1, <1>t, <2>1, RunEnds DEF SkipEarly, ReserveRefused, JobTypeOK, Runs
    <2>3. /\ run'[j].at = "settle" /\ run'[j].outcome = "skipped"
          /\ run'[j].charged = run[j].charged /\ run'[j].key = run[j].key
          /\ run'[j].refunded = run[j].refunded
      BY <2>2 DEF Runs
    <2>4. UNCHANGED trail /\ UNCHANGED <<attempts, blind, flag>>
      BY <1>1 DEF SkipEarly, ReserveRefused, queue, history
    <2> QED BY <2>1, <2>2, <2>3, <2>4, PlainStep
  <1>2. CASE \/ Unmetered(j) \/ ReserveFree(j)
             \/ \E written \in BOOLEAN : Mark(j, written)
    <2>1. /\ run[j].at \in {"start", "reserve", "mark"} /\ Others(j)
          /\ run'[j] = [run[j] EXCEPT !.at = "scan"]
          /\ run[j] \in Runs
      BY <1>2, <1>t, RunGoes DEF Unmetered, ReserveFree, Mark, JobTypeOK, Runs, Phases
    <2>2. /\ run'[j].at = "scan"
          /\ run'[j].charged = run[j].charged /\ run'[j].key = run[j].key
          /\ run'[j].refunded = run[j].refunded
      BY <2>1 DEF Runs
    <2>3. UNCHANGED trail /\ UNCHANGED <<attempts, blind>>
      BY <1>2 DEF Unmetered, ReserveFree, Mark, queue, history
    <2>4. /\ \A i \in Jobs \ {j} : flag'[i] = flag[i]
          /\ flag'[j] => flag[j] \/ run[j].at = "mark"
      BY <1>2, <1>t DEF Unmetered, ReserveFree, Mark, Goes, JobTypeOK
    <2> QED BY <2>1, <2>2, <2>3, <2>4, PlainStep
  <1>3. ASSUME NEW reads \in BOOLEAN, Carry(j, reads) PROVE IInv'
    <2>1. /\ UNCHANGED trail /\ UNCHANGED <<attempts, flag>>
          /\ run[j].at = "start" /\ run[j] \in Runs
          /\ ~run[j].charged /\ run[j].key = NoKey /\ ~run[j].refunded
          /\ \A i \in Jobs \ {j} : i \in blind' <=> i \in blind
          /\ blind \subseteq blind' /\ (~reads => j \in blind')
      BY <1>3, <1>t DEF Carry, queue, IInv, PhaseOK, JobTypeOK, Runs
    <2>2. Held(j) \subseteq DebitsOf(j) /\ Held(j)' = Held(j)
      BY <2>1, LedgerKept DEF Held
    <2>3. CASE LedgerHolds(j, reads)
      <3>1. /\ Newest(j) \in Held(j) /\ Newest(j) = <<j, Newest(j)[2]>>
            /\ Newest(j)[2] \in Nat \ {NoKey}
        <4>1. Newest(j) \in Held(j) /\ Newest(j)[1] = j /\ Newest(j)[2] \in 1 .. attempts[j]
          BY <1>t, <2>3, NewestIsHeld DEF IInv, LedgerHolds
        <4>2. Newest(j) \in {j} \X (1 .. attempts[j])
          BY <4>1, <2>2 DEF IInv, KeysOK
        <4> QED BY <1>t, <4>1, <4>2 DEF JobTypeOK, NoKey
      <3>2. LET r == [run[j] EXCEPT !.at = "scan", !.charged = TRUE, !.key = Newest(j)[2]]
            IN  r \in Runs /\ run' = [run EXCEPT ![j] = r]
        BY <1>3, <2>1, <2>3, <3>1 DEF Carry, Runs, Phases
      <3>3. /\ Others(j) /\ run'[j].at = "scan" /\ run'[j].charged /\ ~run'[j].refunded
            /\ run'[j].key = Newest(j)[2]
        BY <1>t, <2>1, <3>2, RunSet DEF Runs
      <3>4. PhaseOK(j)'
        BY <3>1, <3>3 DEF PhaseOK
      <3>5. CreditOK(j)'
        <4>1. <<j, run'[j].key>> \in Held(j)'
          BY <2>2, <3>1, <3>3
        <4>2. j \notin blind' => \A k, m \in Held(j)' : k = m
          BY <2>1, <2>2 DEF CreditOK, IInv
        <4> QED BY <3>3, <4>1, <4>2 DEF CreditOK
      <3> QED BY <2>1, <2>2, <3>1, <3>3, <3>4, <3>5, RunStep
    <2>4. CASE ~LedgerHolds(j, reads) /\ FlagHolds(j, reads)
      <3>1. j \in blind'
        BY <2>1, <2>4 DEF FlagHolds, IInv, KeysOK
      <3>2. LET r == [run[j] EXCEPT !.at = "scan", !.charged = TRUE]
            IN  r \in Runs /\ run' = [run EXCEPT ![j] = r]
        BY <1>3, <2>1, <2>4 DEF Carry, Runs, Phases
      <3>3. /\ Others(j) /\ run'[j].at = "scan" /\ ~run'[j].refunded
            /\ run'[j].key = run[j].key
        BY <1>t, <2>1, <3>2, RunSet DEF Runs
      <3>4. PhaseOK(j)' /\ CreditOK(j)'
        BY <3>1, <3>3 DEF PhaseOK, CreditOK
      <3> QED BY <2>1, <3>3, <3>4, RunStep
    <2>5. CASE ~LedgerHolds(j, reads) /\ ~FlagHolds(j, reads)
      <3>1. LET r == [run[j] EXCEPT !.at = "reserve"]
            IN  r \in Runs /\ run' = [run EXCEPT ![j] = r]
        BY <1>3, <2>1, <2>5 DEF Carry, Runs, Phases
      <3>2. /\ Others(j) /\ run'[j].at = "reserve"
            /\ ~run'[j].charged /\ ~run'[j].refunded /\ run'[j].key = run[j].key
        BY <1>t, <2>1, <3>1, RunSet DEF Runs
      <3>3. PhaseOK(j)'
        BY <2>1, <3>2, LedgerKept DEF PhaseOK, IInv
      <3>4. CreditOK(j)'
        BY <2>1, <2>2, <2>5, <3>2 DEF LedgerHolds, CreditOK, IInv
      <3> QED BY <2>1, <3>2, <3>3, <3>4, RunStep
    <2> QED BY <2>3, <2>4, <2>5
  <1>4. ASSUME NEW learns \in BOOLEAN, ReserveDebits(j, learns) PROVE IInv'
    <2> DEFINE new == <<j, attempts[j]>>
    <2>1. /\ UNCHANGED <<refunds, keyless, attempts, flag, blind>>
          /\ debits' = debits \cup {new}
          /\ run[j].at = "reserve" /\ run[j] \in Runs
      BY <1>4, <1>t DEF ReserveDebits, Ends, ReservationKey, queue, history, JobTypeOK, Runs
    <2>2. /\ ~run[j].charged /\ run[j].key = NoKey /\ ~run[j].refunded
          /\ attempts[j] \in Nat /\ attempts[j] > 0 /\ new \notin DebitsOf(j)
      BY <1>t, <2>1 DEF IInv, PhaseOK, JobTypeOK
    <2>3. new \notin debits /\ new \notin refunds /\ ReturnsOnlyWhatWasTaken'
      BY <2>1, <2>2 DEF IInv, ReturnsOnlyWhatWasTaken, DebitsOf
    <2>4. /\ DebitsOf(j)' = DebitsOf(j) \cup {new} /\ Held(j)' = Held(j) \cup {new}
          /\ OthersKeys(j)
      BY <2>1, <2>3 DEF DebitsOf, Held, OthersKeys
    <2>5. DebitsOf(j)' \subseteq {j} \X (1 .. attempts'[j])
      <3>1. new \in {j} \X (1 .. attempts[j])
        BY <2>2
      <3> QED BY <2>1, <2>4, <3>1 DEF IInv, KeysOK
    <2>6. j \notin blind => Held(j)' = {new}
      BY <2>1, <2>4 DEF IInv, CreditOK
    <2>7. CASE learns
      <3>1. LET r == [run[j] EXCEPT !.at = "mark", !.charged = TRUE, !.key = attempts[j]]
            IN  r \in Runs /\ run' = [run EXCEPT ![j] = r]
        BY <1>4, <2>1, <2>2, <2>7 DEF ReserveDebits, ReservationKey, Runs, Phases
      <3>2. /\ Others(j) /\ run'[j].at = "mark" /\ ~run'[j].refunded
            /\ run'[j].key = attempts[j]
        BY <1>t, <2>1, <2>2, <3>1, RunSet DEF Runs
      <3>3. KeysOK(j)'
        BY <2>4, <2>5, <3>2 DEF KeysOK
      <3>4. PhaseOK(j)'
        BY <2>2, <3>2 DEF PhaseOK, NoKey
      <3>5. CreditOK(j)'
        BY <2>1, <2>6, <3>2 DEF CreditOK
      <3> QED BY <2>1, <2>3, <2>4, <3>2, <3>3, <3>4, <3>5, OneJobMoves
    <2>8. CASE ~learns
      <3>1. /\ Others(j) /\ "skipped" \in Life!Settled
            /\ run'[j] = [run[j] EXCEPT !.at = "settle", !.outcome = "skipped"]
        BY <1>4, <1>t, <2>8, RunEnds DEF ReserveDebits, Life!Settled
      <3>2. /\ run'[j].at = "settle" /\ ~run'[j].refunded /\ ~run'[j].charged
            /\ run'[j].key = NoKey /\ run'[j].outcome = "skipped"
        BY <2>1, <2>2, <3>1 DEF Runs
      <3>3. KeysOK(j)'
        BY <2>4, <2>5, <3>2 DEF KeysOK
      <3>4. PhaseOK(j)'
        BY <3>1, <3>2 DEF PhaseOK
      <3>5. CreditOK(j)'
        BY <2>1, <2>6, <3>2 DEF CreditOK
      <3> QED BY <2>1, <2>3, <2>4, <3>1, <3>3, <3>4, <3>5, OneJobMoves
    <2> QED BY <2>7, <2>8
  <1> QED BY <1>1, <1>2, <1>3, <1>4 DEF Preparing

\* A refund returns the one credit that the job holds.
LEMMA RefundStep ==
    ASSUME IInv, JobTypeOK', NEW j \in Jobs, NEW learns \in BOOLEAN, RefundLands(j, learns)
    PROVE  IInv'
  <1> DEFINE key == <<j, run[j].key>>
  <1>t. JobTypeOK
    BY DEF IInv
  <1>1. /\ UNCHANGED <<attempts, flag, blind, debits>>
        /\ run[j].at = "refund" /\ run[j].charged /\ run[j] \in Runs
        /\ run[j].outcome \in Life!Settled
    BY <1>t DEF RefundLands, Owed, queue, history, JobTypeOK, Runs, IInv, PhaseOK
  <1>2. LET r == [run[j] EXCEPT !.at = "settle", !.refunded = learns]
        IN  r \in Runs /\ run' = [run EXCEPT ![j] = r]
    BY <1>1 DEF RefundLands, Runs, Phases
  <1>3. /\ Others(j) /\ run'[j].at = "settle" /\ run'[j].key = run[j].key
        /\ run'[j].charged = run[j].charged /\ run'[j].outcome = run[j].outcome
    BY <1>t, <1>1, <1>2, RunSet DEF Runs
  <1>4. PhaseOK(j)'
    BY <1>1, <1>3 DEF PhaseOK, IInv
  <1>5. CASE run[j].key # NoKey
    <2>1. refunds' = refunds \cup {key} /\ UNCHANGED keyless /\ key \in DebitsOf(j)
      BY <1>5 DEF RefundLands, IInv, KeysOK
    <2>2. ReturnsOnlyWhatWasTaken'
      BY <1>1, <2>1 DEF IInv, ReturnsOnlyWhatWasTaken, DebitsOf
    <2>3. /\ DebitsOf(j)' = DebitsOf(j) /\ Held(j)' = Held(j) \ {key}
          /\ OthersKeys(j)
      BY <1>1, <2>1 DEF DebitsOf, Held, OthersKeys
    <2>4. j \notin blind => Held(j)' = {}
      BY <1>1, <2>3 DEF IInv, CreditOK
    <2>5. KeysOK(j)'
      BY <1>1, <1>3, <2>3 DEF IInv, KeysOK
    <2>6. CreditOK(j)'
      BY <1>1, <1>3, <2>4 DEF CreditOK
    <2> QED BY <1>1, <1>3, <1>4, <2>2, <2>3, <2>5, <2>6, OneJobMoves
  <1>6. CASE run[j].key = NoKey
    <2>1. /\ j \in blind /\ UNCHANGED refunds
          /\ keyless' = keyless \cup {<<j, attempts[j]>>}
      BY <1>1, <1>6 DEF RefundLands, IInv, PhaseOK
    <2>2. ReturnsOnlyWhatWasTaken'
      BY <1>1, <2>1 DEF IInv, ReturnsOnlyWhatWasTaken
    <2>3. DebitsOf(j)' = DebitsOf(j) /\ OthersKeys(j)
      BY <1>1, <2>1 DEF DebitsOf, Held, OthersKeys
    <2>4. KeysOK(j)'
      BY <1>1, <1>3, <2>3 DEF IInv, KeysOK
    <2>5. CreditOK(j)'
      BY <1>1, <2>1 DEF CreditOK
    <2> QED BY <1>1, <1>3, <1>4, <2>2, <2>3, <2>4, <2>5, OneJobMoves
  <1> QED BY <1>5, <1>6

\* From the scan on: no other step of a run moves a credit.
LEMMA AfterStep ==
    ASSUME IInv, JobTypeOK', NEW j \in Jobs, After(j), ~Settle(j)
    PROVE  IInv'
  <1>t. JobTypeOK
    BY DEF IInv
  <1>1. CASE ScanReturns(j) \/ RefundsNothing(j) \/ RefundFails(j)
    <2>1. \E to \in {"persist", "settle"} :
            /\ run[j].at \in {"scan", "refund"} /\ Others(j)
            /\ to = "settle" => run[j].at = "refund"
            /\ run'[j] = [run[j] EXCEPT !.at = to]
      BY <1>1, <1>t, RunGoes DEF ScanReturns, RefundsNothing, RefundFails, Phases
    <2>2. run[j] \in Runs
      BY <1>t DEF JobTypeOK, Runs
    <2>3. /\ run'[j].at \in {"persist", "settle"}
          /\ run'[j].charged = run[j].charged /\ run'[j].key = run[j].key
          /\ run'[j].refunded = run[j].refunded /\ run'[j].outcome = run[j].outcome
          /\ run'[j].at = "settle" => run[j].at = "refund"
      BY <2>1, <2>2 DEF Runs
    <2>4. run'[j].at = "settle" => run'[j].outcome \in Life!Settled
      BY <2>3 DEF IInv, PhaseOK
    <2>5. UNCHANGED trail /\ UNCHANGED <<attempts, blind, flag>>
      BY <1>1 DEF ScanReturns, RefundsNothing, RefundFails, queue, history
    <2> QED BY <2>1, <2>3, <2>4, <2>5, PlainStep
  <1>2. CASE PersistFails(j) \/ PersistNew(j)
    <2>1. \E outcome \in Life!Settled :
            /\ run[j].at = "persist" /\ Others(j)
            /\ run'[j] = [run[j] EXCEPT !.at = "settle", !.outcome = outcome]
      BY <1>2, <1>t, RunEnds DEF PersistFails, PersistNew, Life!Settled
    <2>2. run[j] \in Runs
      BY <1>t DEF JobTypeOK, Runs
    <2>3. /\ run'[j].at = "settle" /\ run'[j].outcome \in Life!Settled
          /\ run'[j].charged = run[j].charged /\ run'[j].key = run[j].key
          /\ run'[j].refunded = run[j].refunded
      BY <2>1, <2>2 DEF Runs
    <2>4. UNCHANGED trail /\ UNCHANGED <<attempts, blind, flag>>
      BY <1>2 DEF PersistFails, PersistNew, queue, history
    <2> QED BY <2>1, <2>3, <2>4, PlainStep
  <1>3. ASSUME NEW outcome \in Life!Settled,
               \/ ScanFails(j, outcome)
               \/ PersistDeduped(j) /\ outcome = "done"
        PROVE  IInv'
    <2>1. /\ run[j].at \in {"scan", "persist"} /\ run[j] \in Runs
          /\ UNCHANGED trail /\ UNCHANGED <<attempts, blind, flag>>
      BY <1>3, <1>t DEF ScanFails, PersistDeduped, queue, history, JobTypeOK, Runs
    <2>2. LET r == [run[j] EXCEPT !.at = "refund", !.outcome = outcome]
          IN  r \in Runs /\ run' = [run EXCEPT ![j] = r]
      BY <1>3, <2>1 DEF ScanFails, PersistDeduped, Runs, Phases
    <2>3. /\ Others(j) /\ run'[j].at = "refund" /\ run'[j].outcome = outcome
          /\ run'[j].charged = run[j].charged /\ run'[j].key = run[j].key
          /\ run'[j].refunded = run[j].refunded
      BY <1>t, <2>1, <2>2, RunSet DEF Runs
    <2> QED BY <2>1, <2>3, PlainStep
  <1>4. PersistDeduped(j) => IInv'
    BY <1>3 DEF Life!Settled
  <1> QED BY <1>1, <1>2, <1>3, <1>4, RefundStep DEF After

\* The invariant is inductive.
LEMMA InvStep == ASSUME IInv, [JobNext]_jobVars PROVE IInv'
  <1>1. JobTypeOK'
    BY TypeStep
  <1>2. CASE UNCHANGED jobVars
    <2>1. UNCHANGED trail /\ UNCHANGED <<run, attempts, flag, blind>>
      BY <1>2 DEF jobVars, queue, history
    <2>2. \A j \in Jobs : (KeysOK(j) /\ PhaseOK(j) /\ CreditOK(j))'
      BY <2>1, LedgerKept DEF IInv, KeysOK, PhaseOK, CreditOK
    <2> QED BY <1>1, <2>1, <2>2, LedgerKept DEF IInv
  <1>3. ASSUME NEW j \in Jobs, After(j) PROVE IInv'
    BY <1>1, <1>3, QueueStep, AfterStep
  <1> QED BY <1>1, <1>2, <1>3, QueueStep, ReapStep, BeforeStep DEF JobNext

-----------------------------------------------------------------------------
\* Every reachable state satisfies the inductive invariant.
THEOREM RescoreInvHolds == JobSpec => []IInv
  BY InitInv, InvStep, PTL DEF JobSpec

\* The rows, the keys and the local variables of the runs keep their types.
THEOREM RescoreTypeCorrect == JobSpec => []JobTypeOK
  <1>1. IInv => JobTypeOK
    BY DEF IInv
  <1> QED BY <1>1, RescoreInvHolds, PTL

\* However often runRescoreJob is killed and run again, a job never holds two
\* credits for its scan.
THEOREM HoldsOneCredit == JobSpec => []OneHeldCredit
  <1>1. IInv => OneHeldCredit
    BY DEF IInv, CreditOK, OneHeldCredit
  <1> QED BY <1>1, RescoreInvHolds, PTL

\* A run that believes it is paid for has its debit on the ledger, unreturned.
THEOREM ChargedRunsArePaid == JobSpec => []ChargedRunHoldsItsCredit
  <1>1. IInv => ChargedRunHoldsItsCredit
    BY DEF IInv, CreditOK, ChargedRunHoldsItsCredit
  <1> QED BY <1>1, RescoreInvHolds, PTL

\* A refund names a debit that was taken; one that names none was written by a
\* run that could not read the ledger.
THEOREM RefundsAnswerDebits == JobSpec => []ReturnsOnlyWhatWasTaken
  <1>1. IInv => ReturnsOnlyWhatWasTaken
    BY DEF IInv
  <1> QED BY <1>1, RescoreInvHolds, PTL

\* The run that clears the row's flag as refunded leaves no credit behind.
THEOREM RefundedRunsHoldNothing == JobSpec => []RefundedRunHoldsNothing
  <1>1. IInv => RefundedRunHoldsNothing
    BY DEF IInv, CreditOK, RefundedRunHoldsNothing
  <1> QED BY <1>1, RescoreInvHolds, PTL
-----------------------------------------------------------------------------
(* The purse.  What the jobs write to the ledger are movements of a wallet,  *)
(* and together they cost no more than a credit for each job.                *)

\* The rows of the ledger, as the wallet sees them.
Movements ==
    {[key |-> <<"debit", k>>, delta |-> -1] : k \in debits}
        \cup {[key |-> <<"refund", k>>, delta |-> 1] : k \in refunds}
        \cup {[key |-> <<"keyless", k>>, delta |-> 1] : k \in keyless}

Purchases == INSTANCE Wallet WITH
    Keys <- {"debit", "refund", "keyless"} \X (Jobs \X Nat),
    balance <- Balance,
    moved <- Movements

\* The ledger has finitely many rows, and its balance is not negative.
PurseInv ==
    /\ IsFiniteSet(debits) /\ IsFiniteSet(refunds) /\ IsFiniteSet(keyless)
    /\ Balance \in Nat

\* One row is written.
RowDebits(k) ==
    /\ Balance > 0 /\ k \notin debits /\ debits' = debits \cup {k}
    /\ UNCHANGED <<refunds, keyless>>

RowRefunds(k) ==
    /\ k \notin refunds /\ refunds' = refunds \cup {k}
    /\ UNCHANGED <<debits, keyless>>

RowGivesBack(k) ==
    /\ k \notin keyless /\ keyless' = keyless \cup {k}
    /\ UNCHANGED <<debits, refunds>>

\* A step writes one row at most, and a debit only if there is a credit.
LEMMA OneRowAStep ==
    ASSUME IInv, [JobNext]_jobVars
    PROVE  \/ UNCHANGED trail
           \/ \E k \in Jobs \X Nat : RowDebits(k) \/ RowRefunds(k) \/ RowGivesBack(k)
  <1>1. ASSUME NEW j \in Jobs, NEW learns \in BOOLEAN, ReserveDebits(j, learns)
        PROVE  RowDebits(<<j, attempts[j]>>)
    <2>1. run[j].at = "reserve"
      BY <1>1 DEF ReserveDebits, Ends
    <2>2. <<j, attempts[j]>> \notin debits
      BY <2>1 DEF IInv, PhaseOK, DebitsOf
    <2> QED BY <1>1, <2>2 DEF ReserveDebits, ReservationKey, RowDebits
  <1>2. ASSUME NEW j \in Jobs, NEW learns \in BOOLEAN, RefundLands(j, learns)
        PROVE  \/ UNCHANGED trail
               \/ RowRefunds(<<j, run[j].key>>)
               \/ RowGivesBack(<<j, attempts[j]>>)
    BY <1>2 DEF RefundLands, RowRefunds, RowGivesBack, trail
  <1>3. ASSUME NEW j \in Jobs PROVE attempts[j] \in Nat /\ run[j].key \in Nat
    BY DEF IInv, JobTypeOK
  <1>4. ASSUME NEW j \in Jobs, Enqueue(j) \/ Claim(j) \/ Yield(j) \/ Drop(j) \/ Settle(j)
        PROVE  UNCHANGED trail
    BY <1>4 DEF Enqueue, Claim, Yield, Drop, Settle
  <1>5. ASSUME NEW j \in Jobs, Preparing(j)
        PROVE  UNCHANGED trail \/ \E learns \in BOOLEAN : ReserveDebits(j, learns)
    BY <1>5 DEF Preparing, SkipEarly, Unmetered, Carry, ReserveFree, ReserveRefused, Mark
  <1>6. ASSUME NEW j \in Jobs, After(j)
        PROVE  UNCHANGED trail \/ \E learns \in BOOLEAN : RefundLands(j, learns)
    BY <1>4, <1>6 DEF After, ScanFails, ScanReturns, PersistFails, PersistNew, PersistDeduped,
                      RefundsNothing, RefundFails
  <1>7. ASSUME NEW S \in SUBSET Jobs, Reap(S) PROVE UNCHANGED trail
    BY <1>7 DEF Reap
  <1>8. UNCHANGED jobVars => UNCHANGED trail
    BY DEF jobVars
  <1> QED BY <1>1, <1>2, <1>3, <1>4, <1>5, <1>6, <1>7, <1>8 DEF JobNext

\* What a row does to the balance.
LEMMA BalanceMoves ==
    ASSUME PurseInv, NEW k
    PROVE  /\ RowDebits(k) => PurseInv' /\ Balance' = Balance - 1
           /\ RowRefunds(k) \/ RowGivesBack(k) => PurseInv' /\ Balance' = Balance + 1
  <1>1. /\ Purse \in Nat
        /\ Cardinality(debits) \in Nat /\ Cardinality(refunds) \in Nat /\ Cardinality(keyless) \in Nat
    BY RescoreAssumption, FS_CardinalityType DEF PurseInv
  <1>2. CASE RowDebits(k)
    <2>1. IsFiniteSet(debits') /\ Cardinality(debits') = Cardinality(debits) + 1
      BY <1>2, FS_AddElement DEF PurseInv, RowDebits
    <2>2. Balance' = Balance - 1 /\ Balance \in Int /\ Balance > 0
      BY <1>1, <1>2, <2>1 DEF RowDebits, Balance
    <2>3. Balance' \in Nat
      BY <2>2
    <2> QED BY <1>2, <2>1, <2>2, <2>3 DEF PurseInv, RowDebits, RowRefunds, RowGivesBack
  <1>3. CASE RowRefunds(k)
    <2>1. IsFiniteSet(refunds') /\ Cardinality(refunds') = Cardinality(refunds) + 1
      BY <1>3, FS_AddElement DEF PurseInv, RowRefunds
    <2>2. Balance' = Balance + 1
      BY <1>1, <1>3, <2>1 DEF RowRefunds, Balance
    <2> QED BY <1>1, <1>3, <2>1, <2>2 DEF PurseInv, RowRefunds, RowDebits
  <1>4. CASE RowGivesBack(k)
    <2>1. IsFiniteSet(keyless') /\ Cardinality(keyless') = Cardinality(keyless) + 1
      BY <1>4, FS_AddElement DEF PurseInv, RowGivesBack
    <2>2. Balance' = Balance + 1
      BY <1>1, <1>4, <2>1 DEF RowGivesBack, Balance
    <2> QED BY <1>1, <1>4, <2>1, <2>2 DEF PurseInv, RowGivesBack, RowDebits
  <1>5. RowDebits(k) => ~RowRefunds(k) /\ ~RowGivesBack(k)
    BY DEF RowDebits, RowRefunds, RowGivesBack
  <1> QED BY <1>2, <1>3, <1>4, <1>5

\* The ledger starts empty, and the purse with what it has.
LEMMA PurseInit == JobInit => PurseInv /\ Purchases!Init
  <1> SUFFICES ASSUME JobInit PROVE PurseInv /\ Purchases!Init
    OBVIOUS
  <1>1. debits = {} /\ refunds = {} /\ keyless = {}
    BY DEF JobInit
  <1>2. Movements = {}
    BY <1>1 DEF Movements
  <1>3. Balance = Purse /\ Purse \in Nat
    BY <1>1, RescoreAssumption, FS_EmptySet DEF Balance
  <1> QED BY <1>1, <1>2, <1>3, FS_EmptySet DEF PurseInv, Purchases!Init

\* A step of the jobs is a movement of the wallet, or none.
LEMMA PurseStep ==
    ASSUME IInv, PurseInv, [JobNext]_jobVars
    PROVE  PurseInv' /\ [Purchases!Next]_<<Balance, Movements>>
  <1>1. CASE UNCHANGED trail
    BY <1>1 DEF trail, PurseInv, Balance, Movements
  <1>2. ASSUME NEW k \in Jobs \X Nat, RowDebits(k) \/ RowRefunds(k) \/ RowGivesBack(k)
        PROVE  PurseInv' /\ Purchases!Next
    <2>1. /\ PurseInv' /\ Balance \in Nat /\ Balance' \in Nat
          /\ RowDebits(k) => Balance' = Balance - 1
          /\ RowRefunds(k) \/ RowGivesBack(k) => Balance' = Balance + 1
      BY <1>2, BalanceMoves DEF PurseInv
    <2>2. CASE RowDebits(k)
      <3>1. Balance' - Balance = -1 /\ Balance' # Balance
        BY <2>1, <2>2
      <3>2. Movements' = Movements \cup {[key |-> <<"debit", k>>, delta |-> -1]}
        BY <2>2 DEF RowDebits, Movements
      <3>3. \A m \in Movements : m.key # <<"debit", k>>
        BY <2>2 DEF RowDebits, Movements
      <3>4. Purchases!Move(<<"debit", k>>)
        BY <2>1, <3>1, <3>2, <3>3 DEF Purchases!Move
      <3> QED BY <2>1, <3>4 DEF Purchases!Next
    <2>3. CASE RowRefunds(k)
      <3>1. Balance' - Balance = 1 /\ Balance' # Balance
        BY <2>1, <2>3
      <3>2. Movements' = Movements \cup {[key |-> <<"refund", k>>, delta |-> 1]}
        BY <2>3 DEF RowRefunds, Movements
      <3>3. \A m \in Movements : m.key # <<"refund", k>>
        BY <2>3 DEF RowRefunds, Movements
      <3>4. Purchases!Move(<<"refund", k>>)
        BY <2>1, <3>1, <3>2, <3>3 DEF Purchases!Move
      <3> QED BY <2>1, <3>4 DEF Purchases!Next
    <2>4. CASE RowGivesBack(k)
      <3>1. Balance' - Balance = 1 /\ Balance' # Balance
        BY <2>1, <2>4
      <3>2. Movements' = Movements \cup {[key |-> <<"keyless", k>>, delta |-> 1]}
        BY <2>4 DEF RowGivesBack, Movements
      <3>3. \A m \in Movements : m.key # <<"keyless", k>>
        BY <2>4 DEF RowGivesBack, Movements
      <3>4. Purchases!Move(<<"keyless", k>>)
        BY <2>1, <3>1, <3>2, <3>3 DEF Purchases!Move
      <3> QED BY <2>1, <3>4 DEF Purchases!Next
    <2> QED BY <1>2, <2>1, <2>2, <2>3, <2>4
  <1> QED BY <1>1, <1>2, OneRowAStep

\* The ledger has finitely many rows at any time, and the balance is never
\* negative.
THEOREM PurseInvHolds == JobSpec => []PurseInv
  BY PurseInit, PurseStep, RescoreInvHolds, PTL DEF JobSpec

\* What the jobs write to the ledger are movements of a wallet, each under a key
\* of its own: RescoreJob keeps the promise that CreditLedger gives it.
THEOREM JobsMoveTheWallet == JobSpec => Purchases!Spec
  BY PurseInit, PurseStep, PurseInvHolds, RescoreInvHolds, PTL DEF JobSpec, Purchases!Spec

\* For any number of jobs, attempts and kills: while every run could read the
\* ledger, the jobs have cost one credit each at most, and earned none.
OneCreditEach ==
    blind = {} => Purse - Cardinality(Jobs) <= Balance /\ Balance <= Purse

THEOREM JobsCostOneCreditEach ==
    ASSUME IsFiniteSet(Jobs) PROVE JobSpec => []OneCreditEach
  <1>1. ASSUME IInv, PurseInv, blind = {}
        PROVE  Purse - Cardinality(Jobs) <= Balance /\ Balance <= Purse
    <2> DEFINE Unreturned == debits \ refunds
    <2> DEFINE jobOf == [k \in Unreturned |-> k[1]]
    <2>1. refunds \subseteq debits /\ keyless = {}
      <3>1. ASSUME NEW k \in keyless PROVE FALSE
        BY <1>1, <3>1 DEF IInv, ReturnsOnlyWhatWasTaken
      <3> QED BY <1>1, <3>1 DEF IInv, ReturnsOnlyWhatWasTaken
    <2>2. /\ Purse \in Nat /\ Cardinality(Jobs) \in Nat
          /\ Cardinality(debits) \in Nat /\ Cardinality(refunds) \in Nat
          /\ Cardinality(keyless) = 0
      BY <1>1, <2>1, RescoreAssumption, FS_CardinalityType, FS_EmptySet DEF PurseInv
    <2>3. /\ IsFiniteSet(Unreturned) /\ Cardinality(Unreturned) \in Nat
          /\ Cardinality(Unreturned) = Cardinality(debits) - Cardinality(refunds)
      <3>1. debits \cap refunds = refunds
        BY <2>1
      <3> QED BY <1>1, <3>1, FS_Difference, FS_CardinalityType DEF PurseInv
    <2>4. Cardinality(Unreturned) <= Cardinality(Jobs)
      <3>1. jobOf \in [Unreturned -> Jobs]
        BY <1>1 DEF IInv, JobTypeOK
      <3>2. ASSUME NEW k \in Unreturned, NEW m \in Unreturned, jobOf[k] = jobOf[m]
            PROVE  k = m
        <4>1. k[1] \in Jobs /\ m[1] = k[1]
          BY <3>1, <3>2
        <4>2. k \in Held(k[1]) /\ m \in Held(k[1])
          BY <4>1 DEF Held, DebitsOf
        <4> QED BY <1>1, <4>1, <4>2 DEF IInv, CreditOK
      <3> HIDE DEF jobOf, Unreturned
      <3>3. ~(Cardinality(Jobs) < Cardinality(Unreturned))
        BY <2>3, <3>1, <3>2, FS_PigeonHole
      <3> QED BY <2>2, <2>3, <3>3
    <2>5. Balance = Purse - Cardinality(Unreturned)
      BY <2>2, <2>3 DEF Balance
    <2> QED BY <2>2, <2>3, <2>4, <2>5
  <1>2. IInv /\ PurseInv => OneCreditEach
    BY <1>1 DEF OneCreditEach
  <1> QED BY <1>2, RescoreInvHolds, PurseInvHolds, PTL

-----------------------------------------------------------------------------
(* The queue.                                                                *)

\* The money's steps leave the rows of the queue alone, so that whatever is
\* proved of JobLife is true of the jobs that carry credits.
THEOREM JobsLiveByTheQueue == JobSpec => Life!Spec
  <1>1. JobInit => Life!Init
    BY DEF JobInit
  <1>2. ASSUME IInv, [JobNext]_jobVars PROVE [Life!Next]_<<state, attempts, live>>
    <2>1. ASSUME NEW j \in Jobs, Enqueue(j) \/ Claim(j) \/ Yield(j) \/ Drop(j) \/ Settle(j)
          PROVE  Life!Next
      BY <1>2, <2>1 DEF Enqueue, Claim, Yield, Drop, Settle, Life!Next, IInv, PhaseOK
    <2>2. ASSUME NEW S \in SUBSET Jobs, Reap(S) PROVE Life!Next
      BY <2>2 DEF Reap, Life!Next
    <2>3. ASSUME NEW j \in Jobs, Preparing(j) PROVE UNCHANGED queue
      BY <2>3 DEF Preparing, SkipEarly, Unmetered, Carry, ReserveFree, ReserveRefused,
                  ReserveDebits, Mark
    <2>4. ASSUME NEW j \in Jobs, After(j), ~Settle(j) PROVE UNCHANGED queue
      BY <2>4 DEF After, ScanFails, ScanReturns, PersistFails, PersistNew, PersistDeduped,
                  RefundsNothing, RefundFails, RefundLands
    <2>5. UNCHANGED jobVars => UNCHANGED queue
      BY DEF jobVars
    <2> QED BY <1>2, <2>1, <2>2, <2>3, <2>4, <2>5 DEF JobNext, queue
  <1> QED BY <1>1, <1>2, RescoreInvHolds, PTL DEF JobSpec, Life!Spec
=============================================================================
