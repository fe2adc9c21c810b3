--------------------------- MODULE ScanQueueProofs ---------------------------
(***************************************************************************)
(* Theorems about ScanQueue, for every number of rows, repositories,       *)
(* workers and attempts and every Lease, KillAfter and MaxLag that satisfy *)
(* QueueAssumption.                                                        *)
(***************************************************************************)
EXTENDS ScanQueue, TLAPS

\* A worker between its stamp and its claim write names a row, and the write is
\* not later than MaxLag after the stamp.
StampInv ==
    \A w \in Workers : pc[w] = "stamped" => on[w] \in Jobs /\ lag[w] <= MaxLag

\* No claim runs out later than a lease written at this instant would.
LeaseInv == \A j \in Jobs : state[j] = "claimed" => leaseUntil[j] <= Lease

\* A holder's row is claimed, and its lease outlives the holder: the kill comes
\* KillAfter after the stamp.
HoldInv ==
    \A w \in Workers : pc[w] \in Holding =>
        /\ on[w] \in Jobs
        /\ state[on[w]] = "claimed"
        /\ leaseUntil[on[w]] >= Lease - KillAfter

\* Two workers never hold one row.
DistinctInv ==
    \A v, w \in Workers :
        pc[v] \in Holding /\ pc[w] \in Holding /\ v # w => on[v] # on[w]

IInv == TypeOK /\ StampInv /\ LeaseInv /\ HoldInv /\ DistinctInv

-----------------------------------------------------------------------------
\* Counting one element of a function on S up keeps the function's type.
LEMMA IncrementType ==
    ASSUME NEW S, NEW f \in [S -> Nat], NEW x \in S
    PROVE  [f EXCEPT ![x] = f[x] + 1] \in [S -> Nat]
  OBVIOUS

\* A reap moves rows only among the column's states.
LEMMA ReapType ==
    ASSUME TypeOK, ReapExpiredLeases
    PROVE  /\ state' \in [Jobs -> {"absent", "queued", "claimed"} \cup Settled]
           /\ leaseUntil' \in [Jobs -> Int]
  BY DEF TypeOK, ReapExpiredLeases, Settled, Expired

\* A reap leaves alone every row that is not an expired claim.
LEMMA ReapKeeps ==
    ASSUME ReapExpiredLeases, NEW j \in Jobs, ~Expired(j)
    PROVE  state'[j] = state[j] /\ leaseUntil'[j] = leaseUntil[j]
  BY DEF ReapExpiredLeases

\* A row that a reap leaves claimed was claimed, with the same lease.
LEMMA ReapClaimsNothing ==
    ASSUME ReapExpiredLeases, NEW j \in Jobs, state'[j] = "claimed"
    PROVE  state[j] = "claimed" /\ leaseUntil'[j] = leaseUntil[j]
  BY DEF ReapExpiredLeases

\* The invariant holds of an empty queue.
LEMMA InitInv == Init => IInv
  BY QueueAssumption
  DEF Init, IInv, TypeOK, StampInv, LeaseInv, HoldInv, DistinctInv, Holding,
      Workers, NoJob

-----------------------------------------------------------------------------
(* Type correctness.                                                         *)

\* No step takes a variable out of its type.
LEMMA TypeStep == ASSUME TypeOK, StampInv, HoldInv, [Next]_vars PROVE TypeOK'
  <1> USE QueueAssumption DEF TypeOK, Workers, NoJob, Holding, Settled
  <1>1. ASSUME NEW j \in Jobs, Enqueue(j) PROVE TypeOK'
    BY <1>1 DEF Enqueue
  <1>2. ASSUME NEW w \in Workers, NEW reaps \in BOOLEAN, BeginCronDrain(w, reaps)
        PROVE  TypeOK'
    <2>1. /\ state' \in [Jobs -> {"absent", "queued", "claimed"} \cup Settled]
          /\ leaseUntil' \in [Jobs -> Int]
      BY <1>2, ReapType DEF BeginCronDrain
    <2> QED BY <1>2, <2>1 DEF BeginCronDrain
  <1>3. ASSUME NEW w \in Workers, NEW reaps \in BOOLEAN, NEW S \in SUBSET Jobs,
               BeginInlineDrain(w, S, reaps)
        PROVE  TypeOK'
    <2>1. /\ state' \in [Jobs -> {"absent", "queued", "claimed"} \cup Settled]
          /\ leaseUntil' \in [Jobs -> Int]
      BY <1>3, ReapType DEF BeginInlineDrain
    <2> QED BY <1>3, <2>1 DEF BeginInlineDrain
  <1>4. ASSUME NEW w \in Workers, Kill(w) PROVE TypeOK'
    BY <1>4 DEF Kill, rows
  <1>5. ASSUME Tick PROVE TypeOK'
    BY <1>5 DEF Tick, Elapse
  <1>6. ASSUME NEW w \in Workers, Work(w) PROVE TypeOK'
    <2>1. CASE ListCandidates(w)
      BY <2>1 DEF ListCandidates, rows
    <2>2. CASE NothingLeft(w)
      BY <2>2 DEF NothingLeft, rows
    <2>3. ASSUME NEW j \in Jobs, Stamp(w, j) PROVE TypeOK'
      BY <2>3 DEF Stamp, rows
    <2>4. CASE ClaimWins(w)
      <3>1. on[w] \in Jobs
        BY <2>4 DEF ClaimWins, StampInv
      <3>2. seen' \in [Jobs -> SUBSET Jobs]
        BY <2>4 DEF ClaimWins
      <3>3. state' \in [Jobs -> {"absent", "queued", "claimed"} \cup Settled]
        BY <2>4, <3>1 DEF ClaimWins
      <3>4. leaseUntil' \in [Jobs -> Int]
        BY <2>4, <3>1 DEF ClaimWins
      <3>5. attempts' \in [Jobs -> Nat]
        <4>1. attempts' = [attempts EXCEPT ![on[w]] = attempts[on[w]] + 1]
          BY <2>4 DEF ClaimWins
        <4> QED BY <3>1, <4>1, IncrementType
      <3>6. /\ pc' \in [Workers -> {"idle", "supply", "try", "stamped"} \cup Holding]
            /\ lag' \in [Workers -> Nat]
        BY <2>4 DEF ClaimWins
      <3> QED BY <2>4, <3>2, <3>3, <3>4, <3>5, <3>6 DEF ClaimWins
    <2>5. CASE ClaimLoses(w)
      BY <2>5 DEF ClaimLoses, rows
    <2>6. CASE CheckPeers(w)
      BY <2>6 DEF CheckPeers, rows
    <2>7. CASE PeerReadFails(w)
      BY <2>7 DEF PeerReadFails, rows
    <2>8. CASE Yield(w)
      <3>1. on[w] \in Jobs
        BY <2>8 DEF Yield, HoldInv
      <3>2. state' \in [Jobs -> {"absent", "queued", "claimed"} \cup Settled]
        BY <2>8, <3>1 DEF Yield
      <3>3. leaseUntil' \in [Jobs -> Int]
        BY <2>8, <3>1 DEF Yield
      <3>4. notBefore' \in [Jobs -> Int]
        BY <2>8, <3>1 DEF Yield
      <3>5. /\ pc' \in [Workers -> {"idle", "supply", "try", "stamped"} \cup Holding]
            /\ on' \in [Workers -> Jobs \cup {NoJob}]
        BY <2>8 DEF Yield
      <3> QED BY <2>8, <3>2, <3>3, <3>4, <3>5 DEF Yield
    <2>9. CASE YieldLost(w)
      BY <2>9 DEF YieldLost, rows
    <2>10. ASSUME NEW stop \in BOOLEAN, NEW outcome \in Outcomes,
                  Settle(w, outcome, stop)
           PROVE  TypeOK'
      <3>1. on[w] \in Jobs
        BY <2>10 DEF Settle, HoldInv
      <3> QED BY <2>10, <3>1 DEF Settle, NextItem
    <2>11. ASSUME NEW stop \in BOOLEAN, SettleLost(w, stop) PROVE TypeOK'
      BY <2>11 DEF SettleLost, NextItem, rows
    <2> QED BY <1>6, <2>1, <2>2, <2>3, <2>4, <2>5, <2>6, <2>7, <2>8, <2>9,
               <2>10, <2>11 DEF Work
  <1>7. CASE UNCHANGED vars
    BY <1>7 DEF vars
  <1> QED BY <1>1, <1>2, <1>3, <1>4, <1>5, <1>6, <1>7 DEF Next
-----------------------------------------------------------------------------
(* The claims.                                                               *)

\* The lease of a holder's row is running.
LEMMA HeldLease ==
    ASSUME IInv, NEW w \in Workers, pc[w] \in Holding
    PROVE  /\ on[w] \in Jobs /\ state[on[w]] = "claimed"
           /\ leaseUntil[on[w]] \in Int
           /\ leaseUntil[on[w]] > 0 /\ leaseUntil[on[w]] <= Lease
           /\ leaseUntil[on[w]] >= Lease - KillAfter
  <1>1. /\ on[w] \in Jobs /\ state[on[w]] = "claimed"
        /\ leaseUntil[on[w]] >= Lease - KillAfter
    BY DEF IInv, HoldInv
  <1>2. leaseUntil[on[w]] \in Int /\ leaseUntil[on[w]] <= Lease
    BY <1>1 DEF IInv, TypeOK, LeaseInv
  <1>3. Lease \in Nat /\ KillAfter \in Nat /\ KillAfter < Lease
    BY QueueAssumption
  <1> QED BY <1>1, <1>2, <1>3

\* A step that changes no row and lets every worker keep what it held, let go,
\* or hold what it held before in another phase of the claim.
LEMMA RowsKept ==
    ASSUME IInv, UNCHANGED <<state, leaseUntil>>,
           \A w \in Workers : pc'[w] \in Holding => pc[w] \in Holding /\ on'[w] = on[w]
    PROVE  LeaseInv' /\ HoldInv' /\ DistinctInv'
  BY DEF IInv, LeaseInv, HoldInv, DistinctInv

\* The same for a step that reaps.
LEMMA RowsReaped ==
    ASSUME IInv, ReapExpiredLeases,
           \A w \in Workers : pc'[w] \in Holding => pc[w] \in Holding /\ on'[w] = on[w]
    PROVE  LeaseInv' /\ HoldInv' /\ DistinctInv'
  <1>1. LeaseInv'
    BY ReapClaimsNothing DEF IInv, LeaseInv
  <1>2. HoldInv'
    <2> SUFFICES ASSUME NEW w \in Workers, pc'[w] \in Holding
                 PROVE  /\ on'[w] \in Jobs
                        /\ state'[on'[w]] = "claimed"
                        /\ leaseUntil'[on'[w]] >= Lease - KillAfter
      BY DEF HoldInv
    <2>1. /\ on'[w] = on[w] /\ on[w] \in Jobs /\ state[on[w]] = "claimed"
          /\ leaseUntil[on[w]] >= Lease - KillAfter
      BY DEF IInv, HoldInv
    <2>2. ~Expired(on[w])
      BY HeldLease DEF Expired
    <2> QED BY <2>1, <2>2, ReapKeeps
  <1>3. DistinctInv'
    BY DEF IInv, DistinctInv
  <1> QED BY <1>1, <1>2, <1>3

\* A step in which holder w lets go of its row, whatever becomes of the row.
LEMMA LetsGo ==
    ASSUME IInv, NEW w \in Workers, pc[w] \in Holding,
           pc'[w] \notin Holding,
           \A v \in Workers \ {w} : pc'[v] = pc[v] /\ on'[v] = on[v],
           state'[on[w]] # "claimed",
           \A j \in Jobs \ {on[w]} : state'[j] = state[j] /\ leaseUntil'[j] = leaseUntil[j]
    PROVE  LeaseInv' /\ HoldInv' /\ DistinctInv'
  <1>1. LeaseInv'
    BY DEF IInv, LeaseInv
  <1>2. HoldInv'
    <2> SUFFICES ASSUME NEW v \in Workers, pc'[v] \in Holding
                 PROVE  /\ on'[v] \in Jobs
                        /\ state'[on'[v]] = "claimed"
                        /\ leaseUntil'[on'[v]] >= Lease - KillAfter
      BY DEF HoldInv
    <2>1. v # w /\ on'[v] = on[v] /\ pc[v] \in Holding
      OBVIOUS
    <2>2. on[v] # on[w]
      BY <2>1 DEF IInv, DistinctInv
    <2> QED BY <2>1, <2>2 DEF IInv, HoldInv
  <1>3. DistinctInv'
    BY DEF IInv, DistinctInv
  <1> QED BY <1>1, <1>2, <1>3
-----------------------------------------------------------------------------
\* The invariant is inductive.
LEMMA InvStep == ASSUME IInv, [Next]_vars PROVE IInv'
  <1> USE DEF Workers, NoJob, Holding
  <1>0. TypeOK'
    BY TypeStep DEF IInv
  <1>1. ASSUME NEW j \in Jobs, Enqueue(j) PROVE IInv'
    <2>1. StampInv'
      BY <1>1 DEF Enqueue, IInv, StampInv
    <2>2. state[j] # "claimed" /\ state'[j] # "claimed"
      BY <1>1 DEF Enqueue, IInv, TypeOK
    <2>3. LeaseInv' /\ HoldInv' /\ DistinctInv'
      BY <1>1, <2>2 DEF Enqueue, IInv, TypeOK, LeaseInv, HoldInv, DistinctInv
    <2> QED BY <1>0, <2>1, <2>3 DEF IInv
  <1>2. ASSUME NEW w \in Workers, NEW reaps \in BOOLEAN, BeginCronDrain(w, reaps)
        PROVE  IInv'
    <2>1. StampInv'
      BY <1>2 DEF BeginCronDrain, IInv, StampInv, TypeOK
    <2>2. \A v \in Workers : pc'[v] \in Holding => pc[v] \in Holding /\ on'[v] = on[v]
      BY <1>2 DEF BeginCronDrain, IInv, TypeOK
    <2>3. LeaseInv' /\ HoldInv' /\ DistinctInv'
      BY <1>2, <2>2, RowsKept, RowsReaped DEF BeginCronDrain
    <2> QED BY <1>0, <2>1, <2>3 DEF IInv
  <1>3. ASSUME NEW w \in Workers, NEW reaps \in BOOLEAN, NEW S \in SUBSET Jobs,
               BeginInlineDrain(w, S, reaps)
        PROVE  IInv'
    <2>1. StampInv'
      BY <1>3 DEF BeginInlineDrain, IInv, StampInv, TypeOK
    <2>2. \A v \in Workers : pc'[v] \in Holding => pc[v] \in Holding /\ on'[v] = on[v]
      BY <1>3 DEF BeginInlineDrain, IInv, TypeOK
    <2>3. LeaseInv' /\ HoldInv' /\ DistinctInv'
      BY <1>3, <2>2, RowsKept, RowsReaped DEF BeginInlineDrain
    <2> QED BY <1>0, <2>1, <2>3 DEF IInv
  <1>4. ASSUME NEW w \in Workers, Kill(w) PROVE IInv'
    <2>1. StampInv'
      BY <1>4 DEF Kill, IInv, StampInv, TypeOK
    <2>2. \A v \in Workers : pc'[v] \in Holding => pc[v] \in Holding /\ on'[v] = on[v]
      BY <1>4 DEF Kill, IInv, TypeOK
    <2>3. LeaseInv' /\ HoldInv' /\ DistinctInv'
      BY <1>4, <2>2, RowsKept DEF Kill, rows
    <2> QED BY <1>0, <2>1, <2>3 DEF IInv
  <1>5. ASSUME Tick PROVE IInv'
    <2>1. StampInv'
      BY <1>5, QueueAssumption DEF Tick, IInv, StampInv, TypeOK
    <2>2. \A j \in Jobs : state[j] = "claimed" =>
             leaseUntil'[j] = IF leaseUntil[j] > -Lease THEN leaseUntil[j] - 1
                              ELSE leaseUntil[j]
      BY <1>5 DEF Tick, Elapse
    <2>3. LeaseInv'
      <3>1. state' = state /\ Lease \in Nat /\ \A j \in Jobs : leaseUntil[j] \in Int
        BY <1>5, QueueAssumption DEF Tick, IInv, TypeOK
      <3> QED BY <2>2, <3>1 DEF IInv, LeaseInv
    <2>4. HoldInv'
      <3> SUFFICES ASSUME NEW w \in Workers, pc'[w] \in Holding
                   PROVE  /\ on'[w] \in Jobs
                          /\ state'[on'[w]] = "claimed"
                          /\ leaseUntil'[on'[w]] >= Lease - KillAfter
        BY DEF HoldInv
      <3>1. pc[w] \in Holding /\ on'[w] = on[w] /\ state' = state
        BY <1>5 DEF Tick
      <3>2. leaseUntil[on[w]] > Lease - KillAfter
        BY <1>5, <3>1 DEF Tick
      <3>3. Lease \in Nat /\ KillAfter \in Nat
        BY QueueAssumption
      <3> QED BY <2>2, <3>1, <3>2, <3>3, HeldLease
    <2>5. DistinctInv'
      BY <1>5 DEF Tick, IInv, DistinctInv
    <2> QED BY <1>0, <2>1, <2>3, <2>4, <2>5 DEF IInv
  <1>6. ASSUME NEW w \in Workers, Work(w) PROVE IInv'
    <2>1. CASE \/ ListCandidates(w) \/ NothingLeft(w) \/ ClaimLoses(w)
               \/ CheckPeers(w) \/ PeerReadFails(w) \/ YieldLost(w)
               \/ \E j \in Jobs : Stamp(w, j)
               \/ \E stop \in BOOLEAN : SettleLost(w, stop)
      <3>1. /\ UNCHANGED <<state, leaseUntil>>
            /\ \A v \in Workers \ {w} : pc'[v] = pc[v] /\ on'[v] = on[v] /\ lag'[v] = lag[v]
        BY <2>1 DEF ListCandidates, NothingLeft, ClaimLoses, CheckPeers,
             PeerReadFails, YieldLost, Stamp, SettleLost, NextItem, rows, IInv, TypeOK
      <3>2. /\ pc'[w] \in Holding => pc[w] \in Holding /\ on'[w] = on[w]
            /\ pc'[w] = "stamped" => on'[w] \in Jobs /\ lag'[w] = 0
        BY <2>1 DEF ListCandidates, NothingLeft, ClaimLoses, CheckPeers,
             PeerReadFails, YieldLost, Stamp, SettleLost, NextItem, rows, IInv, TypeOK
      <3>3. StampInv'
        BY <3>1, <3>2, QueueAssumption DEF IInv, StampInv
      <3>4. \A v \in Workers : pc'[v] \in Holding => pc[v] \in Holding /\ on'[v] = on[v]
        BY <3>1, <3>2
      <3>5. LeaseInv' /\ HoldInv' /\ DistinctInv'
        BY <3>1, <3>4, RowsKept
      <3> QED BY <1>0, <3>3, <3>5 DEF IInv
    <2>2. CASE ClaimWins(w)
      <3> DEFINE j == on[w]
      <3>1. /\ j \in Jobs /\ state[j] = "queued" /\ lag[w] \in Nat /\ lag[w] <= MaxLag
            /\ pc[w] = "stamped"
        BY <2>2 DEF ClaimWins, Claimable, IInv, StampInv, TypeOK
      <3>2. /\ state'[j] = "claimed" /\ leaseUntil'[j] = Lease - lag[w] /\ on' = on
            /\ \A k \in Jobs \ {j} : state'[k] = state[k] /\ leaseUntil'[k] = leaseUntil[k]
            /\ \A v \in Workers \ {w} : pc'[v] = pc[v] /\ lag'[v] = lag[v]
            /\ pc'[w] = "claimed"
        BY <2>2, <3>1 DEF ClaimWins, IInv, TypeOK
      <3>3. \A v \in Workers \ {w} : pc[v] \in Holding => on[v] # j
        BY <3>1 DEF IInv, HoldInv
      <3>4. StampInv'
        BY <3>2 DEF IInv, StampInv
      <3>5. LeaseInv'
        BY <3>1, <3>2, QueueAssumption DEF IInv, LeaseInv
      <3>6. HoldInv'
        <4>1. Lease - lag[w] >= Lease - KillAfter
          BY <3>1, QueueAssumption
        <4>2. ASSUME NEW v \in Workers \ {w}, pc'[v] \in Holding
              PROVE  /\ on'[v] \in Jobs
                     /\ state'[on'[v]] = "claimed"
                     /\ leaseUntil'[on'[v]] >= Lease - KillAfter
          <5>1. pc[v] \in Holding /\ on'[v] = on[v] /\ on[v] # j
            BY <3>2, <3>3, <4>2
          <5>2. on[v] \in Jobs \ {j}
            BY <5>1, HeldLease
          <5> QED BY <5>1, <5>2, <3>2, HeldLease
        <4> QED BY <3>1, <3>2, <4>1, <4>2 DEF HoldInv
      <3>7. DistinctInv'
        BY <3>2, <3>3 DEF IInv, DistinctInv
      <3> QED BY <1>0, <3>4, <3>5, <3>6, <3>7 DEF IInv
    <2>3. CASE \/ Yield(w)
               \/ \E stop \in BOOLEAN : \E outcome \in Outcomes : Settle(w, outcome, stop)
      <3>1. /\ pc[w] \in Holding /\ pc'[w] \in {"try", "supply", "idle"}
            /\ \A v \in Workers \ {w} : pc'[v] = pc[v] /\ on'[v] = on[v] /\ lag'[v] = lag[v]
        BY <2>3 DEF Yield, Settle, NextItem, IInv, TypeOK
      <3>2. on[w] \in Jobs
        BY <3>1 DEF IInv, HoldInv
      <3>3. /\ state'[on[w]] # "claimed"
            /\ \A j \in Jobs \ {on[w]} : state'[j] = state[j] /\ leaseUntil'[j] = leaseUntil[j]
        BY <2>3, <3>2, QueueAssumption DEF Yield, Settle, Settled, IInv, TypeOK
      <3>4. StampInv'
        BY <3>1 DEF IInv, StampInv
      <3>5. LeaseInv' /\ HoldInv' /\ DistinctInv'
        BY <3>1, <3>2, <3>3, LetsGo
      <3> QED BY <1>0, <3>4, <3>5 DEF IInv
    <2> QED BY <1>6, <2>1, <2>2, <2>3 DEF Work
  <1>7. CASE UNCHANGED vars
    BY <1>7 DEF vars, IInv, TypeOK, StampInv, LeaseInv, HoldInv, DistinctInv
  <1> QED BY <1>1, <1>2, <1>3, <1>4, <1>5, <1>6, <1>7 DEF Next

\* Every reachable state satisfies the inductive invariant.
THEOREM InvHolds == Spec => []IInv
  BY InitInv, InvStep, PTL DEF Spec

\* The columns and the workers keep their types.
THEOREM TypeCorrect == Spec => []TypeOK
  BY InvHolds, PTL DEF IInv

\* No live worker loses its row: not to a reap, a peer, or an unfenced write.
THEOREM ClaimsAreExclusive == Spec => []ClaimIsExclusive
  <1>1. IInv => ClaimIsExclusive
    BY HeldLease DEF IInv, DistinctInv, ClaimIsExclusive
  <1> QED BY <1>1, InvHolds, PTL
-----------------------------------------------------------------------------
(* The peer check.                                                           *)

\* A claim that passes the peer check precedes every claim then held on the same
\* repository, whatever was written first.
LEMMA CheckedPrecedesHeld ==
    ASSUME IInv, NEW v \in Workers, NEW w \in Workers,
           pc[v] \in Holding, pc[w] \in Holding,
           SameRepo(on[v], on[w]), ~OlderPeer(on[v])
    PROVE  Precedes(on[v], on[w])
  <1> DEFINE j == on[v]
             p == on[w]
  <1>1. /\ j \in Jobs /\ leaseUntil[j] \in Int /\ leaseUntil[j] <= Lease
        /\ p \in Jobs /\ leaseUntil[p] \in Int /\ leaseUntil[p] > 0
        /\ state[p] = "claimed"
    BY HeldLease
  <1>2. /\ Lease \in Nat /\ j \in Nat /\ p \in Nat /\ j # p /\ SameRepo(p, j)
    BY <1>1, QueueAssumption DEF SameRepo
  <1>3. LiveAtStampOf(p, j)
    BY <1>1, <1>2 DEF LiveAtStampOf
  <1>4. ~Precedes(p, j)
    BY <1>1, <1>2, <1>3 DEF OlderPeer
  <1> QED BY <1>1, <1>2, <1>4 DEF Precedes

\* What one step does to the claims that are held before and after it: they keep
\* their rows, all their leases run by the same time, and no claim is added to
\* the history of one of them.
HeldAlike(d) ==
    \A v \in Workers : pc[v] \in Holding /\ pc'[v] \in Holding =>
        /\ on'[v] = on[v]
        /\ leaseUntil'[on[v]] = leaseUntil[on[v]] - d
        /\ seen'[on[v]] \subseteq seen[on[v]]

\* Where no time passes and the holders keep their leases, their order stays.
LEMMA NoTimePasses ==
    ASSUME IInv, UNCHANGED <<leaseUntil, seen>>,
           \A v \in Workers : pc[v] \in Holding /\ pc'[v] \in Holding => on'[v] = on[v]
    PROVE  HeldAlike(0)
  BY HeldLease DEF HeldAlike

\* A step leaves held claims alike; a claim is first held by the step that wrote
\* it; a scan starts only when no older peer was seen.
LEMMA HeldStep ==
    ASSUME IInv, [Next]_vars
    PROVE  /\ \E d \in {0, 1} : HeldAlike(d)
           /\ \A v \in Workers : pc'[v] \in Holding /\ pc[v] \notin Holding => ClaimWins(v)
           /\ \A v \in Workers : pc'[v] = "running" =>
                 pc[v] = "running" \/ (pc[v] = "claimed" /\ ~OlderPeer(on[v]))
  <1> DEFINE Goal == /\ \E d \in {0, 1} : HeldAlike(d)
                     /\ \A v \in Workers : pc'[v] \in Holding /\ pc[v] \notin Holding => ClaimWins(v)
                     /\ \A v \in Workers : pc'[v] = "running" =>
                           pc[v] = "running" \/ (pc[v] = "claimed" /\ ~OlderPeer(on[v]))
  <1> USE DEF Holding
  <1>1. ASSUME NEW j \in Jobs, Enqueue(j) PROVE Goal
    BY <1>1, NoTimePasses DEF Enqueue
  <1>2. ASSUME NEW w \in Workers, ReapExpiredLeases, on' = on, seen' = seen,
               pc' \in {[pc EXCEPT ![w] = "supply"], [pc EXCEPT ![w] = "try"]}
        PROVE  Goal
    <2>1. \A v \in Workers : pc[v] \in Holding => leaseUntil'[on[v]] = leaseUntil[on[v]]
      BY <1>2, HeldLease, ReapKeeps DEF Expired
    <2>2. HeldAlike(0)
      BY <1>2, <2>1, HeldLease DEF HeldAlike
    <2> QED BY <1>2, <2>2 DEF IInv, TypeOK
  <1>3. ASSUME NEW w \in Workers, leaseUntil' = leaseUntil, on' = on, seen' = seen,
               pc' \in {[pc EXCEPT ![w] = "supply"], [pc EXCEPT ![w] = "try"]}
        PROVE  Goal
    BY <1>3, NoTimePasses DEF IInv, TypeOK
  <1>4. ASSUME NEW w \in Workers, NEW reaps \in BOOLEAN, BeginCronDrain(w, reaps)
        PROVE  Goal
    BY <1>2, <1>3, <1>4 DEF BeginCronDrain
  <1>5. ASSUME NEW w \in Workers, NEW reaps \in BOOLEAN, NEW S \in SUBSET Jobs,
               BeginInlineDrain(w, S, reaps)
        PROVE  Goal
    BY <1>2, <1>3, <1>5 DEF BeginInlineDrain
  <1>6. ASSUME NEW w \in Workers, Kill(w) PROVE Goal
    BY <1>6, NoTimePasses DEF Kill, rows, IInv, TypeOK
  <1>7. CASE Tick
    <2>1. ASSUME NEW v \in Workers, pc[v] \in Holding
          PROVE  leaseUntil'[on[v]] = leaseUntil[on[v]] - 1
      <3>1. Lease \in Nat
        BY QueueAssumption
      <3> QED BY <1>7, <2>1, <3>1, HeldLease DEF Tick, Elapse
    <2>2. HeldAlike(1)
      BY <1>7, <2>1 DEF Tick, HeldAlike
    <2> QED BY <1>7, <2>2 DEF Tick
  <1>8. ASSUME NEW w \in Workers, Work(w) PROVE Goal
    <2>1. CASE \/ ListCandidates(w) \/ NothingLeft(w) \/ ClaimLoses(w)
               \/ CheckPeers(w) \/ PeerReadFails(w) \/ YieldLost(w)
               \/ \E j \in Jobs : Stamp(w, j)
               \/ \E stop \in BOOLEAN : SettleLost(w, stop)
      <3>1. /\ UNCHANGED <<leaseUntil, seen>>
            /\ \A v \in Workers \ {w} : pc'[v] = pc[v] /\ on'[v] = on[v]
            /\ pc'[w] \in Holding => pc[w] \in Holding /\ on'[w] = on[w]
        BY <2>1 DEF ListCandidates, NothingLeft, ClaimLoses, CheckPeers,
             PeerReadFails, YieldLost, Stamp, SettleLost, NextItem, rows, IInv, TypeOK
      <3>2. pc'[w] = "running" => pc[w] = "claimed" /\ ~OlderPeer(on[w])
        BY <2>1 DEF ListCandidates, NothingLeft, ClaimLoses, CheckPeers,
             PeerReadFails, YieldLost, Stamp, SettleLost, NextItem, rows, IInv, TypeOK
      <3>3. HeldAlike(0)
        BY <3>1, NoTimePasses
      <3> QED BY <3>1, <3>2, <3>3
    <2>2. CASE ClaimWins(w)
      <3>1. /\ on[w] \in Jobs /\ state[on[w]] = "queued" /\ pc[w] = "stamped"
        BY <2>2 DEF ClaimWins, Claimable, IInv, StampInv
      <3>2. ASSUME NEW v \in Workers, pc[v] \in Holding
            PROVE  /\ on'[v] = on[v] /\ leaseUntil'[on[v]] = leaseUntil[on[v]]
                   /\ seen'[on[v]] \subseteq seen[on[v]]
        <4>1. on[v] \in Jobs \ {on[w]}
          BY <3>1, <3>2, HeldLease
        <4> QED BY <2>2, <4>1 DEF ClaimWins, IInv, TypeOK
      <3>3. HeldAlike(0)
        BY <3>2, HeldLease DEF HeldAlike
      <3>4. pc'[w] = "claimed" /\ \A v \in Workers \ {w} : pc'[v] = pc[v]
        BY <2>2 DEF ClaimWins, IInv, TypeOK
      <3> QED BY <2>2, <3>3, <3>4
    <2>3. CASE \/ Yield(w)
               \/ \E stop \in BOOLEAN : \E outcome \in Outcomes : Settle(w, outcome, stop)
      <3>1. /\ pc[w] \in Holding /\ pc'[w] \in {"try", "supply", "idle"} /\ seen' = seen
            /\ \A v \in Workers \ {w} : pc'[v] = pc[v] /\ on'[v] = on[v]
        BY <2>3 DEF Yield, Settle, NextItem, IInv, TypeOK
      <3>2. \A j \in Jobs \ {on[w]} : leaseUntil'[j] = leaseUntil[j]
        BY <2>3, <3>1, HeldLease DEF Yield, Settle, IInv, TypeOK
      <3>3. \A v \in Workers \ {w} : pc[v] \in Holding => on[v] \in Jobs \ {on[w]}
        BY <3>1, HeldLease DEF IInv, DistinctInv
      <3>4. HeldAlike(0)
        BY <3>1, <3>2, <3>3, HeldLease DEF HeldAlike
      <3> QED BY <3>1, <3>4
    <2> QED BY <1>8, <2>1, <2>2, <2>3 DEF Work
  <1>9. CASE UNCHANGED vars
    BY <1>9, NoTimePasses DEF vars
  <1> QED BY <1>1, <1>4, <1>5, <1>6, <1>7, <1>8, <1>9 DEF Next

\* No step lets a scan start beside an older claim that was written before it.
LEMMA PeerStep ==
    ASSUME IInv, IInv', LaterClaimRunsOnlyIfOlder, [Next]_vars
    PROVE  LaterClaimRunsOnlyIfOlder'
  <1> SUFFICES ASSUME NEW v \in Workers, NEW w \in Workers,
                      pc'[v] = "running", pc'[w] \in Holding,
                      SameRepo(on'[v], on'[w]), on'[w] \in seen'[on'[v]]
               PROVE  Precedes(on[v], on[w])'
    BY DEF LaterClaimRunsOnlyIfOlder, SameRepo
  <1>1. PICK d \in {0, 1} : HeldAlike(d)
    BY HeldStep
  <1>2. pc[v] = "running" \/ (pc[v] = "claimed" /\ ~OlderPeer(on[v]))
    BY HeldStep
  <1>3. /\ pc[v] \in Holding /\ on'[v] = on[v]
        /\ leaseUntil'[on[v]] = leaseUntil[on[v]] - d
        /\ seen'[on[v]] \subseteq seen[on[v]]
    BY <1>1, <1>2 DEF HeldAlike, Holding
  <1>4. pc[w] \in Holding
    <2> SUFFICES ASSUME ClaimWins(w) PROVE FALSE
      BY HeldStep
    <2>1. on'[w] = on[w] /\ pc[w] = "stamped" /\ state[on[w]] = "queued"
      BY DEF ClaimWins, Claimable
    <2>2. on[v] # on[w] /\ on[v] \in Jobs
      BY <1>3, <2>1, HeldLease
    <2> QED BY <1>3, <2>1, <2>2 DEF ClaimWins
  <1>5. on'[w] = on[w] /\ leaseUntil'[on[w]] = leaseUntil[on[w]] - d
    BY <1>1, <1>4 DEF HeldAlike
  <1>6. Precedes(on[v], on[w])
    BY <1>2, <1>3, <1>4, <1>5, CheckedPrecedesHeld DEF LaterClaimRunsOnlyIfOlder
  <1>7. leaseUntil[on[v]] \in Int /\ leaseUntil[on[w]] \in Int /\ d \in Int
    BY <1>3, <1>4, HeldLease
  <1> QED BY <1>3, <1>5, <1>6, <1>7 DEF Precedes

\* Two scans of one repository run at once only against the order of their stamps.
THEOREM PeerCheckOrdersScans == Spec => []LaterClaimRunsOnlyIfOlder
  <1>1. Init => LaterClaimRunsOnlyIfOlder
    BY DEF Init, LaterClaimRunsOnlyIfOlder
  <1>2. IInv /\ IInv' /\ LaterClaimRunsOnlyIfOlder /\ [Next]_vars => LaterClaimRunsOnlyIfOlder'
    BY PeerStep
  <1> QED BY <1>1, <1>2, InvHolds, PTL DEF Spec

-----------------------------------------------------------------------------
\* No write of any worker reaches a row that is settled.
THEOREM SettledStaysSettled == Spec => SettledIsFinal
  <1>1. ASSUME IInv, [Next]_vars, NEW k \in Jobs, state[k] \in Settled
        PROVE  state'[k] = state[k]
    <2> USE <1>1 DEF Settled
    <2>1. CASE \E j \in Jobs : Enqueue(j)
      BY <2>1 DEF Enqueue, IInv, TypeOK
    <2>2. CASE ReapExpiredLeases
      BY <2>2, ReapKeeps DEF Expired
    <2>3. ASSUME NEW w \in Workers, Work(w) PROVE state'[k] = state[k]
      <3>1. CASE ClaimWins(w)
        BY <3>1 DEF ClaimWins, Claimable, IInv, TypeOK
      <3>2. CASE \/ Yield(w)
                 \/ \E stop \in BOOLEAN : \E outcome \in Outcomes : Settle(w, outcome, stop)
        <4>1. state[on[w]] = "claimed"
          BY <3>2, HeldLease DEF Yield, Settle, Holding
        <4> QED BY <3>2, <4>1 DEF Yield, Settle, IInv, TypeOK
      <3>3. CASE UNCHANGED rows
        BY <3>3 DEF rows
      <3> QED BY <2>3, <3>1, <3>2, <3>3 DEF Work, ListCandidates, NothingLeft, Stamp,
                 ClaimLoses, CheckPeers, PeerReadFails, YieldLost, SettleLost
    <2>4. CASE UNCHANGED state
      BY <2>4
    <2> QED BY <2>1, <2>2, <2>3, <2>4
            DEF Next, BeginCronDrain, BeginInlineDrain, Kill, Tick, rows, vars
  <1>2. IInv /\ [Next]_vars => [\A j \in Jobs : state[j] \in Settled => state'[j] = state[j]]_vars
    BY <1>1
  <1> QED BY <1>2, InvHolds, PTL DEF Spec, SettledIsFinal
-----------------------------------------------------------------------------
(* ScanQueue implements JobLife.                                             *)

\* A step after which the same workers hold the same rows.
LEMMA LiveKept ==
    ASSUME \A w \in Workers :
               /\ pc'[w] \in Holding <=> pc[w] \in Holding
               /\ pc[w] \in Holding => on'[w] = on[w]
    PROVE  Live' = Live
  BY DEF Live

\* When holder w lets go, its row alone leaves the hands of the workers.
LEMMA LiveDrops ==
    ASSUME IInv, NEW w \in Workers, pc[w] \in Holding, pc'[w] \notin Holding,
           \A v \in Workers \ {w} : pc'[v] = pc[v] /\ on'[v] = on[v]
    PROVE  on[w] \in Live /\ Live' = Live \ {on[w]}
  <1>1. on[w] \in Live
    BY DEF Live
  <1>2. Live' \subseteq Live \ {on[w]}
    BY DEF Live, IInv, DistinctInv
  <1>3. Live \ {on[w]} \subseteq Live'
    BY DEF Live
  <1> QED BY <1>1, <1>2, <1>3

\* A drain's head, which may reap: only rows that no live worker holds.
LEMMA ReapMaps ==
    ASSUME IInv, ReapExpiredLeases, UNCHANGED attempts, Live' = Live
    PROVE  [Life!Next]_<<state, attempts, Live>>
  <1> DEFINE S == {j \in Jobs : Expired(j)}
  <1>1. \A j \in S : state[j] = "claimed" /\ j \notin Live
    BY HeldLease DEF Expired, Live
  <1>2. state' = [j \in Jobs |->
                    IF j \notin S THEN state[j]
                    ELSE IF attempts[j] < MaxAttempts THEN "queued" ELSE "failed"]
    BY DEF ReapExpiredLeases
  <1>3. CASE S = {}
    <2>1. state' = state
      BY <1>2, <1>3 DEF IInv, TypeOK
    <2> QED BY <2>1
  <1>4. CASE S # {}
    <2>1. Life!Reap(S)
      BY <1>1, <1>2, <1>4 DEF Life!Reap
    <2> QED BY <2>1 DEF Life!Next
  <1> QED BY <1>3, <1>4

\* A worker's step is a step of JobLife or changes nothing that it shows.
LEMMA WorkMaps ==
    ASSUME IInv, NEW w \in Workers, Work(w)
    PROVE  [Life!Next]_<<state, attempts, Live>>
  <1>1. CASE \/ ListCandidates(w) \/ NothingLeft(w) \/ ClaimLoses(w) \/ CheckPeers(w)
             \/ \E j \in Jobs : Stamp(w, j)
    <2>1. /\ UNCHANGED <<state, attempts>>
          /\ \A v \in Workers \ {w} : pc'[v] = pc[v] /\ on'[v] = on[v]
      BY <1>1 DEF ListCandidates, NothingLeft, ClaimLoses, CheckPeers, Stamp, rows,
           IInv, TypeOK
    <2>2. /\ pc'[w] \in Holding <=> pc[w] \in Holding
          /\ pc[w] \in Holding => on'[w] = on[w]
      BY <1>1 DEF ListCandidates, NothingLeft, ClaimLoses, CheckPeers, Stamp, rows,
           IInv, TypeOK, Holding
    <2>3. Live' = Live
      BY <2>1, <2>2, LiveKept
    <2> QED BY <2>1, <2>3
  <1>2. CASE \/ PeerReadFails(w) \/ YieldLost(w)
             \/ \E stop \in BOOLEAN : SettleLost(w, stop)
    <2>1. /\ pc[w] \in Holding /\ pc'[w] \notin Holding
          /\ \A v \in Workers \ {w} : pc'[v] = pc[v] /\ on'[v] = on[v]
          /\ UNCHANGED <<state, attempts>>
      BY <1>2 DEF PeerReadFails, YieldLost, SettleLost, NextItem, rows, IInv, TypeOK, Holding
    <2>2. Life!Drop(on[w])
      BY <2>1, LiveDrops, HeldLease DEF Life!Drop, Life!Held
    <2>3. on[w] \in Jobs
      BY <2>1, HeldLease
    <2> QED BY <2>2, <2>3 DEF Life!Next
  <1>3. CASE ClaimWins(w)
    <2> DEFINE j == on[w]
    <2>1. j \in Jobs /\ state[j] = "queued"
      BY <1>3 DEF ClaimWins, Claimable, IInv, StampInv
    <2>2. /\ state' = [state EXCEPT ![j] = "claimed"]
          /\ attempts' = [attempts EXCEPT ![j] = @ + 1]
          /\ on' = on /\ pc[w] = "stamped" /\ pc'[w] = "claimed"
          /\ \A v \in Workers \ {w} : pc'[v] = pc[v]
      BY <1>3 DEF ClaimWins, IInv, TypeOK
    <2>3. Live' = Live \cup {j}
      BY <2>2 DEF Live, Holding
    <2>4. Life!Claim(j)
      BY <2>1, <2>2, <2>3 DEF Life!Claim
    <2> QED BY <2>1, <2>4 DEF Life!Next
  <1>4. ASSUME \/ Yield(w)
               \/ \E stop \in BOOLEAN : \E outcome \in Outcomes : Settle(w, outcome, stop)
        PROVE  Life!Next
    <2>1. /\ pc[w] \in Holding /\ pc'[w] \notin Holding
          /\ \A v \in Workers \ {w} : pc'[v] = pc[v] /\ on'[v] = on[v]
          /\ UNCHANGED attempts
      BY <1>4 DEF Yield, Settle, NextItem, IInv, TypeOK, Holding
    <2>2. on[w] \in Jobs /\ Life!Held(on[w]) /\ Live' = Live \ {on[w]}
      BY <2>1, LiveDrops, HeldLease DEF Life!Held
    <2>3. CASE Yield(w)
      <3>1. Life!Return(on[w])
        BY <2>1, <2>2, <2>3 DEF Yield, Life!Return
      <3> QED BY <2>2, <3>1 DEF Life!Next
    <2>4. ASSUME NEW stop \in BOOLEAN, NEW outcome \in Outcomes, Settle(w, outcome, stop)
          PROVE  Life!Next
      <3>1. Life!Settle(on[w], outcome)
        BY <2>1, <2>2, <2>4 DEF Settle, Life!Settle
      <3>2. outcome \in Life!Settled
        BY QueueAssumption DEF Settled, Life!Settled
      <3> QED BY <2>2, <3>1, <3>2 DEF Life!Next
    <2> QED BY <1>4, <2>3, <2>4
  <1> QED BY <1>1, <1>2, <1>3, <1>4 DEF Work

\* So is every step of the queue.
LEMMA StepMaps == ASSUME IInv, [Next]_vars PROVE [Life!Next]_<<state, attempts, Live>>
  <1>1. ASSUME NEW j \in Jobs, Enqueue(j) PROVE Life!Next
    <2>1. Live' = Live
      BY <1>1, LiveKept DEF Enqueue
    <2>2. Life!Enqueue(j)
      BY <1>1, <2>1 DEF Enqueue, Life!Enqueue
    <2> QED BY <2>2 DEF Life!Next
  <1>2. ASSUME NEW w \in Workers, NEW reaps \in BOOLEAN,
               \/ BeginCronDrain(w, reaps)
               \/ \E S \in SUBSET Jobs : BeginInlineDrain(w, S, reaps)
        PROVE  [Life!Next]_<<state, attempts, Live>>
    <2>1. \A v \in Workers : /\ pc'[v] \in Holding <=> pc[v] \in Holding
                             /\ pc[v] \in Holding => on'[v] = on[v]
      BY <1>2 DEF BeginCronDrain, BeginInlineDrain, IInv, TypeOK, Holding
    <2>2. Live' = Live
      BY <2>1, LiveKept
    <2> QED BY <1>2, <2>2, ReapMaps DEF BeginCronDrain, BeginInlineDrain
  <1>3. ASSUME NEW w \in Workers, Kill(w) PROVE Life!Next
    <2>1. /\ pc[w] \in Holding /\ pc'[w] \notin Holding
          /\ \A v \in Workers \ {w} : pc'[v] = pc[v] /\ on'[v] = on[v]
          /\ UNCHANGED <<state, attempts>>
      BY <1>3 DEF Kill, rows, IInv, TypeOK, Holding
    <2>2. Life!Drop(on[w])
      BY <2>1, LiveDrops, HeldLease DEF Life!Drop, Life!Held
    <2> QED BY <2>1, <2>2, HeldLease DEF Life!Next
  <1>4. CASE Tick
    <2>1. Live' = Live
      BY <1>4, LiveKept DEF Tick
    <2> QED BY <1>4, <2>1 DEF Tick
  <1>5. CASE UNCHANGED vars
    <2>1. Live' = Live
      BY <1>5, LiveKept DEF vars
    <2> QED BY <1>5, <2>1 DEF vars
  <1> QED BY <1>1, <1>2, <1>3, <1>4, <1>5, WorkMaps DEF Next

\* The queue implements JobLife: a claim hands a row to one live run, and only a
\* row that no live run has is reaped.
THEOREM QueueImplementsJobLife == Spec => ImplementsJobLife
  <1>1. Init => Life!Init
    BY DEF Init, Life!Init, Live, Holding
  <1>2. IInv /\ [Next]_vars => [Life!Next]_<<state, attempts, Live>>
    BY StepMaps
  <1> QED BY <1>1, <1>2, InvHolds, PTL DEF Spec, ImplementsJobLife, Life!Spec
=============================================================================
