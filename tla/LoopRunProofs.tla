----------------------------- MODULE LoopRunProofs -----------------------------
(***************************************************************************)
(* Theorems about LoopRun, for any lanes, any number of cycles and either  *)
(* cadence of the rescans; and what they and those about FollowupClaims    *)
(* say of the two together (MCLocalLanes).                                 *)
(***************************************************************************)
EXTENDS MCLocalLanes, FollowupClaimsProofs, WellFoundedInduction

-----------------------------------------------------------------------------
(* The inductive invariant.                                                  *)

\* What the driver holds of a lane.
LaneRecs == [at : {"ready", "setup", "stage", "exit", "settle", "settled", "deliver", "over"},
             dog : {"none", "set", "cut", "late"}, end : Ends, owed : SUBSET Cycles,
             progressed : BOOLEAN, wedged : BOOLEAN]

\* What the driver and the registry hold of the run, and its row.
EngineRecs == [up : BOOLEAN, died : BOOLEAN, live : BOOLEAN, stop : BOOLEAN, bitten : BOOLEAN,
               terminated : BOOLEAN, threw : BOOLEAN,
               driver : {"cycling", "closing", "failing", "gone"}, cycle : Cycles]
RunRows == [phase : {"running", "stopped", "done", "error"}, word : {"none", "abandoned", "interrupted"}]

\* A lane owes and is watched only where it can be, and a claim that was ruled on is no longer held.
LaneOK(l) ==
    /\ lane[l].owed # {} => lane[l].at \in {"settle", "settled"}
    /\ lane[l].dog # "none" => lane[l].at \in {"stage", "exit", "settle", "settled"}
    /\ lane[l].at = "exit" => lane[l].end # "none"
    /\ lane[l].at = "exit" /\ lane[l].end = "adjudicated" => engine.cycle \notin held[l]

\* What a lane has in hand: all its claims but the stranded ones.
InHand(l) == pending[l] \cup lane[l].owed
             \cup (IF lane[l].at \in {"stage", "exit"} THEN {engine.cycle} ELSE {})
Kept(l) == held[l] \subseteq stranded[l] \cup InHand(l)
KeptOK == engine.died \/ \A l \in Lanes : Kept(l)

\* A driver that comes to its end has no lane left, unless one threw, and behind its finally it has no
\* timer, no entry and no queue.
DriverOK ==
    /\ engine.live => engine.up /\ engine.driver \in {"cycling", "closing"} /\ ~engine.terminated
    /\ engine.driver \in {"failing", "gone"} =>
           ~engine.live /\ teeth.timer = "none" /\ \A l \in Lanes : pending[l] = {}
    /\ ~engine.up => engine.driver = "gone"
    /\ engine.driver # "cycling" /\ ~engine.threw => \A l \in Lanes : lane[l].at = "over"
    /\ engine.threw => engine.driver # "cycling"
    /\ engine.driver = "failing" => engine.threw
    /\ sweep = "stop" => ~engine.live

\* The row says running as long as the driver has written no end and the backstop has not ended the run.
RowOK ==
    /\ engine.driver = "cycling" \/ (engine.driver = "closing" /\ engine.threw) =>
           engine.terminated \/ (engine.live /\ runRow.phase = "running")
    /\ engine.terminated => teeth.timer = "none"

\* The inductive invariant: it keeps ClaimsHaveAKeeper, which is not inductive without the lanes' and
\* the driver's part.
LoopInv == LoopTypeOK /\ DriverOK /\ RowOK /\ KeptOK /\ \A l \in Lanes : LaneOK(l)

\* What the bite cut, it named; what it did not see, it cannot cut.
TeethOK ==
    /\ engine.stop => teeth.timer # "none" \/ engine.bitten \/ ~engine.live
    /\ engine.bitten => engine.stop /\ teeth.timer # "grace"
    /\ teeth.timer # "none" => engine.stop
    /\ teeth.timer = "backstop" => engine.bitten
    /\ \A l \in Lanes :
         /\ lane[l].dog = "cut" => engine.bitten /\ (teeth.timer = "none" \/ KeyOf(l) \in teeth.inFlight)
         /\ lane[l].dog \in {"cut", "late"} => engine.bitten
         /\ engine.bitten => lane[l].dog # "set"
         /\ engine.bitten /\ teeth.timer = "none" /\ lane[l].dog = "cut" => ~engine.live

\* Once the timers of a stop are spent, a lane that does not move while the registry has the run is one
\* that the teeth could not reach.
StopIsPursued ==
    engine.stop /\ engine.live /\ teeth.timer = "none" =>
        \A l \in Lanes : lane[l].at # "over" /\ lane[l].wedged => OutOfReach(l)

\* A run whose driver came to its end without a lane that threw, however it ended and whoever wrote the
\* row, holds no claim but those whose release failed.
NothingIsLeftBehind ==
    engine.driver = "gone" /\ ~engine.died /\ ~engine.threw => \A l \in Lanes : held[l] \subseteq stranded[l]

\* A lane that begins anew is of its type.
LEMMA LaneAtType ==
    ASSUME NEW at \in {"ready", "setup", "stage", "exit", "settle", "settled", "deliver", "over"},
           NEW progressed \in BOOLEAN
    PROVE  /\ LaneAt(at, progressed) \in LaneRecs
           /\ LaneAt(at, progressed).at = at /\ LaneAt(at, progressed).dog = "none"
           /\ LaneAt(at, progressed).end = "none" /\ LaneAt(at, progressed).owed = {}
           /\ LaneAt(at, progressed).progressed = progressed /\ LaneAt(at, progressed).wedged = FALSE
  BY DEF LaneAt, LaneRecs, Ends

\* At first no lane has anything.
LEMMA LoopInitInv ==
    ASSUME LoopInit
    PROVE  LoopInv /\ TeethOK
  <1>1. \A l \in Lanes : lane[l] = LaneAt("ready", FALSE)
    BY DEF LoopInit
  <1>2. LaneAt("ready", FALSE) \in LaneRecs
    BY LaneAtType
  <1>3. 1 \in Cycles
    BY LoopAssumption DEF Cycles
  <1>4. LoopTypeOK
    <2>1. engine \in EngineRecs
      BY <1>3 DEF LoopInit, EngineRecs
    <2>2. lane \in [Lanes -> LaneRecs]
      BY <1>2 DEF LoopInit
    <2>3. open \in [Lanes -> 0..MaxCycles]
      BY LoopAssumption DEF LoopInit
    <2>4. /\ runRow \in RunRows
          /\ held \in [Lanes -> SUBSET Cycles] /\ pending \in [Lanes -> SUBSET Cycles]
          /\ stranded \in [Lanes -> SUBSET Cycles]
          /\ teeth \in [timer : {"none", "grace", "backstop"}, inFlight : SUBSET LaneKeys] /\ sweep = "idle"
      BY DEF LoopInit, RunRows
    <2> QED BY <2>1, <2>2, <2>3, <2>4 DEF LoopTypeOK, LaneRecs, EngineRecs, RunRows
  <1>5. \A l \in Lanes : lane[l].at = "ready" /\ lane[l].dog = "none" /\ lane[l].owed = {}
    BY <1>1, LaneAtType
  <1>6. DriverOK /\ RowOK /\ KeptOK
    BY <1>5 DEF LoopInit, DriverOK, RowOK, KeptOK, Kept, InHand
  <1>7. TeethOK /\ \A l \in Lanes : LaneOK(l)
    BY <1>5 DEF LoopInit, TeethOK, LaneOK
  <1> QED BY <1>4, <1>6, <1>7 DEF LoopInv

\* A lane record with all but its wedge set anew.
Edited(x, at, dog, end, owed, progressed) ==
    [x EXCEPT !.at = at, !.dog = dog, !.end = end, !.owed = owed, !.progressed = progressed]

\* ... is a lane record with these fields.
LEMMA EditedIs ==
    ASSUME NEW x \in LaneRecs,
           NEW at \in {"ready", "setup", "stage", "exit", "settle", "settled", "deliver", "over"},
           NEW dog \in {"none", "set", "cut", "late"}, NEW end \in Ends, NEW owed \in SUBSET Cycles,
           NEW progressed \in BOOLEAN
    PROVE  LET r == Edited(x, at, dog, end, owed, progressed)
           IN  r \in LaneRecs /\ r.at = at /\ r.dog = dog /\ r.end = end /\ r.owed = owed
  <1> DEFINE r == Edited(x, at, dog, end, owed, progressed)
  <1>1. r.at = at /\ r.dog = dog /\ r.end = end /\ r.owed = owed
    BY DEF LaneRecs, Edited
  <1>2. r \in LaneRecs
    BY ZenonT(60) DEF LaneRecs, Edited
  <1> QED BY <1>1, <1>2

\* One lane is set to r, and the others stay.
LEMMA LanePut ==
    ASSUME lane \in [Lanes -> LaneRecs], NEW l \in Lanes, NEW r \in LaneRecs,
           lane' = [lane EXCEPT ![l] = r]
    PROVE  lane' \in [Lanes -> LaneRecs] /\ lane'[l] = r /\ \A k \in Lanes \ {l} : lane'[k] = lane[k]
  OBVIOUS

\* What a step of one lane has to leave behind; the driver, the row and the timer it leaves alone.
LEMMA LaneMoves ==
    ASSUME LoopInv, TeethOK, NEW l \in Lanes, lane[l].at # "over",
           UNCHANGED <<runRow, engine, teeth, sweep>>,
           lane' \in [Lanes -> LaneRecs], held' \in [Lanes -> SUBSET Cycles],
           stranded' \in [Lanes -> SUBSET Cycles],
           open' \in [Lanes -> 0..MaxCycles], pending' \in [Lanes -> SUBSET Cycles],
           \A k \in Lanes \ {l} : /\ lane'[k] = lane[k] /\ held'[k] = held[k]
                                 /\ pending'[k] = pending[k] /\ stranded'[k] = stranded[k],
           LaneOK(l)', Kept(l)' \/ engine.died, pending'[l] \subseteq pending[l] \/ QueueIsRead,
           lane'[l].dog = "cut" => /\ lane[l].dog = "cut"
                                   /\ lane'[l].at \in {"stage", "exit"} <=> lane[l].at \in {"stage", "exit"},
           lane'[l].dog = "late" => engine.bitten,
           engine.bitten => lane'[l].dog # "set"
    PROVE  LoopInv' /\ TeethOK'
  <1>1. LoopTypeOK'
    BY DEF LoopInv, LoopTypeOK, LaneRecs
  <1>2. engine.driver = "cycling" \/ engine.threw
    BY DEF LoopInv, LoopTypeOK, DriverOK
  <1>3. DriverOK' /\ RowOK'
    <2>1. RowOK'
      BY DEF LoopInv, RowOK
    <2>2. engine.driver \in {"failing", "gone"} => pending'[l] = {}
      BY DEF LoopInv, DriverOK, QueueIsRead
    <2>3. engine.driver \in {"failing", "gone"} => \A k \in Lanes : pending'[k] = {}
      BY <2>2 DEF LoopInv, DriverOK
    <2>4. engine.driver # "cycling" /\ ~engine.threw => \A k \in Lanes : lane'[k].at = "over"
      BY <1>2
    <2> QED BY <2>1, <2>3, <2>4 DEF LoopInv, DriverOK
  <1>4. KeptOK'
    <2>1. ASSUME NEW k \in Lanes \ {l}, Kept(k) PROVE Kept(k)'
      BY <2>1 DEF Kept, InHand
    <2> QED BY <2>1 DEF LoopInv, KeptOK
  <1>5. ASSUME NEW k \in Lanes PROVE LaneOK(k)'
    BY <1>5 DEF LoopInv, LaneOK
  <1>6. TeethOK'
    BY <1>2 DEF TeethOK, KeyOf
  <1> QED BY <1>1, <1>3, <1>4, <1>5, <1>6 DEF LoopInv

\* The watchdog of whoever comes in after the bite is late.
LEMMA WatchdogOK ==
    ASSUME LoopInv
    PROVE  /\ Watchdog \in {"set", "late"}
           /\ Watchdog = "late" <=> engine.bitten
  BY DEF Watchdog, LoopInv, LoopTypeOK

\* A lane that enters has nothing of another cycle.
LEMMA EnterStep ==
    ASSUME LoopInv, TeethOK, NEW l \in Lanes, lane[l].at \in {"ready", "setup"}, Enters(l),
           UNCHANGED <<runRow, held, stranded, engine, teeth, pending, sweep>>
    PROVE  LoopInv' /\ TeethOK'
  <1> DEFINE r == [LaneAt("stage", FALSE) EXCEPT !.dog = Watchdog]
  <1>1. r \in LaneRecs /\ r.at = "stage" /\ r.dog = Watchdog /\ r.owed = {}
    BY WatchdogOK DEF LaneAt, LaneRecs, Ends
  <1>2. /\ lane \in [Lanes -> LaneRecs] /\ open \in [Lanes -> 0..MaxCycles] /\ engine.cycle \in Cycles
        /\ held \in [Lanes -> SUBSET Cycles] /\ pending \in [Lanes -> SUBSET Cycles]
        /\ stranded \in [Lanes -> SUBSET Cycles]
    BY DEF LoopInv, LoopTypeOK, LaneRecs
  <1>3. lane' = [lane EXCEPT ![l] = r] /\ open' = [open EXCEPT ![l] = engine.cycle]
    BY DEF Enters
  <1>4. lane'[l] = r /\ lane' \in [Lanes -> LaneRecs] /\ \A k \in Lanes \ {l} : lane'[k] = lane[k]
    BY <1>1, <1>2, <1>3
  <1>5. open' \in [Lanes -> 0..MaxCycles]
    BY <1>2, <1>3, LoopAssumption DEF Cycles
  <1>6. lane[l].owed = {}
    BY DEF LoopInv, LaneOK
  <1>7. Kept(l)' \/ engine.died
    BY <1>1, <1>4, <1>6 DEF LoopInv, KeptOK, Kept, InHand
  <1>8. LaneOK(l)'
    BY <1>1, <1>4, WatchdogOK DEF LaneOK
  <1> QED BY <1>1, <1>2, <1>4, <1>5, <1>7, <1>8, WatchdogOK, LaneMoves

\* A lane that falls out of its cycle, its claims queued or given back.
LEMMA RestStep ==
    ASSUME LoopInv, TeethOK, NEW l \in Lanes, lane[l].at # "over",
           NEW at \in {"setup", "deliver", "over"}, NEW progressed \in BOOLEAN,
           lane' = [lane EXCEPT ![l] = LaneAt(at, progressed)],
           UNCHANGED <<runRow, engine, teeth, sweep>>,
           open' \in [Lanes -> 0..MaxCycles], held' \in [Lanes -> SUBSET Cycles], pending' \in [Lanes -> SUBSET Cycles],
           stranded' \in [Lanes -> SUBSET Cycles],
           \A k \in Lanes \ {l} : held'[k] = held[k] /\ pending'[k] = pending[k] /\ stranded'[k] = stranded[k],
           pending'[l] \subseteq pending[l] \/ QueueIsRead,
           held'[l] \subseteq stranded'[l] \cup pending'[l] \/ engine.died
    PROVE  LoopInv' /\ TeethOK'
  <1>1. lane \in [Lanes -> LaneRecs]
    BY DEF LoopInv, LoopTypeOK, LaneRecs
  <1>2. LaneAt(at, progressed) \in LaneRecs
    BY LaneAtType
  <1>3. lane'[l] = LaneAt(at, progressed) /\ lane' \in [Lanes -> LaneRecs] /\ \A k \in Lanes \ {l} : lane'[k] = lane[k]
    BY <1>1, <1>2
  <1>4. lane'[l].at = at /\ lane'[l].dog = "none" /\ lane'[l].owed = {}
    <2>2. /\ LaneAt(at, progressed).at = at /\ LaneAt(at, progressed).dog = "none"
          /\ LaneAt(at, progressed).owed = {}
      BY DEF LaneAt
    <2> QED BY <1>3, <2>2
  <1>5. LaneOK(l)'
    BY <1>4 DEF LaneOK
  <1>6. Kept(l)' \/ engine.died
    BY <1>4 DEF Kept, InHand
  <1> QED BY <1>3, <1>4, <1>5, <1>6, LaneMoves

\* A leg begins: the stop ends it, the worktree is still to make, or it enters its cycle.
LEMMA BeginStep ==
    ASSUME LoopInv, TeethOK, NEW l \in Lanes, LegBegins(l) \/ WorktreeMade(l)
    PROVE  LoopInv' /\ TeethOK'
  <1>1. /\ UNCHANGED <<runRow, held, stranded, engine, teeth, pending, sweep>>
        /\ lane[l].at \in {"ready", "setup"}
    BY DEF LegBegins, WorktreeMade, Moves
  <1>2. CASE Enters(l)
    BY <1>1, <1>2, EnterStep
  <1>3. /\ lane \in [Lanes -> LaneRecs] /\ open \in [Lanes -> 0..MaxCycles]
        /\ held \in [Lanes -> SUBSET Cycles] /\ pending \in [Lanes -> SUBSET Cycles]
        /\ stranded \in [Lanes -> SUBSET Cycles]
    BY DEF LoopInv, LoopTypeOK, LaneRecs
  <1>4. lane[l].owed = {} /\ lane[l].dog = "none"
    BY <1>1 DEF LoopInv, LaneOK
  <1>5. held[l] \subseteq stranded[l] \cup pending[l] \/ engine.died
    BY <1>1, <1>4 DEF LoopInv, KeptOK, Kept, InHand
  <1>6. CASE lane' = [lane EXCEPT ![l] = LaneAt("over", FALSE)] /\ UNCHANGED open
    BY <1>1, <1>3, <1>5, <1>6, RestStep
  <1>7. CASE lane' = [lane EXCEPT ![l].at = "setup"] /\ UNCHANGED open
    <2>1. /\ lane' \in [Lanes -> LaneRecs] /\ \A k \in Lanes \ {l} : lane'[k] = lane[k]
          /\ lane'[l].at = "setup" /\ lane'[l].owed = {} /\ lane'[l].dog = "none"
      BY <1>3, <1>4, <1>7 DEF LaneRecs
    <2>2. LaneOK(l)'
      BY <2>1 DEF LaneOK
    <2>3. Kept(l)' \/ engine.died
      BY <1>1, <1>5, <2>1 DEF Kept, InHand
    <2> QED BY <1>1, <1>3, <1>7, <2>1, <2>2, <2>3, LaneMoves
  <1> QED BY <1>2, <1>6, <1>7 DEF LegBegins, WorktreeMade

\* The claim of this cycle is the lane's, as long as it is in its stage.
LEMMA ClaimStep ==
    ASSUME LoopInv, TeethOK, NEW l \in Lanes, ClaimBatch(l)
    PROVE  LoopInv' /\ TeethOK'
  <1>1. /\ lane \in [Lanes -> LaneRecs] /\ open \in [Lanes -> 0..MaxCycles] /\ engine.cycle \in Cycles
        /\ held \in [Lanes -> SUBSET Cycles] /\ pending \in [Lanes -> SUBSET Cycles]
        /\ stranded \in [Lanes -> SUBSET Cycles]
    BY DEF LoopInv, LoopTypeOK, LaneRecs
  <1>2. /\ UNCHANGED <<runRow, stranded, open, engine, teeth, lane, pending, sweep>> /\ lane[l].at = "stage"
        /\ held' = [held EXCEPT ![l] = @ \cup {engine.cycle}]
    BY DEF ClaimBatch, Moves
  <1>3. /\ held' \in [Lanes -> SUBSET Cycles] /\ \A k \in Lanes \ {l} : held'[k] = held[k]
        /\ held'[l] = held[l] \cup {engine.cycle}
    BY <1>1, <1>2
  <1>4. LaneOK(l)'
    BY <1>2 DEF LoopInv, LaneOK
  <1>5. Kept(l)' \/ engine.died
    BY <1>2, <1>3 DEF LoopInv, KeptOK, Kept, InHand
  <1> QED BY <1>1, <1>2, <1>3, <1>4, <1>5, LaneMoves DEF TeethOK

\* An end that ruled on the claim leaves it no longer held.
LEMMA EndStep ==
    ASSUME LoopInv, TeethOK, NEW l \in Lanes, NEW end \in Ends, LaneEnds(l, end)
    PROVE  LoopInv' /\ TeethOK'
  <1>1. /\ lane \in [Lanes -> LaneRecs] /\ open \in [Lanes -> 0..MaxCycles]
        /\ held \in [Lanes -> SUBSET Cycles] /\ pending \in [Lanes -> SUBSET Cycles]
        /\ stranded \in [Lanes -> SUBSET Cycles]
    BY DEF LoopInv, LoopTypeOK, LaneRecs
  <1>2. /\ UNCHANGED <<runRow, stranded, open, engine, teeth, pending, sweep>>
        /\ lane[l].at = "stage" /\ end # "none"
        /\ lane' = [lane EXCEPT ![l].at = "exit", ![l].end = end, ![l].progressed = end # "released"]
        /\ held' = IF end = "adjudicated" THEN [held EXCEPT ![l] = @ \ {engine.cycle}] ELSE held
    BY DEF LaneEnds, Moves
  <1>3. /\ lane' \in [Lanes -> LaneRecs] /\ \A k \in Lanes \ {l} : lane'[k] = lane[k]
        /\ lane'[l].at = "exit" /\ lane'[l].end = end /\ lane'[l].owed = lane[l].owed /\ lane'[l].dog = lane[l].dog
    <2> DEFINE r == Edited(lane[l], "exit", lane[l].dog, end, lane[l].owed, end # "released")
    <2>1. lane' = [lane EXCEPT ![l] = r]
      BY <1>1, <1>2 DEF LaneRecs, Edited
    <2>2. lane[l] \in LaneRecs /\ lane[l].dog \in {"none", "set", "cut", "late"} /\ lane[l].owed \in SUBSET Cycles
      BY <1>1 DEF LaneRecs
    <2>3. PICK moved \in BOOLEAN : moved = (end # "released")
      OBVIOUS
    <2>4. r = Edited(lane[l], "exit", lane[l].dog, end, lane[l].owed, moved)
      BY <2>3
    <2>5. r \in LaneRecs /\ r.at = "exit" /\ r.dog = lane[l].dog /\ r.end = end /\ r.owed = lane[l].owed
      <3> HIDE DEF r
      <3> QED BY <2>2, <2>4, EditedIs
    <2> HIDE DEF r
    <2> QED BY <1>1, <2>1, <2>5, LanePut
  <1>4. /\ held' \in [Lanes -> SUBSET Cycles] /\ \A k \in Lanes \ {l} : held'[k] = held[k]
        /\ held'[l] \subseteq held[l]
        /\ end = "adjudicated" => engine.cycle \notin held'[l]
    BY <1>1, <1>2
  <1>5. LaneOK(l)'
    <2>1. LaneOK(l)
      BY DEF LoopInv
    <2>2. lane[l].owed = {}
      BY <1>2, <2>1 DEF LaneOK
    <2>3. engine' = engine
      BY <1>2
    <2> QED BY <1>2, <1>3, <1>4, <2>2, <2>3 DEF LaneOK
  <1>6. Kept(l)' \/ engine.died
    BY <1>2, <1>3, <1>4 DEF LoopInv, KeptOK, Kept, InHand
  <1>7. /\ lane'[l].dog = "late" => engine.bitten
        /\ engine.bitten => lane'[l].dog # "set"
    BY <1>3 DEF TeethOK
  <1> QED BY <1>1, <1>2, <1>3, <1>4, <1>5, <1>6, <1>7, LaneMoves

\* The last of the cycles that wait is one of them.
LEMMA LastWaits ==
    ASSUME NEW T, T \subseteq Cycles, T # {}
    PROVE  (CHOOSE c \in T : \A d \in T : d <= c) \in T
  <1> DEFINE Less == {ss \in Nat \X Nat : ss[1] < ss[2]}
             Short == {MaxCycles - c : c \in T}
  <1>1. MaxCycles \in Nat /\ \A c \in T : c \in Nat /\ c <= MaxCycles
    BY LoopAssumption DEF Cycles
  <1>2. Short \subseteq Nat /\ Short # {}
    BY <1>1
  <1>3. IsWellFoundedOn(Less, Nat)
    BY NatLessThanWellFounded DEF OpToRel
  <1>4. PICK x \in Short : \A y \in Short : <<y, x>> \notin Less
    <2> HIDE DEF Less, Short
    <2> QED BY <1>2, <1>3, WFMin
  <1>5. PICK c \in T : x = MaxCycles - c
    OBVIOUS
  <1>6. ASSUME NEW d \in T PROVE d <= c
    <2>1. ~(MaxCycles - d < MaxCycles - c)
      BY <1>1, <1>2, <1>4, <1>5
    <2> QED BY <1>1, <2>1
  <1> QED BY <1>5, <1>6

\* What is given back is no longer held, or stranded.
LEMMA GivenBack ==
    ASSUME NEW l \in Lanes, held \in [Lanes -> SUBSET Cycles], stranded \in [Lanes -> SUBSET Cycles],
           NEW cycles, cycles \subseteq Cycles, GivesBack(l, cycles)
    PROVE  /\ held' \in [Lanes -> SUBSET Cycles] /\ stranded' \in [Lanes -> SUBSET Cycles]
           /\ \A k \in Lanes \ {l} : held'[k] = held[k] /\ stranded'[k] = stranded[k]
           /\ held'[l] \subseteq held[l] /\ stranded[l] \subseteq stranded'[l]
           /\ held'[l] \cap cycles \subseteq stranded'[l]
  <1>1. PICK lost \in SUBSET (cycles \cap held[l]) :
            /\ held' = [held EXCEPT ![l] = @ \ (cycles \ lost)]
            /\ stranded' = [stranded EXCEPT ![l] = @ \cup lost]
    BY DEF GivesBack
  <1>2. lost \subseteq Cycles
    BY <1>1
  <1> QED BY <1>1, <1>2

\* The claim of this cycle is given back or queued, and a queue that is settled is owed by the lane.
LEMMA ReturnStep ==
    ASSUME LoopInv, TeethOK, NEW l \in Lanes, LaneReturns(l)
    PROVE  LoopInv' /\ TeethOK'
  <1>1. /\ lane \in [Lanes -> LaneRecs] /\ open \in [Lanes -> 0..MaxCycles] /\ engine.cycle \in Cycles
        /\ held \in [Lanes -> SUBSET Cycles] /\ pending \in [Lanes -> SUBSET Cycles]
        /\ stranded \in [Lanes -> SUBSET Cycles]
        /\ lane[l].progressed \in BOOLEAN /\ lane[l].end \in Ends
    BY DEF LoopInv, LoopTypeOK, LaneRecs
  <1>2. /\ UNCHANGED <<runRow, engine, teeth, sweep>> /\ lane[l].at = "exit"
        /\ lane[l].end \in Releasing => GivesBack(l, {engine.cycle})
        /\ lane[l].end \notin Releasing =>
              /\ UNCHANGED held
              /\ stranded' = IF lane[l].end = "deferred" /\ ~QueueIsRead
                             THEN [stranded EXCEPT ![l] = @ \cup {engine.cycle}] ELSE stranded
    BY DEF LaneReturns, Moves
  <1>3. /\ held' \in [Lanes -> SUBSET Cycles] /\ \A k \in Lanes \ {l} : held'[k] = held[k]
        /\ stranded' \in [Lanes -> SUBSET Cycles] /\ \A k \in Lanes \ {l} : stranded'[k] = stranded[k]
        /\ held'[l] \subseteq held[l] /\ stranded[l] \subseteq stranded'[l]
        /\ lane[l].end \in Releasing \/ (lane[l].end = "deferred" /\ ~QueueIsRead) =>
               held'[l] \cap {engine.cycle} \subseteq stranded'[l]
    <2>1. CASE lane[l].end \in Releasing
      <3>1. lane[l].end \in Releasing => lane[l].end # "deferred"
        BY DEF Releasing
      <3> QED BY <1>1, <1>2, <2>1, <3>1, GivenBack
    <2>2. CASE lane[l].end \notin Releasing
      BY <1>1, <1>2, <2>2
    <2> QED BY <2>1, <2>2
  <1>4. lane[l].owed = {} /\ lane[l].end # "none" /\ (lane[l].end = "adjudicated" => engine.cycle \notin held[l])
    <2>1. LaneOK(l)
      BY DEF LoopInv
    <2>2. lane[l].at = "exit"
      BY <1>2
    <2> QED BY <2>1, <2>2 DEF LaneOK
  <1>5. held'[l] \subseteq stranded'[l] \cup pending[l] \cup {engine.cycle} \/ engine.died
    BY <1>2, <1>3, <1>4 DEF LoopInv, KeptOK, Kept, InHand
  <1>6. 0 \in 0..MaxCycles
    BY LoopAssumption
  <1>7. CASE lane[l].end = "deferred"
    <2>1. /\ pending' = IF QueueIsRead THEN [pending EXCEPT ![l] = @ \cup {engine.cycle}] ELSE pending
          /\ lane' = [lane EXCEPT ![l] = LaneAt("deliver", TRUE)] /\ open' = [open EXCEPT ![l] = 0]
      BY <1>7 DEF LaneReturns
    <2>2. /\ pending' \in [Lanes -> SUBSET Cycles] /\ \A k \in Lanes \ {l} : pending'[k] = pending[k]
          /\ pending[l] \subseteq pending'[l] /\ (QueueIsRead => engine.cycle \in pending'[l])
          /\ pending'[l] \subseteq pending[l] \/ QueueIsRead
      BY <1>1, <2>1
    <2>3. open' \in [Lanes -> 0..MaxCycles]
      BY <1>1, <1>6, <2>1
    <2>4. held'[l] \subseteq stranded'[l] \cup pending'[l] \/ engine.died
      BY <1>3, <1>5, <1>7, <2>2
    <2> QED BY <1>2, <1>3, <2>1, <2>2, <2>3, <2>4, RestStep
  <1>8. held'[l] \subseteq stranded'[l] \cup pending[l] \/ engine.died \/ lane[l].end = "deferred"
    <2>1. lane[l].end \in {"released", "unread", "adjudicated", "deferred"}
      BY <1>1, <1>4 DEF Ends
    <2>2. lane[l].end \in Releasing \/ lane[l].end = "adjudicated"
            => held'[l] \cap {engine.cycle} \subseteq stranded'[l]
      BY <1>3, <1>4
    <2>3. lane[l].end \in Releasing \/ lane[l].end \in {"adjudicated", "deferred"}
      BY <2>1 DEF Releasing
    <2> QED BY <1>5, <2>2, <2>3
  <1>9. CASE lane[l].end # "deferred" /\ pending[l] = {}
    <2>1. /\ UNCHANGED pending
          /\ lane' = [lane EXCEPT ![l] = LaneAt("deliver", lane[l].progressed)] /\ open' = [open EXCEPT ![l] = 0]
      BY <1>9 DEF LaneReturns
    <2>2. open' \in [Lanes -> 0..MaxCycles]
      BY <1>1, <1>6, <2>1
    <2> QED BY <1>1, <1>2, <1>3, <1>8, <1>9, <2>1, <2>2, RestStep
  <1>10. CASE lane[l].end # "deferred" /\ pending[l] # {}
    <2>1. pending' = [pending EXCEPT ![l] = {}]
      BY <1>10 DEF LaneReturns
    <2>2. /\ pending' \in [Lanes -> SUBSET Cycles] /\ \A k \in Lanes \ {l} : pending'[k] = pending[k]
          /\ pending[l] \in SUBSET Cycles /\ pending'[l] \subseteq pending[l]
      BY <1>1, <2>1
    <2>3. CASE lane[l].end = "adjudicated"
      <3>1. /\ lane' = [lane EXCEPT ![l].at = "settled", ![l].dog = "none", ![l].end = "none",
                                  ![l].owed = pending[l]]
            /\ open' = [open EXCEPT ![l] = 0]
        BY <1>10, <2>3 DEF LaneReturns
      <3>2. /\ lane' \in [Lanes -> LaneRecs] /\ \A k \in Lanes \ {l} : lane'[k] = lane[k]
            /\ lane'[l].at = "settled" /\ lane'[l].dog = "none" /\ lane'[l].owed = pending[l]
        <4> DEFINE r == Edited(lane[l], "settled", "none", "none", pending[l], lane[l].progressed)
        <4>1. lane' = [lane EXCEPT ![l] = r]
          BY <1>1, <3>1 DEF LaneRecs, Edited
        <4>2. r \in LaneRecs /\ r.at = "settled" /\ r.dog = "none" /\ r.owed = pending[l]
          BY <1>1, <2>2, EditedIs DEF Ends
        <4> HIDE DEF r
        <4> QED BY <1>1, <4>1, <4>2, LanePut
      <3>3. open' \in [Lanes -> 0..MaxCycles]
        BY <1>1, <1>6, <3>1
      <3>4. LaneOK(l)'
        BY <3>2 DEF LaneOK
      <3>5. Kept(l)' \/ engine.died
        BY <1>8, <1>10, <3>2 DEF Kept, InHand
      <3> QED BY <1>2, <1>3, <2>1, <2>2, <3>2, <3>3, <3>4, <3>5, LaneMoves
    <2>4. CASE lane[l].end # "adjudicated"
      <3> DEFINE last == CHOOSE c \in pending[l] : \A d \in pending[l] : d <= c
      <3>1. /\ lane' = [lane EXCEPT ![l].at = "settle", ![l].dog = Watchdog, ![l].end = "none",
                                  ![l].owed = pending[l]]
            /\ open' = [open EXCEPT ![l] = last]
        BY <1>10, <2>4 DEF LaneReturns
      <3>2. /\ lane' \in [Lanes -> LaneRecs] /\ \A k \in Lanes \ {l} : lane'[k] = lane[k]
            /\ lane'[l].at = "settle" /\ lane'[l].dog = Watchdog /\ lane'[l].owed = pending[l]
        <4> DEFINE r == Edited(lane[l], "settle", Watchdog, "none", pending[l], lane[l].progressed)
        <4>1. lane' = [lane EXCEPT ![l] = r]
          BY <1>1, <3>1 DEF LaneRecs, Edited
        <4>2. Watchdog \in {"none", "set", "cut", "late"}
          BY WatchdogOK
        <4>3. r \in LaneRecs /\ r.at = "settle" /\ r.dog = Watchdog /\ r.owed = pending[l]
          BY <1>1, <2>2, <4>2, EditedIs DEF Ends
        <4> HIDE DEF r
        <4> QED BY <1>1, <4>1, <4>3, LanePut
      <3>3. last \in 0..MaxCycles
        BY <1>10, <2>2, LoopAssumption, LastWaits DEF Cycles
      <3>4. open' \in [Lanes -> 0..MaxCycles]
        BY <1>1, <3>1, <3>3
      <3>5. LaneOK(l)'
        BY <3>2 DEF LaneOK
      <3>6. /\ lane'[l].dog # "cut"
            /\ lane'[l].dog = "late" => engine.bitten
            /\ engine.bitten => lane'[l].dog # "set"
        BY <3>2, WatchdogOK
      <3>7. Kept(l)' \/ engine.died
        BY <1>8, <1>10, <3>2 DEF Kept, InHand
      <3> QED BY <1>2, <1>3, <2>2, <3>2, <3>4, <3>5, <3>6, <3>7, LaneMoves
    <2> QED BY <2>3, <2>4
  <1> QED BY <1>7, <1>9, <1>10

\* Whatever the closing rescan comes to, the lane owes what it owed.
LEMMA SettleEndStep ==
    ASSUME LoopInv, TeethOK, NEW l \in Lanes, SettleEnds(l)
    PROVE  LoopInv' /\ TeethOK'
  <1>1. /\ lane \in [Lanes -> LaneRecs] /\ open \in [Lanes -> 0..MaxCycles]
        /\ held \in [Lanes -> SUBSET Cycles] /\ pending \in [Lanes -> SUBSET Cycles]
        /\ stranded \in [Lanes -> SUBSET Cycles]
    BY DEF LoopInv, LoopTypeOK, LaneRecs
  <1>2. /\ UNCHANGED <<runRow, held, stranded, open, engine, teeth, pending, sweep>> /\ lane[l].at = "settle"
        /\ lane' = [lane EXCEPT ![l].at = "settled"]
    BY DEF SettleEnds, Moves
  <1>3. /\ lane' \in [Lanes -> LaneRecs] /\ \A k \in Lanes \ {l} : lane'[k] = lane[k]
        /\ lane'[l].at = "settled" /\ lane'[l].owed = lane[l].owed /\ lane'[l].dog = lane[l].dog
    BY <1>1, <1>2 DEF LaneRecs
  <1>4. LaneOK(l)'
    BY <1>3 DEF LaneOK
  <1>5. Kept(l)' \/ engine.died
    BY <1>2, <1>3 DEF LoopInv, KeptOK, Kept, InHand
  <1>6. /\ lane'[l].dog = "late" => engine.bitten
        /\ engine.bitten => lane'[l].dog # "set"
    BY <1>3 DEF TeethOK
  <1> QED BY <1>1, <1>2, <1>3, <1>4, <1>5, <1>6, LaneMoves

\* What the lane owed is no longer held, and what waits since is not touched.
LEMMA SettleReturnStep ==
    ASSUME LoopInv, TeethOK, NEW l \in Lanes, SettleReturns(l)
    PROVE  LoopInv' /\ TeethOK'
  <1>1. /\ lane \in [Lanes -> LaneRecs] /\ open \in [Lanes -> 0..MaxCycles]
        /\ held \in [Lanes -> SUBSET Cycles] /\ pending \in [Lanes -> SUBSET Cycles]
        /\ stranded \in [Lanes -> SUBSET Cycles]
        /\ lane[l].progressed \in BOOLEAN /\ lane[l].owed \subseteq Cycles
    BY DEF LoopInv, LoopTypeOK, LaneRecs
  <1>2. /\ UNCHANGED <<runRow, engine, teeth, pending, sweep>> /\ lane[l].at = "settled"
        /\ GivesBack(l, lane[l].owed)
        /\ lane' = [lane EXCEPT ![l] = LaneAt("deliver", lane[l].progressed)]
        /\ open' = [open EXCEPT ![l] = 0]
    BY DEF SettleReturns, Moves
  <1>3. /\ held' \in [Lanes -> SUBSET Cycles] /\ stranded' \in [Lanes -> SUBSET Cycles]
        /\ \A k \in Lanes \ {l} : held'[k] = held[k] /\ stranded'[k] = stranded[k]
        /\ held'[l] \subseteq held[l] /\ stranded[l] \subseteq stranded'[l]
        /\ held'[l] \cap lane[l].owed \subseteq stranded'[l]
    BY <1>1, <1>2, GivenBack
  <1>4. open' \in [Lanes -> 0..MaxCycles]
    BY <1>1, <1>2, LoopAssumption
  <1>5. held'[l] \subseteq stranded'[l] \cup pending'[l] \/ engine.died
    BY <1>2, <1>3 DEF LoopInv, KeptOK, Kept, InHand
  <1> QED BY <1>1, <1>2, <1>3, <1>4, <1>5, RestStep

\* A lane that is over has given back or queued what it held.
LEMMA DeliverStep ==
    ASSUME LoopInv, TeethOK, NEW l \in Lanes, deliverLane(l)
    PROVE  LoopInv' /\ TeethOK'
  <1>1. /\ lane \in [Lanes -> LaneRecs] /\ open \in [Lanes -> 0..MaxCycles]
        /\ held \in [Lanes -> SUBSET Cycles] /\ pending \in [Lanes -> SUBSET Cycles]
        /\ stranded \in [Lanes -> SUBSET Cycles]
    BY DEF LoopInv, LoopTypeOK, LaneRecs
  <1>2. /\ UNCHANGED <<runRow, held, stranded, open, engine, teeth, pending, sweep>> /\ lane[l].at = "deliver"
        /\ lane' = [lane EXCEPT ![l].at = "over"]
    BY DEF deliverLane, Moves
  <1>3. lane[l].owed = {} /\ lane[l].dog = "none"
    BY <1>2 DEF LoopInv, LaneOK
  <1>4. /\ lane' \in [Lanes -> LaneRecs] /\ \A k \in Lanes \ {l} : lane'[k] = lane[k]
        /\ lane'[l].at = "over" /\ lane'[l].owed = {} /\ lane'[l].dog = "none"
    BY <1>1, <1>2, <1>3 DEF LaneRecs
  <1>5. LaneOK(l)'
    BY <1>4 DEF LaneOK
  <1>6. Kept(l)' \/ engine.died
    BY <1>2, <1>3, <1>4 DEF LoopInv, KeptOK, Kept, InHand
  <1> QED BY <1>1, <1>2, <1>4, <1>5, <1>6, LaneMoves

\* A lane that no longer moves keeps what it has.
LEMMA WedgeStep ==
    ASSUME LoopInv, TeethOK, NEW l \in Lanes, Wedges(l)
    PROVE  LoopInv' /\ TeethOK'
  <1>1. /\ lane \in [Lanes -> LaneRecs] /\ open \in [Lanes -> 0..MaxCycles]
        /\ held \in [Lanes -> SUBSET Cycles] /\ pending \in [Lanes -> SUBSET Cycles]
        /\ stranded \in [Lanes -> SUBSET Cycles]
    BY DEF LoopInv, LoopTypeOK, LaneRecs
  <1>2. /\ UNCHANGED <<runRow, held, stranded, open, engine, teeth, pending, sweep>>
        /\ lane[l].at \in {"setup", "exit", "settled", "deliver"}
        /\ lane' = [lane EXCEPT ![l].wedged = TRUE]
    BY DEF Wedges
  <1>3. /\ lane' \in [Lanes -> LaneRecs] /\ \A k \in Lanes \ {l} : lane'[k] = lane[k]
        /\ lane'[l].at = lane[l].at /\ lane'[l].owed = lane[l].owed /\ lane'[l].dog = lane[l].dog
        /\ lane'[l].end = lane[l].end
    BY <1>1, <1>2 DEF LaneRecs
  <1>4. LaneOK(l)'
    <2>1. LaneOK(l)
      BY DEF LoopInv
    <2>2. engine' = engine /\ held' = held
      BY <1>2
    <2> QED BY <1>3, <2>1, <2>2 DEF LaneOK
  <1>5. Kept(l)' \/ engine.died
    BY <1>2, <1>3 DEF LoopInv, KeptOK, Kept, InHand
  <1>6. /\ lane'[l].dog = "late" => engine.bitten
        /\ engine.bitten => lane'[l].dog # "set"
    BY <1>3 DEF TeethOK
  <1> QED BY <1>1, <1>2, <1>3, <1>4, <1>5, <1>6, LaneMoves

\* The types, a variable at a time.
LEMMA LoopTypes ==
    ASSUME LoopInv
    PROVE  /\ runRow \in RunRows /\ engine \in EngineRecs /\ engine.cycle \in Cycles
           /\ lane \in [Lanes -> LaneRecs] /\ open \in [Lanes -> 0..MaxCycles]
           /\ held \in [Lanes -> SUBSET Cycles] /\ pending \in [Lanes -> SUBSET Cycles]
           /\ stranded \in [Lanes -> SUBSET Cycles]
           /\ teeth.timer \in {"none", "grace", "backstop"} /\ teeth.inFlight \in SUBSET LaneKeys
           /\ sweep \in {"idle", "saw", "stop"}
  BY DEF LoopInv, LoopTypeOK, LaneRecs, EngineRecs, RunRows

\* With its lanes over, the run holds what waits for the closing rescan and what is stranded.
LEMMA OverHolds ==
    ASSUME LoopInv, NEW l \in Lanes, lane[l].at = "over"
    PROVE  /\ lane[l].dog = "none" /\ lane[l].owed = {}
           /\ held[l] \subseteq stranded[l] \cup pending[l] \/ engine.died
  <1>1. LaneOK(l)
    BY DEF LoopInv
  <1>2. lane[l].dog = "none" /\ lane[l].owed = {}
    <2>1. lane[l].dog \in {"none", "set", "cut", "late"} /\ lane[l].owed \in SUBSET Cycles
      BY LoopTypes DEF LaneRecs
    <2> QED BY <1>1, <2>1 DEF LaneOK
  <1>3. held[l] \subseteq stranded[l] \cup pending[l] \/ engine.died
    BY <1>2 DEF LoopInv, KeptOK, Kept, InHand
  <1> QED BY <1>2, <1>3

\* The lane that threw had claimed nothing in this cycle, and the driver leaves the others to themselves.
LEMMA ThrowStep ==
    ASSUME LoopInv, TeethOK, NEW l \in Lanes, LegThrows(l)
    PROVE  LoopInv' /\ TeethOK'
  <1>1. /\ lane[l].at \in {"ready", "setup"} /\ UNCHANGED <<runRow, held, stranded, open, teeth, pending, sweep>>
        /\ lane' = [lane EXCEPT ![l] = LaneAt("over", FALSE)]
        /\ engine' = [engine EXCEPT !.threw = TRUE, !.driver = IF @ = "cycling" THEN "closing" ELSE @]
    BY DEF LegThrows, Moves
  <1>2. /\ engine' \in EngineRecs /\ engine'.threw /\ engine'.driver # "cycling"
        /\ engine'.driver = IF engine.driver = "cycling" THEN "closing" ELSE engine.driver
        /\ engine'.live = engine.live /\ engine'.up = engine.up /\ engine'.terminated = engine.terminated
        /\ engine'.stop = engine.stop /\ engine'.bitten = engine.bitten /\ engine'.died = engine.died
        /\ engine'.cycle = engine.cycle
    <2>1. engine \in EngineRecs
      BY LoopTypes
    <2>2. engine.driver \in {"cycling", "closing", "failing", "gone"}
      BY <2>1 DEF EngineRecs
    <2>3. CASE engine.driver = "cycling"
      <3>1. engine' = [engine EXCEPT !.threw = TRUE, !.driver = "closing"]
        BY <1>1, <2>3
      <3> QED BY <2>1, <2>3, <3>1 DEF EngineRecs
    <2>4. CASE engine.driver # "cycling"
      <3>1. engine' = [engine EXCEPT !.threw = TRUE]
        BY <1>1, <2>1, <2>4 DEF EngineRecs
      <3> QED BY <2>1, <2>4, <3>1 DEF EngineRecs
    <2> QED BY <2>3, <2>4
  <1>3. LaneAt("over", FALSE) \in LaneRecs /\ LaneAt("over", FALSE).at = "over"
        /\ LaneAt("over", FALSE).dog = "none" /\ LaneAt("over", FALSE).owed = {}
    BY LaneAtType
  <1>4. /\ lane' \in [Lanes -> LaneRecs] /\ \A k \in Lanes \ {l} : lane'[k] = lane[k]
        /\ lane'[l].at = "over" /\ lane'[l].dog = "none" /\ lane'[l].owed = {}
    BY <1>1, <1>3, LoopTypes
  <1>5. LoopTypeOK'
    <2>1. /\ runRow' \in RunRows /\ open' \in [Lanes -> 0..MaxCycles]
          /\ held' \in [Lanes -> SUBSET Cycles] /\ pending' \in [Lanes -> SUBSET Cycles]
          /\ stranded' \in [Lanes -> SUBSET Cycles] /\ sweep' \in {"idle", "saw", "stop"}
          /\ teeth' \in [timer : {"none", "grace", "backstop"}, inFlight : SUBSET LaneKeys]
      BY <1>1, LoopTypes DEF LoopInv, LoopTypeOK
    <2> QED BY <1>2, <1>4, <2>1 DEF LoopTypeOK, LaneRecs, EngineRecs, RunRows
  <1>6. engine.driver = "cycling" \/ engine.threw
    BY <1>1 DEF LoopInv, DriverOK
  <1>7. DriverOK'
    BY <1>1, <1>2 DEF LoopInv, DriverOK
  <1>8. RowOK'
    BY <1>1, <1>2, <1>6 DEF LoopInv, RowOK
  <1>9. KeptOK'
    <2>1. lane[l].owed = {} /\ lane[l].at \notin {"stage", "exit"}
      BY <1>1 DEF LoopInv, LaneOK
    <2>2. ASSUME NEW k \in Lanes, Kept(k) PROVE Kept(k)'
      BY <1>1, <1>2, <1>4, <2>1, <2>2 DEF Kept, InHand
    <2> QED BY <1>2, <2>2 DEF LoopInv, KeptOK
  <1>10. ASSUME NEW k \in Lanes PROVE LaneOK(k)'
    BY <1>1, <1>2, <1>4 DEF LoopInv, LaneOK
  <1>11. TeethOK'
    BY <1>1, <1>2, <1>4 DEF TeethOK, KeyOf
  <1> QED BY <1>5, <1>7, <1>8, <1>9, <1>10, <1>11 DEF LoopInv

\* Without a step of the lanes, their claims and the clock stay kept as they are.
LEMMA SameLanes ==
    ASSUME LoopInv, UNCHANGED <<held, stranded, lane, pending>>, engine'.died = engine.died,
           engine'.cycle = engine.cycle
    PROVE  KeptOK' /\ \A l \in Lanes : LaneOK(l)'
  <1>1. ASSUME NEW l \in Lanes, Kept(l) PROVE Kept(l)'
    BY <1>1 DEF Kept, InHand
  <1>2. KeptOK'
    BY <1>1 DEF LoopInv, KeptOK
  <1>3. ASSUME NEW l \in Lanes PROVE LaneOK(l)'
    BY DEF LoopInv, LaneOK
  <1> QED BY <1>2, <1>3

\* A cycle begins with the lanes that progressed, and without a stop.
LEMMA NextCycleStep ==
    ASSUME LoopInv, TeethOK, NextCycle
    PROVE  LoopInv' /\ TeethOK'
  <1>1. /\ engine.driver = "cycling" /\ ~engine.stop /\ engine.cycle < MaxCycles
        /\ engine' = [engine EXCEPT !.cycle = @ + 1]
        /\ UNCHANGED <<runRow, held, stranded, open, teeth, pending, sweep>>
    BY DEF NextCycle, AllOver, Another
  <1>2. \A l \in Lanes : /\ lane[l].dog = "none" /\ lane[l].owed = {}
                         /\ held[l] \subseteq stranded[l] \cup pending[l] \/ engine.died
    BY OverHolds DEF NextCycle, AllOver
  <1>3. ASSUME NEW l \in Lanes
        PROVE  /\ lane'[l] \in LaneRecs /\ lane'[l].at \in {"ready", "over"} /\ lane'[l].dog = "none"
               /\ lane'[l].owed = {}
    <2>1. lane'[l] = LaneAt(IF lane[l].progressed THEN "ready" ELSE "over", FALSE)
      BY DEF NextCycle
    <2>2. /\ LaneAt("ready", FALSE) \in LaneRecs /\ LaneAt("ready", FALSE).at = "ready"
          /\ LaneAt("ready", FALSE).dog = "none" /\ LaneAt("ready", FALSE).owed = {}
          /\ LaneAt("over", FALSE) \in LaneRecs /\ LaneAt("over", FALSE).at = "over"
          /\ LaneAt("over", FALSE).dog = "none" /\ LaneAt("over", FALSE).owed = {}
      BY LaneAtType
    <2>3. lane'[l] = LaneAt("ready", FALSE) \/ lane'[l] = LaneAt("over", FALSE)
      BY <2>1
    <2> QED BY <2>2, <2>3
  <1>4. lane' \in [Lanes -> LaneRecs]
    BY <1>3 DEF NextCycle
  <1>5. /\ engine' \in EngineRecs /\ engine'.threw = engine.threw
        /\ engine'.driver = engine.driver /\ engine'.live = engine.live /\ engine'.up = engine.up
        /\ engine'.terminated = engine.terminated /\ engine'.stop = engine.stop /\ engine'.bitten = engine.bitten
        /\ engine'.died = engine.died
    BY <1>1, LoopTypes, LoopAssumption DEF EngineRecs, Cycles
  <1>6. LoopTypeOK'
    BY <1>1, <1>4, <1>5 DEF LoopInv, LoopTypeOK, LaneRecs, EngineRecs
  <1>7. DriverOK' /\ RowOK'
    BY <1>1, <1>5 DEF LoopInv, DriverOK, RowOK
  <1>8. KeptOK'
    <2>1. ASSUME NEW l \in Lanes, ~engine.died PROVE Kept(l)'
      BY <1>1, <1>2, <2>1 DEF Kept, InHand
    <2> QED BY <1>5, <2>1 DEF KeptOK
  <1>9. \A l \in Lanes : LaneOK(l)'
    BY <1>3 DEF LaneOK
  <1>10. TeethOK'
    BY <1>1, <1>3, <1>5 DEF TeethOK
  <1> QED BY <1>6, <1>7, <1>8, <1>9, <1>10 DEF LoopInv

\* A row that is written, or not.
LEMMA Written ==
    ASSUME LoopInv, NEW phase \in {"stopped", "done", "error"}, NEW word \in {"none", "abandoned", "interrupted"},
           WritesEnd(phase, word)
    PROVE  runRow' \in RunRows
  BY LoopTypes DEF WritesEnd, RunRows

\* The driver writes its end if the backstop has not, and no lane is left to throw.
LEMMA FinishStep ==
    ASSUME LoopInv, TeethOK, FinishRun
    PROVE  LoopInv' /\ TeethOK'
  <1>1. /\ engine.driver = "cycling" /\ (\A l \in Lanes : lane[l].at = "over")
        /\ engine' = [engine EXCEPT !.driver = "closing"]
        /\ UNCHANGED <<held, stranded, open, teeth, lane, pending, sweep>>
    BY DEF FinishRun, AllOver
  <1>2. /\ engine' \in EngineRecs /\ engine'.threw = engine.threw
        /\ engine'.driver = "closing" /\ engine'.live = engine.live /\ engine'.up = engine.up
        /\ engine'.terminated = engine.terminated /\ engine'.stop = engine.stop /\ engine'.bitten = engine.bitten
        /\ engine'.died = engine.died /\ engine'.cycle = engine.cycle
    BY <1>1, LoopTypes DEF EngineRecs
  <1>3. runRow' \in RunRows
    <2>1. CASE Writable
      <3>1. PICK phase \in {"stopped", "done"} : WritesEnd(phase, "none")
        BY <2>1 DEF FinishRun
      <3> QED BY <3>1, Written
    <2>2. CASE ~Writable
      BY <2>2, LoopTypes DEF FinishRun
    <2> QED BY <2>1, <2>2
  <1>4. LoopTypeOK'
    BY <1>1, <1>2, <1>3 DEF LoopInv, LoopTypeOK, EngineRecs, RunRows
  <1>5. DriverOK'
    BY <1>1, <1>2 DEF LoopInv, DriverOK
  <1>6. RowOK'
    BY <1>1, <1>2 DEF LoopInv, DriverOK, RowOK
  <1>7. TeethOK'
    BY <1>1, <1>2 DEF TeethOK, KeyOf
  <1> QED BY <1>1, <1>2, <1>4, <1>5, <1>6, <1>7, SameLanes DEF LoopInv

\* The finally of drive gives back all that still waits.
LEMMA CleanUpStep ==
    ASSUME LoopInv, TeethOK, CleanUp
    PROVE  LoopInv' /\ TeethOK'
  <1>1. PICK lost \in [Lanes -> SUBSET Cycles] :
            /\ \A l \in Lanes : lost[l] \subseteq pending[l] \cap held[l]
            /\ held' = [l \in Lanes |-> held[l] \ (pending[l] \ lost[l])]
            /\ stranded' = [l \in Lanes |-> stranded[l] \cup lost[l]]
    BY DEF CleanUp
  <1>2. /\ engine.driver = "closing"
        /\ engine' = [engine EXCEPT !.driver = IF engine.threw THEN "failing" ELSE "gone", !.live = FALSE]
        /\ pending' = [l \in Lanes |-> {}] /\ teeth' = [timer |-> "none", inFlight |-> {}]
        /\ UNCHANGED <<runRow, open, lane, sweep>>
    BY DEF CleanUp
  <1>3. /\ engine' \in EngineRecs /\ engine'.threw = engine.threw /\ ~engine'.live /\ engine'.up = engine.up
        /\ engine'.driver = IF engine.threw THEN "failing" ELSE "gone"
        /\ engine'.terminated = engine.terminated /\ engine'.stop = engine.stop /\ engine'.bitten = engine.bitten
        /\ engine'.died = engine.died /\ engine'.cycle = engine.cycle
    <2>1. PICK to \in {"failing", "gone"} : to = IF engine.threw THEN "failing" ELSE "gone"
      OBVIOUS
    <2>2. engine' = [engine EXCEPT !.driver = to, !.live = FALSE]
      BY <1>2, <2>1
    <2>3. engine' \in EngineRecs /\ engine'.driver = to
      BY <2>2, LoopTypes DEF EngineRecs
    <2> QED BY <2>1, <2>2, <2>3, LoopTypes DEF EngineRecs
  <1>4. /\ held' \in [Lanes -> SUBSET Cycles] /\ pending' \in [Lanes -> SUBSET Cycles]
        /\ stranded' \in [Lanes -> SUBSET Cycles]
    BY <1>1, <1>2, LoopTypes
  <1>5. LoopTypeOK'
    <2>1. /\ runRow' \in RunRows /\ open' \in [Lanes -> 0..MaxCycles] /\ lane' \in [Lanes -> LaneRecs]
          /\ sweep' \in {"idle", "saw", "stop"}
          /\ teeth' \in [timer : {"none", "grace", "backstop"}, inFlight : SUBSET LaneKeys]
      BY <1>2, LoopTypes
    <2> QED BY <1>3, <1>4, <2>1 DEF LoopTypeOK, LaneRecs, EngineRecs, RunRows
  <1>6. DriverOK'
    BY <1>2, <1>3 DEF LoopInv, DriverOK
  <1>7. RowOK'
    BY <1>2, <1>3 DEF RowOK
  <1>8. KeptOK'
    <2>1. ASSUME NEW l \in Lanes, Kept(l) PROVE Kept(l)'
      <3>1. held'[l] = held[l] \ (pending[l] \ lost[l]) /\ stranded'[l] = stranded[l] \cup lost[l]
        BY <1>1
      <3> QED BY <1>2, <1>3, <2>1, <3>1 DEF Kept, InHand
    <2> QED BY <1>3, <2>1 DEF LoopInv, KeptOK
  <1>9. ASSUME NEW l \in Lanes PROVE LaneOK(l)'
    <2>1. held'[l] \subseteq held[l]
      BY <1>1
    <2> QED BY <1>2, <1>3, <2>1 DEF LoopInv, LaneOK
  <1>10. TeethOK'
    BY <1>2, <1>3 DEF TeethOK
  <1> QED BY <1>5, <1>6, <1>7, <1>8, <1>9, <1>10 DEF LoopInv

\* The catch writes over whatever the row says, and leaves.
LEMMA FailStep ==
    ASSUME LoopInv, TeethOK, FailRun
    PROVE  LoopInv' /\ TeethOK'
  <1>1. /\ engine.driver = "failing" /\ engine' = [engine EXCEPT !.driver = "gone"] /\ WritesEnd("error", "none")
        /\ UNCHANGED <<held, stranded, open, teeth, lane, pending, sweep>>
    BY DEF FailRun
  <1>2. /\ engine' \in EngineRecs /\ engine'.threw = engine.threw
        /\ engine'.driver = "gone" /\ engine'.live = engine.live /\ engine'.up = engine.up
        /\ engine'.terminated = engine.terminated /\ engine'.stop = engine.stop /\ engine'.bitten = engine.bitten
        /\ engine'.died = engine.died /\ engine'.cycle = engine.cycle
    BY <1>1, LoopTypes DEF EngineRecs
  <1>3. runRow' \in RunRows
    BY <1>1, Written
  <1>4. LoopTypeOK'
    BY <1>1, <1>2, <1>3 DEF LoopInv, LoopTypeOK, EngineRecs, RunRows
  <1>5. DriverOK' /\ RowOK'
    BY <1>1, <1>2 DEF LoopInv, DriverOK, RowOK
  <1>6. TeethOK'
    BY <1>1, <1>2 DEF TeethOK, KeyOf
  <1> QED BY <1>1, <1>2, <1>4, <1>5, <1>6, SameLanes DEF LoopInv

\* A stop sets its timer, and bites later.
LEMMA StopStep ==
    ASSUME LoopInv, TeethOK, stopLoopRun
    PROVE  LoopInv' /\ TeethOK'
  <1>1. /\ engine.live /\ ~engine.stop
        /\ engine' = [engine EXCEPT !.stop = TRUE] /\ teeth' = [teeth EXCEPT !.timer = "grace"]
        /\ UNCHANGED <<runRow, held, stranded, open, lane, pending, sweep>>
    BY DEF stopLoopRun
  <1>2. /\ engine' \in EngineRecs /\ engine'.threw = engine.threw
        /\ engine'.driver = engine.driver /\ engine'.live = engine.live /\ engine'.up = engine.up
        /\ engine'.terminated = engine.terminated /\ engine'.stop /\ engine'.bitten = engine.bitten
        /\ engine'.died = engine.died /\ engine'.cycle = engine.cycle
    BY <1>1, LoopTypes DEF EngineRecs
  <1>3. /\ teeth' \in [timer : {"none", "grace", "backstop"}, inFlight : SUBSET LaneKeys]
        /\ teeth'.timer = "grace"
    BY <1>1 DEF LoopInv, LoopTypeOK
  <1>4. ~engine.bitten /\ engine.driver \in {"cycling", "closing"} /\ ~engine.terminated
    BY <1>1 DEF LoopInv, DriverOK, TeethOK
  <1>5. LoopTypeOK'
    BY <1>1, <1>2, <1>3 DEF LoopInv, LoopTypeOK, EngineRecs
  <1>6. DriverOK'
    BY <1>1, <1>2, <1>4 DEF LoopInv, DriverOK
  <1>7. RowOK'
    BY <1>1, <1>2, <1>4 DEF LoopInv, RowOK
  <1>8. TeethOK'
    BY <1>1, <1>2, <1>3, <1>4 DEF TeethOK
  <1> QED BY <1>1, <1>2, <1>5, <1>6, <1>7, <1>8, SameLanes DEF LoopInv

\* Every lane with a handle is cut, and the backstop is set for these and no other.
LEMMA BiteStep ==
    ASSUME LoopInv, TeethOK, Bite
    PROVE  LoopInv' /\ TeethOK'
  <1>1. /\ teeth.timer = "grace" /\ engine' = [engine EXCEPT !.bitten = TRUE]
        /\ lane' = [l \in Lanes |-> IF l \in Registered THEN [lane[l] EXCEPT !.dog = "cut"] ELSE lane[l]]
        /\ teeth' = [timer |-> IF Registered = {} THEN "none" ELSE "backstop",
                     inFlight |-> {KeyOf(l) : l \in Registered}]
        /\ UNCHANGED <<runRow, held, stranded, open, pending, sweep>>
    BY DEF Bite
  <1>2. /\ engine.stop /\ ~engine.bitten /\ engine.driver \in {"cycling", "closing"} /\ ~engine.terminated
    BY <1>1, LoopTypes DEF LoopInv, DriverOK, RowOK, TeethOK, EngineRecs
  <1>3. /\ engine' \in EngineRecs /\ engine'.threw = engine.threw
        /\ engine'.driver = engine.driver /\ engine'.live = engine.live /\ engine'.up = engine.up
        /\ engine'.terminated = engine.terminated /\ engine'.stop /\ engine'.bitten
        /\ engine'.died = engine.died /\ engine'.cycle = engine.cycle
    BY <1>1, <1>2, LoopTypes DEF EngineRecs
  <1>4. ASSUME NEW l \in Lanes
        PROVE  /\ lane'[l] \in LaneRecs /\ lane'[l].at = lane[l].at /\ lane'[l].end = lane[l].end
               /\ lane'[l].owed = lane[l].owed
               /\ lane'[l].dog = IF l \in Registered THEN "cut" ELSE "none"
    <2>1. lane[l] \in LaneRecs
      BY LoopTypes
    <2>2. CASE l \in Registered
      <3>1. lane'[l] = [lane[l] EXCEPT !.dog = "cut"]
        BY <1>1, <2>2
      <3> QED BY <2>1, <2>2, <3>1 DEF LaneRecs
    <2>3. CASE l \notin Registered
      <3>1. lane'[l] = lane[l]
        BY <1>1, <2>3
      <3>2. lane[l].dog = "none"
        BY <2>3 DEF Registered
      <3> QED BY <2>1, <2>3, <3>1, <3>2
    <2> QED BY <2>2, <2>3
  <1>5. lane' \in [Lanes -> LaneRecs]
    BY <1>1, <1>4
  <1>6. \A l \in Lanes : KeyOf(l) \in LaneKeys /\ KeyOf(l)' = KeyOf(l)
    BY <1>4 DEF KeyOf, LaneKeys
  <1>7. /\ teeth' \in [timer : {"none", "grace", "backstop"}, inFlight : SUBSET LaneKeys]
        /\ teeth'.timer = IF Registered = {} THEN "none" ELSE "backstop"
        /\ \A l \in Registered : KeyOf(l) \in teeth'.inFlight
    <2>1. Registered \subseteq Lanes
      BY DEF Registered
    <2>2. {KeyOf(l) : l \in Registered} \in SUBSET LaneKeys
      BY <1>6, <2>1
    <2> QED BY <1>1, <2>2
  <1>8. LoopTypeOK'
    BY <1>1, <1>3, <1>5, <1>7, LoopTypes DEF LoopTypeOK, LaneRecs, EngineRecs, RunRows
  <1>9. DriverOK'
    BY <1>1, <1>2, <1>3, <1>4 DEF LoopInv, DriverOK
  <1>10. RowOK'
    BY <1>1, <1>2, <1>3 DEF LoopInv, RowOK
  <1>11. KeptOK'
    <2>1. ASSUME NEW l \in Lanes, Kept(l) PROVE Kept(l)'
      BY <1>1, <1>3, <1>4, <2>1 DEF Kept, InHand
    <2> QED BY <1>3, <2>1 DEF LoopInv, KeptOK
  <1>12. ASSUME NEW l \in Lanes PROVE LaneOK(l)'
    <2>1. LaneOK(l)
      BY DEF LoopInv
    <2>2. lane[l].dog # "none" <=> l \in Registered
      BY DEF Registered
    <2> QED BY <1>1, <1>3, <1>4, <2>1, <2>2 DEF LaneOK
  <1>13. TeethOK'
    BY <1>3, <1>4, <1>6, <1>7 DEF TeethOK
  <1> QED BY <1>8, <1>9, <1>10, <1>11, <1>12, <1>13 DEF LoopInv

\* The backstop ends the run if a lane that was cut is still there, and only then.
LEMMA BackstopStep ==
    ASSUME LoopInv, TeethOK, Backstop
    PROVE  LoopInv' /\ TeethOK'
  <1>1. /\ teeth.timer = "backstop" /\ teeth' = [timer |-> "none", inFlight |-> {}]
        /\ UNCHANGED <<held, stranded, open, lane, pending, sweep>>
    BY DEF Backstop
  <1>2. engine.stop /\ engine.bitten /\ engine.driver \in {"cycling", "closing"} /\ ~engine.terminated
    BY <1>1, LoopTypes DEF LoopInv, DriverOK, RowOK, TeethOK, EngineRecs
  <1>3. /\ teeth' \in [timer : {"none", "grace", "backstop"}, inFlight : SUBSET LaneKeys]
        /\ teeth'.timer = "none"
    BY <1>1
  <1>4. CASE \E l \in Registered : KeyOf(l) \in teeth.inFlight
    <2>1. /\ engine' = [engine EXCEPT !.terminated = TRUE, !.live = FALSE]
          /\ WritesEnd("stopped", "abandoned")
      BY <1>4 DEF Backstop
    <2>2. /\ engine' \in EngineRecs /\ engine'.threw = engine.threw
          /\ engine'.driver = engine.driver /\ ~engine'.live /\ engine'.up = engine.up
          /\ engine'.terminated /\ engine'.stop /\ engine'.bitten
          /\ engine'.died = engine.died /\ engine'.cycle = engine.cycle
      BY <1>2, <2>1, LoopTypes DEF EngineRecs
    <2>3. runRow' \in RunRows
      BY <2>1, Written
    <2>4. LoopTypeOK'
      BY <1>1, <1>3, <2>2, <2>3, LoopTypes DEF LoopTypeOK, LaneRecs, EngineRecs, RunRows
    <2>5. DriverOK'
      BY <1>1, <1>2, <1>3, <2>2 DEF LoopInv, DriverOK
    <2>6. RowOK'
      BY <1>3, <2>2 DEF RowOK
    <2>7. TeethOK'
      BY <1>1, <1>3, <2>2 DEF TeethOK
    <2> QED BY <1>1, <2>2, <2>4, <2>5, <2>6, <2>7, SameLanes DEF LoopInv
  <1>5. CASE \A l \in Registered : KeyOf(l) \notin teeth.inFlight
    <2>1. UNCHANGED <<engine, runRow>>
      BY <1>5 DEF Backstop
    <2>2. LoopTypeOK'
      BY <1>1, <1>3, <2>1 DEF LoopInv, LoopTypeOK
    <2>3. DriverOK' /\ RowOK'
      BY <1>1, <1>2, <1>3, <2>1 DEF LoopInv, DriverOK, RowOK
    <2>4. \A l \in Lanes : lane[l].dog # "cut"
      BY <1>1, <1>5 DEF TeethOK, Registered
    <2>5. TeethOK'
      BY <1>1, <1>2, <1>3, <2>1, <2>4 DEF TeethOK
    <2> QED BY <1>1, <2>1, <2>2, <2>3, <2>5, SameLanes DEF LoopInv
  <1> QED BY <1>4, <1>5

\* What a process takes with it: the lanes, the queue and the timers.
LEMMA DieStep ==
    ASSUME LoopInv, TeethOK, ProcessDies
    PROVE  LoopInv' /\ TeethOK'
  <1>1. /\ engine' = [engine EXCEPT !.up = FALSE, !.died = TRUE, !.live = FALSE, !.stop = FALSE,
                                    !.bitten = FALSE, !.terminated = FALSE, !.threw = FALSE,
                                    !.driver = "gone", !.cycle = 1]
        /\ lane' = [l \in Lanes |-> LaneAt("over", FALSE)] /\ pending' = [l \in Lanes |-> {}]
        /\ teeth' = [timer |-> "none", inFlight |-> {}] /\ sweep' = "idle"
        /\ stranded' = [l \in Lanes |-> {}] /\ UNCHANGED <<runRow, held, open>>
    BY DEF ProcessDies
  <1>2. /\ engine' \in EngineRecs /\ ~engine'.threw
        /\ engine'.driver = "gone" /\ ~engine'.live /\ ~engine'.up /\ engine'.died
        /\ ~engine'.terminated /\ ~engine'.stop /\ ~engine'.bitten
    <2>1. engine' = [up |-> FALSE, died |-> TRUE, live |-> FALSE, stop |-> FALSE, bitten |-> FALSE,
                     terminated |-> FALSE, threw |-> FALSE, driver |-> "gone", cycle |-> 1]
      BY <1>1, LoopTypes DEF EngineRecs
    <2>2. 1 \in Cycles
      BY LoopAssumption DEF Cycles
    <2> QED BY <2>1, <2>2 DEF EngineRecs
  <1>3. \A l \in Lanes : /\ lane'[l] \in LaneRecs /\ lane'[l].at = "over" /\ lane'[l].dog = "none"
                         /\ lane'[l].owed = {}
    BY <1>1, LaneAtType
  <1>4. /\ lane' \in [Lanes -> LaneRecs] /\ pending' \in [Lanes -> SUBSET Cycles]
        /\ stranded' \in [Lanes -> SUBSET Cycles]
        /\ teeth' \in [timer : {"none", "grace", "backstop"}, inFlight : SUBSET LaneKeys]
        /\ teeth'.timer = "none"
    BY <1>1, <1>3
  <1>5. LoopTypeOK'
    BY <1>1, <1>2, <1>4, LoopTypes DEF LoopTypeOK, LaneRecs, EngineRecs, RunRows
  <1>6. DriverOK' /\ RowOK'
    BY <1>1, <1>2, <1>3 DEF DriverOK, RowOK
  <1>7. KeptOK' /\ \A l \in Lanes : LaneOK(l)'
    BY <1>2, <1>3 DEF KeptOK, LaneOK
  <1>8. TeethOK'
    BY <1>1, <1>2, <1>3 DEF TeethOK
  <1> QED BY <1>5, <1>6, <1>7, <1>8 DEF LoopInv

\* A request that comes when no entry is there: it writes to the row, and claims only fall away.
LEMMA SweptStep ==
    ASSUME LoopInv, TeethOK, ~engine.live,
           \/ Interrupted
           \/ WritesEnd("stopped", "none") /\ UNCHANGED <<held, open>>
           \/ UNCHANGED <<runRow, held, open>>,
           \/ UNCHANGED engine
           \/ engine.driver = "gone" /\ engine' = [engine EXCEPT !.up = TRUE],
           UNCHANGED <<stranded, teeth, lane, pending>>, sweep' \in {"idle", "saw", "stop"}
    PROVE  LoopInv' /\ TeethOK'
  <1>1. /\ engine' \in EngineRecs /\ engine'.threw = engine.threw
        /\ engine'.driver = engine.driver /\ engine'.live = engine.live
        /\ engine'.up = engine.up \/ engine.driver = "gone"
        /\ engine'.terminated = engine.terminated /\ engine'.stop = engine.stop /\ engine'.bitten = engine.bitten
        /\ engine'.died = engine.died /\ engine'.cycle = engine.cycle
    <2>1. CASE UNCHANGED engine
      BY <2>1, LoopTypes
    <2>2. CASE engine.driver = "gone" /\ engine' = [engine EXCEPT !.up = TRUE]
      BY <2>2, LoopTypes DEF EngineRecs
    <2> QED BY <2>1, <2>2
  <1>2. runRow' \in RunRows
    <2>1. CASE Interrupted
      BY <2>1 DEF Interrupted, RunRows
    <2>2. CASE WritesEnd("stopped", "none")
      BY <2>2, Written
    <2>3. CASE UNCHANGED runRow
      BY <2>3, LoopTypes
    <2> QED BY <2>1, <2>2, <2>3
  <1>3. /\ held' \in [Lanes -> SUBSET Cycles] /\ open' \in [Lanes -> 0..MaxCycles]
        /\ \A l \in Lanes : held'[l] \subseteq held[l]
    BY LoopTypes, LoopAssumption DEF Interrupted
  <1>4. LoopTypeOK'
    BY <1>1, <1>2, <1>3, LoopTypes DEF LoopInv, LoopTypeOK, LaneRecs, EngineRecs, RunRows
  <1>5. DriverOK'
    BY <1>1 DEF LoopInv, DriverOK
  <1>6. RowOK'
    BY <1>1 DEF LoopInv, RowOK
  <1>7. KeptOK'
    <2>1. ASSUME NEW l \in Lanes, Kept(l) PROVE Kept(l)'
      BY <1>1, <1>3, <2>1 DEF Kept, InHand
    <2> QED BY <1>1, <2>1 DEF LoopInv, KeptOK
  <1>8. ASSUME NEW l \in Lanes PROVE LaneOK(l)'
    BY <1>1, <1>3 DEF LoopInv, LaneOK
  <1>9. TeethOK'
    BY <1>1 DEF TeethOK, KeyOf
  <1> QED BY <1>4, <1>5, <1>6, <1>7, <1>8, <1>9 DEF LoopInv

\* A request that only reads, or gives up.
LEMMA ReadStep ==
    ASSUME LoopInv, TeethOK, UNCHANGED <<runRow, held, stranded, open, engine, teeth, lane, pending>>,
           sweep' \in {"idle", "saw"}
    PROVE  LoopInv' /\ TeethOK'
  <1>1. LoopTypeOK'
    BY LoopTypes DEF LoopInv, LoopTypeOK
  <1>2. DriverOK' /\ RowOK'
    BY DEF LoopInv, DriverOK, RowOK
  <1>3. TeethOK'
    BY DEF TeethOK, KeyOf
  <1> QED BY <1>1, <1>2, <1>3, SameLanes DEF LoopInv

\* Only the backstop, a driver that comes to its end and the end of the process leave a run without an entry.
LEMMA SweepStep ==
    ASSUME LoopInv, TeethOK,
           Boot \/ SweepReads \/ SweepWrites \/ SweepGivesUp \/ LateStopReads \/ LateStopWrites
    PROVE  LoopInv' /\ TeethOK'
  <1>1. CASE Boot
    <2>1. engine.driver = "gone" /\ ~engine.live
      BY <1>1 DEF Boot, LoopInv, DriverOK
    <2>2. /\ engine' = [engine EXCEPT !.up = TRUE] /\ UNCHANGED <<stranded, teeth, lane, pending, sweep>>
          /\ Interrupted \/ UNCHANGED <<runRow, held, open>>
      BY <1>1 DEF Boot
    <2> QED BY <2>1, <2>2, SweptStep, LoopTypes
  <1>2. CASE SweepReads \/ SweepGivesUp
    BY <1>2, ReadStep DEF SweepReads, SweepGivesUp, RequestMoves
  <1>3. CASE SweepWrites
    <2>1. /\ UNCHANGED <<stranded, engine, teeth, lane, pending>> /\ sweep' = "idle"
          /\ IF engine.live THEN UNCHANGED <<runRow, held, open>> ELSE Interrupted
      BY <1>3 DEF SweepWrites, RequestMoves
    <2>2. CASE engine.live
      BY <2>1, <2>2, ReadStep
    <2>3. CASE ~engine.live
      BY <2>1, <2>3, SweptStep
    <2> QED BY <2>2, <2>3
  <1>4. CASE LateStopReads \/ LateStopWrites
    <2>1. UNCHANGED <<stranded, engine, teeth, lane, pending>> /\ sweep' \in {"idle", "stop"} /\ ~engine.live
      BY <1>4 DEF LateStopReads, LateStopWrites, RequestMoves, LoopInv, DriverOK
    <2>2. \/ WritesEnd("stopped", "none") /\ UNCHANGED <<held, open>>
          \/ UNCHANGED <<runRow, held, open>>
      BY <1>4 DEF LateStopReads, LateStopWrites
    <2> QED BY <2>1, <2>2, SweptStep
  <1> QED BY <1>1, <1>2, <1>3, <1>4

\* Every step of the lanes, the driver, the timers and the sweeps keeps both.
LEMMA LoopStep ==
    ASSUME LoopInv, TeethOK, [LoopNext]_loopVars
    PROVE  LoopInv' /\ TeethOK'
  <1>1. CASE \E l \in Lanes : LaneStep(l)
    <2>1. PICK l \in Lanes : LaneStep(l)
      BY <1>1
    <2> QED BY <2>1, BeginStep, EndStep, ReturnStep, SettleEndStep, SettleReturnStep, DeliverStep DEF LaneStep
  <1>2. CASE \E l \in Lanes : ClaimBatch(l) \/ Wedges(l) \/ LegThrows(l)
    BY <1>2, ClaimStep, WedgeStep, ThrowStep
  <1>3. CASE DriverStep
    BY <1>3, NextCycleStep, FinishStep, CleanUpStep, FailStep DEF DriverStep
  <1>4. CASE stopLoopRun \/ Bite \/ Backstop
    BY <1>4, StopStep, BiteStep, BackstopStep
  <1>5. CASE ProcessDies \/ Boot \/ SweepReads \/ SweepWrites \/ SweepGivesUp \/ LateStopReads \/ LateStopWrites
    BY <1>5, DieStep, SweepStep
  <1>6. CASE UNCHANGED loopVars
    <2>1. DriverOK' /\ RowOK' /\ TeethOK' /\ LoopTypeOK'
      BY <1>6 DEF loopVars, LoopInv, LoopTypeOK, DriverOK, RowOK, TeethOK, KeyOf
    <2> QED BY <1>6, <2>1, SameLanes DEF loopVars, LoopInv
  <1> QED BY <1>1, <1>2, <1>3, <1>4, <1>5, <1>6 DEF LoopNext

\* The inductive invariant of a run, with what its teeth have and have not cut.
THEOREM LoopInvHolds == LoopSpec => [](LoopInv /\ TeethOK)
  BY LoopInitInv, LoopStep, PTL DEF LoopSpec

\* The row, the engine, the lanes and their queues keep their types.
THEOREM LoopTypeCorrect == LoopSpec => []LoopTypeOK
  BY LoopInvHolds, PTL DEF LoopInv

\* ClaimsHaveAKeeper: as long as the process lives, a backlog row that is in_progress for the run is on
\* a lane at work, in the queue for the closing rescan, owed by the lane that settles the queue, or one
\* whose release failed or came to a driver that had thrown.
THEOREM ClaimsKept == LoopSpec => []ClaimsHaveAKeeper
  <1>1. LoopInv => ClaimsHaveAKeeper
    BY DEF LoopInv, KeptOK, Kept, InHand, ClaimsHaveAKeeper
  <1> QED BY <1>1, LoopInvHolds, PTL

\* The row changes while the run is at work, by a request that read it then, or by a driver that threw.
LEMMA EndStays ==
    ASSUME LoopInv, TeethOK, [LoopNext]_loopVars, runRow.phase # "running"
    PROVE  \/ runRow' = runRow
           \/ sweep # "idle" /\ sweep' = "idle"
           \/ engine.threw /\ runRow'.phase = "error"
  <1>1. CASE FinishRun
    <2>1. engine.driver = "cycling"
      BY <1>1 DEF FinishRun, AllOver
    <2>2. engine.terminated
      BY <2>1 DEF LoopInv, RowOK
    <2> QED BY <1>1, <2>2 DEF FinishRun, Writable
  <1>2. CASE Backstop
    <2>1. ~engine.terminated /\ engine.driver \in {"cycling", "closing"}
      BY <1>2, LoopTypes DEF Backstop, LoopInv, RowOK, DriverOK, EngineRecs
    <2>2. engine.driver = "closing" /\ ~engine.threw
      BY <2>1 DEF LoopInv, RowOK
    <2>3. \A l \in Lanes : lane[l].dog = "none"
      BY <2>2, OverHolds DEF LoopInv, DriverOK
    <2> QED BY <1>2, <2>3 DEF Backstop, Registered
  <1>3. CASE FailRun
    <2>1. engine.threw /\ WritesEnd("error", "none")
      BY <1>3 DEF FailRun, LoopInv, DriverOK
    <2> QED BY <2>1 DEF WritesEnd
  <1>4. CASE Boot
    BY <1>4 DEF Boot
  <1>5. CASE SweepWrites \/ LateStopWrites
    BY <1>5 DEF SweepWrites, LateStopWrites, RequestMoves
  <1>6. CASE \E l \in Lanes : LaneStep(l) \/ ClaimBatch(l) \/ Wedges(l) \/ LegThrows(l)
    BY <1>6 DEF LaneStep, LegBegins, WorktreeMade, LaneEnds, LaneReturns, SettleEnds, SettleReturns, deliverLane,
                ClaimBatch, Wedges, LegThrows
  <1>7. CASE NextCycle \/ CleanUp \/ stopLoopRun \/ Bite \/ ProcessDies
    BY <1>7 DEF NextCycle, CleanUp, stopLoopRun, Bite, ProcessDies
  <1>8. CASE SweepReads \/ SweepGivesUp \/ LateStopReads \/ UNCHANGED loopVars
    BY <1>8 DEF SweepReads, SweepGivesUp, LateStopReads, loopVars
  <1> QED BY <1>1, <1>2, <1>3, <1>4, <1>5, <1>6, <1>7, <1>8 DEF LoopNext, DriverStep

\* EndIsWrittenOnce: neither a driver that comes back after the backstop, nor a backstop that comes after
\* the driver, nor a boot writes over how a run ended; a driver that threw does, with its error.
THEOREM EndsAreWrittenOnce == LoopSpec => EndIsWrittenOnce
  <1>1. LoopInv /\ TeethOK /\ [LoopNext]_loopVars
          => [runRow.phase # "running" => \/ runRow' = runRow
                                          \/ sweep # "idle" /\ sweep' = "idle"
                                          \/ engine.threw /\ runRow'.phase = "error"]_<<runRow, sweep>>
    BY EndStays
  <1> QED BY <1>1, LoopInvHolds, PTL DEF LoopSpec, EndIsWrittenOnce

\* StopIsPursued: with a timer to come the stop is not over; after the last, every lane that was cut has
\* ended, or the registry has let the run go, and the next sweep closes its row if nobody has.  It is what
\* the fairness of the timers and the sweeps turns into StoppedRunEnds.
THEOREM StopsArePursued == LoopSpec => []StopIsPursued
  <1>1. LoopInv /\ TeethOK => StopIsPursued
    <2> SUFFICES ASSUME LoopInv, TeethOK, engine.stop, engine.live, teeth.timer = "none",
                        NEW l \in Lanes, lane[l].at # "over", lane[l].wedged
                 PROVE  OutOfReach(l)
      BY DEF StopIsPursued
    <2>1. engine.bitten
      BY DEF TeethOK
    <2>2. lane[l].dog \in {"none", "set", "cut", "late"}
      BY LoopTypes DEF LaneRecs
    <2>3. lane[l].dog \notin {"set", "cut"}
      BY <2>1 DEF TeethOK
    <2> QED BY <2>1, <2>2, <2>3 DEF OutOfReach
  <1> QED BY <1>1, LoopInvHolds, PTL

\* NothingIsLeftBehind: the finally of drive gives back what the driver still had queued, so a run that
\* came to its end in one process leaves no row in_progress but one whose release failed, unless it threw.
THEOREM RunsLeaveNoClaim == LoopSpec => []NothingIsLeftBehind
  <1>1. LoopInv => NothingIsLeftBehind
    <2> SUFFICES ASSUME LoopInv, engine.driver = "gone", ~engine.died, ~engine.threw, NEW l \in Lanes
                 PROVE  held[l] \subseteq stranded[l]
      BY DEF NothingIsLeftBehind
    <2>1. lane[l].at = "over" /\ pending[l] = {}
      BY DEF LoopInv, DriverOK
    <2> QED BY <2>1, OverHolds
  <1> QED BY <1>1, LoopInvHolds, PTL

-----------------------------------------------------------------------------
(* The row and the run together.                                             *)

\* A behaviour of the two is one of the row, and one of the run.
LEMMA LanesParts ==
    ASSUME [LanesNext]_lanesVars
    PROVE  [Next]_vars /\ [LoopNext]_loopVars
  BY DEF LanesNext, lanesVars

\* So all that is proved of either holds of the two as the runs check them.
THEOREM LanesAreTheirParts == LanesSpec => Spec /\ LoopSpec
  <1>1. LanesInit => Init /\ LoopInit
    BY DEF LanesInit
  <1> QED BY <1>1, LanesParts, PTL DEF LanesSpec, Spec, LoopSpec

\* LaneTypesOK: all that the row's callers and the run's lanes write is of its type, whichever moves.
THEOREM LaneTypesCorrect == LanesSpec => []LaneTypesOK
  <1>1. TypeOK /\ LoopTypeOK => LaneTypesOK
    BY DEF LaneTypesOK
  <1> QED BY <1>1, LanesAreTheirParts, ClaimsTypeCorrect, LoopTypeCorrect, PTL
=============================================================================
