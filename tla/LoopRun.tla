-------------------------------- MODULE LoopRun -------------------------------
(***************************************************************************)
(* One run of the local improvement loop: the driver that takes its lanes  *)
(* through their cycles, the claims they carry from a cycle to the closing *)
(* rescan, the stop with its two timers (src/lib/local/loop-engine.ts,     *)
(* loop-lane.ts, lane-exit.ts, lane-watchdog.ts), the end of the process   *)
(* and the sweeps that tell a dead run from a live one                     *)
(* (src/lib/db/loop-runs-stale.ts, src/lib/local/boot-sweep.ts).           *)
(*                                                                         *)
(* It begins when startLoopRun has put the run in the registry.  A call    *)
(* that never returns is a lane that is wedged, and stays so.  A release of*)
(* claims or a write of the run's end that fails is swallowed; an insert of*)
(* a lane's row that fails throws, and takes the driver with it.           *)
(***************************************************************************)
EXTENDS FiniteSets, Naturals

CONSTANTS
    Lanes,          \* a repository, or an arm of one: whatever has its own worktree
    MaxCycles,
    OncePerRun      \* TRUE: rescanCadence is "run", one reading for all cycles

ASSUME LoopAssumption == MaxCycles \in Nat \ {0} /\ OncePerRun \in BOOLEAN

VARIABLES
    runRow,         \* the row of the run: its phase and what the end was put down to
    held,           \* held[l]: the cycles whose backlog rows are in_progress
    stranded,       \* history, of one process: the cycles whose release failed or was nobody's to make
    open,           \* open[l]: the cycle whose lane row is in flight, 0 if there is none
    engine,         \* the process, the registry's entry and the driver
    teeth,          \* the timer of the stop, and the keys it found when it bit
    lane,           \* lane[l]: where the driver is with it
    pending,        \* pending[l]: the cycles that wait for the closing rescan
    sweep           \* a sweep or a late stop of a request, between its read and its writes

loopVars == <<runRow, held, stranded, open, engine, teeth, lane, pending, sweep>>

Cycles == 1..MaxCycles
Ends == {"none", "released", "deferred", "unread", "adjudicated"}
LaneKeys == Lanes \X {"lane", "settle"}

LoopTypeOK ==
    /\ runRow \in [phase : {"running", "stopped", "done", "error"}, word : {"none", "abandoned", "interrupted"}]
    /\ held \in [Lanes -> SUBSET Cycles]
    /\ stranded \in [Lanes -> SUBSET Cycles]
    /\ open \in [Lanes -> 0..MaxCycles]
    /\ engine \in [up : BOOLEAN, died : BOOLEAN, live : BOOLEAN, stop : BOOLEAN, bitten : BOOLEAN,
                   terminated : BOOLEAN, threw : BOOLEAN,
                   driver : {"cycling", "closing", "failing", "gone"}, cycle : Cycles]
    /\ teeth \in [timer : {"none", "grace", "backstop"}, inFlight : SUBSET LaneKeys]
    /\ lane \in [Lanes -> [at : {"ready", "setup", "stage", "exit", "settle", "settled", "deliver", "over"},
                           dog : {"none", "set", "cut", "late"}, end : Ends, owed : SUBSET Cycles,
                           progressed : BOOLEAN, wedged : BOOLEAN]]
    /\ pending \in [Lanes -> SUBSET Cycles]
    /\ sweep \in {"idle", "saw", "stop"}

LaneAt(at, progressed) == [at |-> at, dog |-> "none", end |-> "none", owed |-> {},
                           progressed |-> progressed, wedged |-> FALSE]

LoopInit ==
    /\ runRow = [phase |-> "running", word |-> "none"]
    /\ held = [l \in Lanes |-> {}]
    /\ stranded = [l \in Lanes |-> {}]
    /\ open = [l \in Lanes |-> 0]
    /\ engine = [up |-> TRUE, died |-> FALSE, live |-> TRUE, stop |-> FALSE, bitten |-> FALSE,
                 terminated |-> FALSE, threw |-> FALSE, driver |-> "cycling", cycle |-> 1]
    /\ teeth = [timer |-> "none", inFlight |-> {}]
    /\ lane = [l \in Lanes |-> LaneAt("ready", FALSE)]
    /\ pending = [l \in Lanes |-> {}]
    /\ sweep = "idle"

-----------------------------------------------------------------------------
(* A lane in a cycle.                                                        *)

Moves(l, at) == lane[l].at = at /\ ~lane[l].wedged

\* The handle that onWatchdog leaves in the registry.  A closing rescan that comes after the bite is
\* aborted at once; a lane that does is not, and runs until it sees the flag or its own deadline.
Watchdog == IF engine.bitten THEN "late" ELSE "set"

\* upsertLane and the watchdog of runLane.
Enters(l) ==
    /\ lane' = [lane EXCEPT ![l] = [LaneAt("stage", FALSE) EXCEPT !.dog = Watchdog]]
    /\ open' = [open EXCEPT ![l] = engine.cycle]

\* The worktree is made in the first cycle and kept; a leg not yet begun sees the stop.
LegBegins(l) ==
    /\ Moves(l, "ready")
    /\ \/ engine.stop /\ lane' = [lane EXCEPT ![l] = LaneAt("over", FALSE)] /\ UNCHANGED open
       \/ ~engine.stop /\ engine.cycle = 1 /\ lane' = [lane EXCEPT ![l].at = "setup"] /\ UNCHANGED open
       \/ ~engine.stop /\ engine.cycle > 1 /\ Enters(l)
    /\ UNCHANGED <<runRow, held, stranded, engine, teeth, pending, sweep>>

WorktreeMade(l) ==
    /\ Moves(l, "setup")
    /\ \/ Enters(l)
       \/ lane' = [lane EXCEPT ![l] = LaneAt("over", FALSE)] /\ UNCHANGED open
    /\ UNCHANGED <<runRow, held, stranded, engine, teeth, pending, sweep>>

\* The rows of the batch, recorded on the lane and then claimed; no stage, so a cut does not stop it.
ClaimBatch(l) ==
    /\ Moves(l, "stage")
    /\ held' = [held EXCEPT ![l] = @ \cup {engine.cycle}]
    /\ UNCHANGED <<runRow, stranded, open, engine, teeth, lane, pending, sweep>>

\* What the lane may come to.  A cut one fails; a stopped one does not defer, though one that is in
\* its rescan goes through with it.
LaneEnds(l, end) ==
    /\ Moves(l, "stage")
    /\ end # "none"
    /\ end # "released" => lane[l].dog # "cut"
    /\ end = "deferred" => OncePerRun /\ engine.cycle < MaxCycles /\ ~engine.stop
    /\ end \in {"unread", "adjudicated"} => ~OncePerRun \/ engine.cycle = MaxCycles
    /\ lane' = [lane EXCEPT ![l].at = "exit", ![l].end = end, ![l].progressed = end # "released"]
    /\ held' = IF end = "adjudicated" THEN [held EXCEPT ![l] = @ \ {engine.cycle}] ELSE held
    /\ UNCHANGED <<runRow, stranded, open, engine, teeth, pending, sweep>>

\* mapPool's leg throws when upsertLane does, in runLane or in recordLaneSetupFailure.  The driver no
\* longer waits for the other lanes, which go on.
LegThrows(l) ==
    /\ Moves(l, "setup") \/ (Moves(l, "ready") /\ ~engine.stop /\ engine.cycle > 1)
    /\ lane' = [lane EXCEPT ![l] = LaneAt("over", FALSE)]
    /\ engine' = [engine EXCEPT !.threw = TRUE, !.driver = IF @ = "cycling" THEN "closing" ELSE @]
    /\ UNCHANGED <<runRow, held, stranded, open, teeth, pending, sweep>>

\* releaseLaneClaims: a release that fails is swallowed.
GivesBack(l, cycles) ==
    \E lost \in SUBSET (cycles \cap held[l]) :
        /\ held' = [held EXCEPT ![l] = @ \ (cycles \ lost)]
        /\ stranded' = [stranded EXCEPT ![l] = @ \cup lost]

\* Mutation of Releasing: a rescan that failed is taken for one that ruled.
MutReleasing == {"released"}

\* laneExitObligations: the ends that give the claim back.
Releasing == {"released", "unread"}

\* A driver that threw is through with its queue: whoever defers later defers to nobody.
QueueIsRead == engine.driver \in {"cycling", "closing"}

\* exitLane's writes and what the driver does with the result: the deferred cycle is queued, and any
\* other end settles the queue, against the lane's own reading or a closing rescan.
LaneReturns(l) ==
    /\ Moves(l, "exit")
    /\ IF lane[l].end \in Releasing THEN GivesBack(l, {engine.cycle})
       ELSE /\ stranded' = IF lane[l].end = "deferred" /\ ~QueueIsRead
                           THEN [stranded EXCEPT ![l] = @ \cup {engine.cycle}] ELSE stranded
            /\ UNCHANGED held
    /\ \/ /\ lane[l].end = "deferred"
          /\ pending' = IF QueueIsRead THEN [pending EXCEPT ![l] = @ \cup {engine.cycle}] ELSE pending
          /\ lane' = [lane EXCEPT ![l] = LaneAt("deliver", TRUE)]
          /\ open' = [open EXCEPT ![l] = 0]
       \/ /\ lane[l].end # "deferred"
          /\ pending[l] = {}
          /\ lane' = [lane EXCEPT ![l] = LaneAt("deliver", lane[l].progressed)]
          /\ open' = [open EXCEPT ![l] = 0]
          /\ UNCHANGED pending
       \/ /\ lane[l].end # "deferred"
          /\ pending[l] # {}
          /\ pending' = [pending EXCEPT ![l] = {}]
          /\ \/ /\ lane[l].end = "adjudicated"
                /\ lane' = [lane EXCEPT ![l].at = "settled", ![l].dog = "none", ![l].end = "none",
                                        ![l].owed = pending[l]]
                /\ open' = [open EXCEPT ![l] = 0]
             \/ /\ lane[l].end # "adjudicated"
                /\ lane' = [lane EXCEPT ![l].at = "settle", ![l].dog = Watchdog, ![l].end = "none",
                                        ![l].owed = pending[l]]
                /\ open' = [open EXCEPT ![l] = CHOOSE c \in pending[l] : \A d \in pending[l] : d <= c]
    /\ UNCHANGED <<runRow, engine, teeth, sweep>>

\* The closing rescan reads, or fails, or is cut.
SettleEnds(l) ==
    /\ Moves(l, "settle")
    /\ lane' = [lane EXCEPT ![l].at = "settled"]
    /\ UNCHANGED <<runRow, held, stranded, open, engine, teeth, pending, sweep>>

\* Every cycle it owed is ended, ruled on by the reading or given back, unless a call throws between two
\* of them, which is swallowed with what is left.
SettleReturns(l) ==
    /\ Moves(l, "settled")
    /\ GivesBack(l, lane[l].owed)
    /\ lane' = [lane EXCEPT ![l] = LaneAt("deliver", lane[l].progressed)]
    /\ open' = [open EXCEPT ![l] = 0]
    /\ UNCHANGED <<runRow, engine, teeth, pending, sweep>>

deliverLane(l) ==
    /\ Moves(l, "deliver")
    /\ lane' = [lane EXCEPT ![l].at = "over"]
    /\ UNCHANGED <<runRow, held, stranded, open, engine, teeth, pending, sweep>>

\* A write, a git command or a filesystem call of a lane that never returns.  No watchdog races it.
Wedges(l) ==
    /\ lane[l].at \in {"setup", "exit", "settled", "deliver"}
    /\ ~lane[l].wedged
    /\ lane' = [lane EXCEPT ![l].wedged = TRUE]
    /\ UNCHANGED <<runRow, held, stranded, open, engine, teeth, pending, sweep>>

-----------------------------------------------------------------------------
(* The driver.                                                               *)

AllOver == engine.driver = "cycling" /\ \A l \in Lanes : lane[l].at = "over"

\* Mutation of Another: a cycle past the last.
MutAnother == ~engine.stop /\ engine.cycle <= MaxCycles /\ \E l \in Lanes : lane[l].progressed

Another == ~engine.stop /\ engine.cycle < MaxCycles /\ \E l \in Lanes : lane[l].progressed

\* A lane that did not progress drops out.
NextCycle ==
    /\ AllOver /\ Another
    /\ engine' = [engine EXCEPT !.cycle = @ + 1]
    /\ lane' = [l \in Lanes |-> LaneAt(IF lane[l].progressed THEN "ready" ELSE "over", FALSE)]
    /\ UNCHANGED <<runRow, held, stranded, open, teeth, pending, sweep>>

\* Mutation of Writable: the driver writes its end over the backstop's.
MutWritable == TRUE

Writable == ~engine.terminated

\* updateLoopRun: a write that fails is swallowed.
WritesEnd(phase, word) == runRow' \in {runRow, [phase |-> phase, word |-> word]}

FinishRun ==
    /\ AllOver /\ ~Another
    /\ engine' = [engine EXCEPT !.driver = "closing"]
    /\ IF Writable THEN WritesEnd(IF engine.stop THEN "stopped" ELSE "done", "none") ELSE UNCHANGED runRow
    /\ UNCHANGED <<held, stranded, open, teeth, lane, pending, sweep>>

\* drive's finally: abandonDeferredCycles, the timers, the worktrees, the registry.
CleanUp ==
    /\ engine.driver = "closing"
    /\ engine' = [engine EXCEPT !.driver = IF engine.threw THEN "failing" ELSE "gone", !.live = FALSE]
    /\ \E lost \in [Lanes -> SUBSET Cycles] :
           /\ \A l \in Lanes : lost[l] \subseteq pending[l] \cap held[l]
           /\ held' = [l \in Lanes |-> held[l] \ (pending[l] \ lost[l])]
           /\ stranded' = [l \in Lanes |-> stranded[l] \cup lost[l]]
    /\ pending' = [l \in Lanes |-> {}]
    /\ teeth' = [timer |-> "none", inFlight |-> {}]
    /\ UNCHANGED <<runRow, open, lane, sweep>>

\* The catch of a drive that threw, which looks at no end that is written already.
FailRun ==
    /\ engine.driver = "failing"
    /\ engine' = [engine EXCEPT !.driver = "gone"]
    /\ WritesEnd("error", "none")
    /\ UNCHANGED <<held, stranded, open, teeth, lane, pending, sweep>>

-----------------------------------------------------------------------------
(* The stop.                                                                 *)

stopLoopRun ==
    /\ engine.live /\ ~engine.stop
    /\ engine' = [engine EXCEPT !.stop = TRUE]
    /\ teeth' = [teeth EXCEPT !.timer = "grace"]
    /\ UNCHANGED <<runRow, held, stranded, open, lane, pending, sweep>>

\* Mutation of Registered: the closing rescan leaves no handle, as it once did.
MutRegistered == {l \in Lanes : lane[l].dog # "none" /\ lane[l].at \in {"stage", "exit"}}

Registered == {l \in Lanes : lane[l].dog # "none"}
KeyOf(l) == <<l, IF lane[l].at \in {"stage", "exit"} THEN "lane" ELSE "settle">>

\* LANE_STOP_GRACE_MS are over: every lane in flight is aborted, and named for the backstop.
Bite ==
    /\ teeth.timer = "grace"
    /\ engine' = [engine EXCEPT !.bitten = TRUE]
    /\ lane' = [l \in Lanes |-> IF l \in Registered THEN [lane[l] EXCEPT !.dog = "cut"] ELSE lane[l]]
    /\ teeth' = [timer |-> IF Registered = {} THEN "none" ELSE "backstop",
                 inFlight |-> {KeyOf(l) : l \in Registered}]
    /\ UNCHANGED <<runRow, held, stranded, open, pending, sweep>>

\* terminateStuckRun, LANE_STOP_TERMINAL_MS later: the row names the keys that are still there and
\* the registry forgets the run, whose driver may yet come back.
Backstop ==
    /\ teeth.timer = "backstop"
    /\ teeth' = [timer |-> "none", inFlight |-> {}]
    /\ IF \E l \in Registered : KeyOf(l) \in teeth.inFlight
         THEN /\ engine' = [engine EXCEPT !.terminated = TRUE, !.live = FALSE]
              /\ WritesEnd("stopped", "abandoned")
         ELSE UNCHANGED <<engine, runRow>>
    /\ UNCHANGED <<held, stranded, open, lane, pending, sweep>>

-----------------------------------------------------------------------------
(* The end of the process, and the sweeps.                                   *)

\* Once, and before the driver is through: what follows has no more to lose.
ProcessDies ==
    /\ engine.up /\ ~engine.died /\ engine.driver # "gone"
    /\ engine' = [engine EXCEPT !.up = FALSE, !.died = TRUE, !.live = FALSE, !.stop = FALSE,
                                !.bitten = FALSE, !.terminated = FALSE, !.threw = FALSE,
                                !.driver = "gone", !.cycle = 1]
    /\ lane' = [l \in Lanes |-> LaneAt("over", FALSE)]
    /\ pending' = [l \in Lanes |-> {}]
    /\ teeth' = [timer |-> "none", inFlight |-> {}]
    /\ sweep' = "idle"
    /\ stranded' = [l \in Lanes |-> {}]
    /\ UNCHANGED <<runRow, held, open>>

\* markStaleRunsStopped, of a run that it takes for dead: the row, and as best it can the rows that its
\* lanes in flight had claimed, and those lanes.  A lane that deferred is done, and its claim stays.
Interrupted ==
    /\ runRow' = [phase |-> "stopped", word |-> "interrupted"]
    /\ held' \in {held, [l \in Lanes |-> held[l] \ {open[l]}]}
    /\ open' \in {open, [l \in Lanes |-> 0]}

\* sweepInterruptedWork, when the app comes up again.
Boot ==
    /\ ~engine.up
    /\ engine' = [engine EXCEPT !.up = TRUE]
    /\ \/ runRow.phase = "running" /\ Interrupted
       \/ UNCHANGED <<runRow, held, open>>
    /\ UNCHANGED <<stranded, teeth, lane, pending, sweep>>

RequestMoves(from, to) ==
    /\ sweep = from /\ sweep' = to
    /\ UNCHANGED <<stranded, engine, teeth, lane, pending>>

\* The sweep of a page load reads the rows that say running ...
SweepReads ==
    /\ engine.up /\ runRow.phase = "running"
    /\ RequestMoves("idle", "saw")
    /\ UNCHANGED <<runRow, held, open>>

\* ... and writes to those without an entry in the registry, by id.
SweepWrites ==
    /\ RequestMoves("saw", "idle")
    /\ IF engine.live THEN UNCHANGED <<runRow, held, open>> ELSE Interrupted

SweepGivesUp ==
    /\ RequestMoves("saw", "idle")
    /\ UNCHANGED <<runRow, held, open>>

\* stopLoopRun of a run that is not in the registry: the row is read, and closed if it says running.
LateStopReads ==
    /\ engine.up /\ ~engine.live /\ runRow.phase = "running"
    /\ RequestMoves("idle", "stop")
    /\ UNCHANGED <<runRow, held, open>>

LateStopWrites ==
    /\ RequestMoves("stop", "idle")
    /\ WritesEnd("stopped", "none")
    /\ UNCHANGED <<held, open>>

-----------------------------------------------------------------------------
LaneStep(l) ==
    \/ LegBegins(l) \/ WorktreeMade(l) \/ (\E end \in Ends : LaneEnds(l, end)) \/ LaneReturns(l)
    \/ SettleEnds(l) \/ SettleReturns(l) \/ deliverLane(l)

DriverStep == NextCycle \/ FinishRun \/ CleanUp \/ FailRun

LoopNext ==
    \/ \E l \in Lanes : LaneStep(l) \/ ClaimBatch(l) \/ Wedges(l) \/ LegThrows(l)
    \/ DriverStep
    \/ stopLoopRun \/ Bite \/ Backstop
    \/ ProcessDies \/ Boot \/ SweepReads \/ SweepWrites \/ SweepGivesUp \/ LateStopReads \/ LateStopWrites

LoopSpec == LoopInit /\ [][LoopNext]_loopVars

\* A stage ends by the deadline of its watchdog at the latest, timers fire, the driver goes on, and
\* somebody starts the app again and opens its pages: a sweep that is tried again and again gets through
\* once.  A wedged lane does not move.
LoopFairness ==
    /\ \A l \in Lanes : WF_loopVars(LaneStep(l))
    /\ WF_loopVars(DriverStep)
    /\ WF_loopVars(Bite)
    /\ WF_loopVars(Backstop)
    /\ WF_loopVars(Boot)
    /\ SF_loopVars(SweepReads)
    /\ SF_loopVars(SweepWrites)
    /\ WF_loopVars(LateStopWrites)

-----------------------------------------------------------------------------
(* What must hold.                                                           *)

\* As long as the process lives, every row that the run has claimed is in somebody's hands, who will
\* give it back or have it ruled on: the lane of this cycle, the queue of deferred cycles, which waits
\* with the driver, or the settle that took the queue.  Left out are the rows whose release failed or
\* was due when the driver had thrown, for they have no lease that ends, and a lane that never returns.
\* So a driver that comes to its end has left nothing but those.
ClaimsHaveAKeeper ==
    ~engine.died => \A l \in Lanes :
        \/ lane[l].wedged
        \/ held[l] \subseteq stranded[l] \cup pending[l] \cup lane[l].owed
                             \cup (IF lane[l].at \in {"stage", "exit"} THEN {engine.cycle} ELSE {})

\* The first word on how a run ended stays, above all the one that says its lanes were abandoned, when
\* they come back after all: only a request that read the row while it said running writes over it, and
\* the driver that threw, with its error.
EndIsWrittenOnce ==
    [][runRow.phase # "running" =>
           \/ runRow' = runRow
           \/ sweep # "idle" /\ sweep' = "idle"
           \/ engine.threw /\ runRow'.phase = "error"]_<<runRow, sweep>>

\* A wedged lane that the bite could not see: in its worktree or its delivery, settling against its
\* own reading, or registered only after the bite.
OutOfReach(l) == engine.bitten /\ lane[l].wedged /\ lane[l].dog \in {"none", "late"}

\* A stop ends the run, though a lane never returns: the row says so in the end, unless that lane is
\* one that the teeth cannot reach.
StoppedRunEnds == engine.stop ~> (runRow.phase # "running" \/ \E l \in Lanes : OutOfReach(l))
=============================================================================
