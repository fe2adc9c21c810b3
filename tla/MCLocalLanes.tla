----------------------------- MODULE MCLocalLanes -----------------------------
(***************************************************************************)
(* The local loop from its two ends, for one run of TLC: one backlog row   *)
(* that lanes, agents and the ledger page work on (FollowupClaims), and    *)
(* one run of the loop with all its lanes and claims (LoopRun).  A         *)
(* behaviour moves one of the two.                                         *)
(***************************************************************************)
EXTENDS MCFollowupClaims, LoopRun

VARIABLE focus      \* what moves: "row" or "run"

lanesVars == <<focus, vars, loopVars>>

LaneTypesOK == TypeOK /\ LoopTypeOK

LanesInit == focus \in {"row", "run"} /\ Init /\ LoopInit

LanesNext ==
    /\ UNCHANGED focus
    /\ \/ focus = "row" /\ Next /\ UNCHANGED loopVars
       \/ focus = "run" /\ LoopNext /\ UNCHANGED vars

\* Fairness and LoopFairness, each while its half is the one that moves.
LanesSpec ==
    /\ LanesInit
    /\ [][LanesNext]_lanesVars
    /\ WF_vars(focus = "row" /\ Tick)
    /\ \A s \in {t \in Sessions : Kind[t] = "ledger"} :
         WF_vars(focus = "row" /\ BeginSweep(s)) /\ SF_vars(focus = "row" /\ SweepWrite(s))
    /\ \A l \in Lanes : WF_loopVars(focus = "run" /\ LaneStep(l))
    /\ WF_loopVars(focus = "run" /\ DriverStep)
    /\ WF_loopVars(focus = "run" /\ Bite)
    /\ WF_loopVars(focus = "run" /\ Backstop)
    /\ WF_loopVars(focus = "run" /\ Boot)
    /\ SF_loopVars(focus = "run" /\ SweepReads)
    /\ SF_loopVars(focus = "run" /\ SweepWrites)
    /\ WF_loopVars(focus = "run" /\ LateStopWrites)
=============================================================================
