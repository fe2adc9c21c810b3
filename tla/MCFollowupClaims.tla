-------------------------- MODULE MCFollowupClaims --------------------------
(***************************************************************************)
(* Instances of FollowupClaims for TLC: two sessions of one agent token, a *)
(* local lane, an admin and the ledger page.                               *)
(***************************************************************************)
EXTENDS FollowupClaims

MCKind == [s \in Sessions |->
    CASE s \in {"a1", "a2"} -> "remote-agent"
      [] s \in {"l1", "l2"} -> "local"
      [] s = "h1" -> "human"
      [] s = "page" -> "ledger"]

MCActor == [s \in Sessions |->
    CASE s \in {"a1", "a2"} -> "token"
      [] s \in {"l1", "l2"} -> "autopilot"
      [] s = "h1" -> "ann"
      [] s = "page" -> "none"]

\* The system without lanes: the run of agents and people only, in which LaneLife has no step.
CallersNext == Tick \/ \E s \in Sessions : CallerStep(s)
CallersSpec == Init /\ [][CallersNext]_vars
=============================================================================
