------------------------------- MODULE JobLife --------------------------------
(***************************************************************************)
(* What the scan queue promises about one row: a claim hands it to a single*)
(* live run, which gives it back, settles it or dies with it; a row is     *)
(* reaped only when no live run has it; a settled row stays settled.       *)
(***************************************************************************)
EXTENDS Naturals

CONSTANTS Jobs, MaxAttempts

VARIABLES
    state,      \* state[j], or "absent" before the row exists
    attempts,   \* attempts[j]
    live        \* the rows in the hands of a live run

Settled == {"done", "failed", "skipped"}

Init ==
    /\ state = [j \in Jobs |-> "absent"]
    /\ attempts = [j \in Jobs |-> 0]
    /\ live = {}

Enqueue(j) ==
    /\ state[j] = "absent"
    /\ state' = [state EXCEPT ![j] = "queued"]
    /\ UNCHANGED <<attempts, live>>

Claim(j) ==
    /\ state[j] = "queued"
    /\ state' = [state EXCEPT ![j] = "claimed"]
    /\ attempts' = [attempts EXCEPT ![j] = @ + 1]
    /\ live' = live \cup {j}

Held(j) == j \in live /\ state[j] = "claimed"

Return(j) ==
    /\ Held(j)
    /\ state' = [state EXCEPT ![j] = "queued"]
    /\ live' = live \ {j}
    /\ UNCHANGED attempts

Settle(j, outcome) ==
    /\ Held(j)
    /\ state' = [state EXCEPT ![j] = outcome]
    /\ live' = live \ {j}
    /\ UNCHANGED attempts

\* The run ends without a trace on the row.
Drop(j) ==
    /\ Held(j)
    /\ live' = live \ {j}
    /\ UNCHANGED <<state, attempts>>

Reap(S) ==
    /\ S # {}
    /\ \A j \in S : state[j] = "claimed" /\ j \notin live
    /\ state' = [j \in Jobs |->
                    IF j \notin S THEN state[j]
                    ELSE IF attempts[j] < MaxAttempts THEN "queued" ELSE "failed"]
    /\ UNCHANGED <<attempts, live>>

Next ==
    \/ \E j \in Jobs :
        \/ Enqueue(j) \/ Claim(j) \/ Return(j) \/ Drop(j)
        \/ \E outcome \in Settled : Settle(j, outcome)
    \/ \E S \in SUBSET Jobs : Reap(S)

Spec == Init /\ [][Next]_<<state, attempts, live>>
=============================================================================
