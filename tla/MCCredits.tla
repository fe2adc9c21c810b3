------------------------------- MODULE MCCredits ------------------------------
(***************************************************************************)
(* Billing from three sides, for one run of TLC: the calls that move the   *)
(* ledger (CreditLedger), the queued scans that hold a credit under a key  *)
(* (RescoreJob), for which a ledger call is one step, and the handlers     *)
(* that move the plan (TierRevocation).  A behaviour moves one of them.    *)
(***************************************************************************)
EXTENDS MCCreditLedger, MCRescoreJob, TierRevocation

VARIABLE focus      \* what moves: "calls", "jobs" or "plans"

creditsVars == <<focus, vars, jobVars, tierVars>>

\* What does not move is as another behaviour begins with it.
CreditTypesOK ==
    /\ focus = "calls" => TypeOK
    /\ focus = "jobs" => JobTypeOK
    /\ focus = "plans" => TierTypeOK

\* What does not move has one initial state.  At most one of the jobs' heads has a
\* report to begin with.
CreditsInit ==
    /\ focus \in {"calls", "jobs", "plans"}
    /\ Init
    /\ JobInit /\ Cardinality(stored) <= 1 /\ (focus # "jobs" => stored = {})
    /\ TierInit

\* Handlers are followed up to their first overlap: the properties of the plan
\* say nothing of what comes after it.
Apart == "overlap" \notin disorder

\* The bounds are in the guards.
CreditsNext ==
    /\ UNCHANGED focus
    /\ \/ focus = "calls" /\ Next /\ FewCalls' /\ UNCHANGED <<jobVars, tierVars>>
       \/ focus = "jobs" /\ JobNext /\ Claims' /\ UNCHANGED <<vars, tierVars>>
       \/ focus = "plans" /\ TierNext /\ Apart' /\ UNCHANGED <<vars, jobVars>>

\* Neither the jobs nor the handlers are told apart.
Interchangeable == Symmetry \cup Permutations(Handlers)

CreditsSpec == CreditsInit /\ [][CreditsNext]_creditsVars
=============================================================================
