----------------------------- MODULE MCRescoreJob -----------------------------
(***************************************************************************)
(* Instances of RescoreJob for TLC.                                        *)
(***************************************************************************)
EXTENDS RescoreJob, TLC, FiniteSetsExt

CONSTANT MaxClaims  \* all jobs' claims: a yield gives the row back without end

Claims == MapThenSumSet(LAMBDA j : attempts[j], Jobs) <= MaxClaims

Symmetry == Permutations(Jobs)
=============================================================================
