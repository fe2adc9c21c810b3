----------------------------- MODULE MCScanQueue -----------------------------
(***************************************************************************)
(* Instances of ScanQueue for TLC: rows 1 and 2 are for one repository (two *)
(* requests, two run ids), row 3 for another.                               *)
(***************************************************************************)
EXTENDS ScanQueue

MCRepoOf == [j \in Jobs |-> IF j = 3 THEN "other" ELSE "repo"]

\* Row 1 was enqueued by a person, the others by the schedule.
MCPriority == [j \in Jobs |-> IF j = 1 THEN 10 ELSE 0]
=============================================================================
