---------------------------- MODULE ServicesProofs ----------------------------
(***************************************************************************)
(* Theorems about AthenaProposals, for any number of requests and sweeps,  *)
(* and about ScanCoalesce, for any visits and any bound of the runs; and   *)
(* what they and those of AdmissionProofs say of the five services         *)
(* together (MCServices).  Those that speak of stale claims assume the     *)
(* platform's cap on requests.                                             *)
(***************************************************************************)
EXTENDS MCServices, AdmissionProofs, FiniteSetTheorems, TLAPS

-----------------------------------------------------------------------------
(* The asks of Athena.                                                       *)

\* A request that has claimed the row and not let go of it.
Holding == {"running", "stamping", "writing", "releasing"}

\* What the columns of the row say of each other.
RowOK ==
    /\ proposal.resolvedAt <=> proposal.outcome # "none"
    /\ proposal.status = "open" => ~proposal.resolvedAt /\ proposal.claimant = NoClick
    /\ proposal.status \in {"declined", "expired"} => proposal.resolvedAt
    /\ proposal.outcome \in {"ran", "interrupted"} => proposal.status = "accepted"
    /\ proposal.outcome = "ran" => proposal.claimant # NoClick

\* A holder is the claimant, and the claimant of an accepted row holds it or has ended; an action
\* that may have run is the claimant's, and a claimant that did not give up has run it.
ClaimOK(c) ==
    /\ click[c] \in Holding => proposal.status = "accepted" /\ proposal.claimant = c
    /\ proposal.status = "accepted" /\ proposal.claimant = c =>
           click[c] \in Holding \cup {"done", "dead"}
    /\ c \in Ran => /\ proposal.status = "accepted" /\ proposal.claimant = c
                    /\ click[c] # "releasing"
    /\ click[c] \in Holding \ {"releasing"} => c \in Ran
    /\ c \in thrown => click[c] \in {"releasing", "done", "dead"}
    /\ proposal.outcome = "ran" /\ proposal.claimant = c => c \in Ran /\ click[c] \notin Holding

ProposalInv == ProposalTypeOK /\ RowOK /\ \A c \in Clicks : ClaimOK(c)

\* With the cap, whose claim is stale or interrupted, or listed by a sweep, is gone.
Gone == proposal.status = "accepted" /\ \A c \in Clicks : proposal.claimant = c => click[c] \notin Holding

StaleInv ==
    /\ proposal.status = "accepted" /\ proposal.claimedAt # "recent" => Gone
    /\ proposal.outcome = "interrupted" => Gone
    /\ \A s \in Reapers : reaper[s] = "interrupting" => Gone

-----------------------------------------------------------------------------
(* The invariant of the row and its requests.                                *)

LEMMA ProposalInitInv ==
    ProposalInit => ProposalInv
  <1> SUFFICES ASSUME ProposalInit PROVE ProposalInv
    OBVIOUS
  <1>1. /\ OpenRow \in ProposalRow /\ [OpenRow EXCEPT !.status = "accepted"] \in ProposalRow
        /\ proposal.claimant = NoClick /\ proposal.outcome = "none" /\ ~proposal.resolvedAt
        /\ proposal.status \in {"open", "accepted"}
    <2>1. OpenRow \in ProposalRow /\ [OpenRow EXCEPT !.status = "accepted"] \in ProposalRow
      BY DEF OpenRow, ProposalRow, ProposalStatuses, ProposalOutcomes
    <2>2. CASE proposal = OpenRow
      BY <2>1, <2>2 DEF OpenRow
    <2>3. CASE proposal = [OpenRow EXCEPT !.status = "accepted"]
      BY <2>1, <2>3 DEF OpenRow
    <2> QED BY <2>2, <2>3 DEF ProposalInit
  <1>2. ProposalTypeOK
    BY <1>1 DEF ProposalInit, ProposalTypeOK, ClickPhases, ReaperPhases
  <1>3. RowOK
    BY <1>1 DEF RowOK
  <1>4. ASSUME NEW c \in Clicks PROVE ClaimOK(c)
    BY <1>1, <1>4, ProposalAssumption DEF ProposalInit, ClaimOK, Ran, Holding
  <1> QED BY <1>2, <1>3, <1>4 DEF ProposalInv

\* A step that leaves the row and its history alone, and moves a request between two phases that
\* both hold the row or both do not.
LEMMA ClickOnly ==
    ASSUME ProposalInv, NEW c \in Clicks, NEW phase \in ClickPhases, ClickGoes(c, phase),
           UNCHANGED <<proposal, askAged, watched, reaper, effect, thrown>>,
           \/ click[c] \notin Holding \cup {"done", "dead"} /\ phase \notin Holding
           \/ click[c] \in Holding /\ phase \in {"stamping", "writing"} /\ click[c] # "releasing"
           \/ click[c] \in Holding /\ phase \in {"done", "dead"}
    PROVE  ProposalInv'
  <1>1. ProposalTypeOK'
    BY DEF ProposalInv, ProposalTypeOK, ClickGoes
  <1>2. RowOK'
    BY DEF ProposalInv, RowOK
  <1>3. ASSUME NEW d \in Clicks PROVE ClaimOK(d)'
    <2>1. CASE d = c
      BY <2>1 DEF ProposalInv, ProposalTypeOK, ClickGoes, ClaimOK, Ran, Holding
    <2>2. CASE d # c
      BY <2>2 DEF ProposalInv, ProposalTypeOK, ClickGoes, ClaimOK, Ran
    <2> QED BY <2>1, <2>2
  <1> QED BY <1>1, <1>2, <1>3 DEF ProposalInv

\* A step that writes the row, and moves a request with it.
LEMMA ClaimInv ==
    ASSUME ProposalInv, NEW c \in Clicks, claimAthenaProposal(c)
    PROVE  ProposalInv'
  <1>1. CASE ~Unanswered
    BY <1>1, ClickOnly DEF claimAthenaProposal, ClickPhases, Holding
  <1>2. CASE Unanswered
    <2>1. /\ proposal' = ClaimedRow(c) /\ effect' = effect \cup {c} /\ ClickGoes(c, "running")
          /\ thrown' = thrown
          /\ click[c] = "accepting" /\ UNCHANGED <<askAged, watched, reaper>>
          /\ proposal.status = "open" /\ proposal \in ProposalRow
      BY <1>2 DEF claimAthenaProposal, Unanswered, ProposalInv, ProposalTypeOK
    <2>2. /\ proposal' \in ProposalRow /\ proposal'.status = "accepted" /\ proposal'.claimant = c
          /\ proposal'.outcome = proposal.outcome /\ proposal'.resolvedAt = proposal.resolvedAt
      BY <2>1 DEF ClaimedRow, ProposalRow, ProposalStatuses
    <2>3. proposal.outcome = "none" /\ ~proposal.resolvedAt
      BY <2>1 DEF ProposalInv, RowOK
    <2>4. ProposalTypeOK'
      BY <2>1, <2>2 DEF ProposalInv, ProposalTypeOK, ClickGoes, ClickPhases
    <2>5. RowOK'
      BY <2>1, <2>2, <2>3 DEF RowOK
    <2>6. ASSUME NEW d \in Clicks PROVE ClaimOK(d)'
      <3>1. /\ click[d] \notin Holding /\ d \notin Ran /\ c \notin thrown
            /\ d \in thrown => click[d] \in {"releasing", "done", "dead"}
        BY <2>1 DEF ProposalInv, ClaimOK, Ran
      <3>2. click'[d] = IF d = c THEN "running" ELSE click[d]
        BY <2>1 DEF ProposalInv, ProposalTypeOK, ClickGoes
      <3> QED BY <2>1, <2>2, <2>3, <3>1, <3>2 DEF ClaimOK, Ran, Holding
    <2> QED BY <2>4, <2>5, <2>6 DEF ProposalInv
  <1> QED BY <1>1, <1>2
\* An ask that is still open has no holder, and its row may be closed.
LEMMA CloseInv ==
    ASSUME ProposalInv, Unanswered,
           NEW status \in {"declined", "expired"}, NEW by \in Clicks \cup {NoClick},
           proposal' = Closed(proposal, status, by, status), UNCHANGED <<askAged, watched, effect, thrown>>,
           click' \in [Clicks -> ClickPhases], reaper' \in [Reapers -> ReaperPhases],
           \A d \in Clicks : click'[d] = click[d] \/ click'[d] = "done"
    PROVE  ProposalInv'
  <1>1. /\ proposal' \in ProposalRow /\ proposal'.status = status /\ proposal'.outcome = status
        /\ proposal'.resolvedAt
    <2>1. proposal \in ProposalRow
      BY DEF ProposalInv, ProposalTypeOK
    <2> QED BY <2>1 DEF Closed, ProposalRow, ProposalStatuses, ProposalOutcomes
  <1>2. ProposalTypeOK'
    BY <1>1 DEF ProposalInv, ProposalTypeOK
  <1>3. RowOK'
    BY <1>1 DEF RowOK
  <1>4. ASSUME NEW d \in Clicks PROVE ClaimOK(d)'
    <2>1. /\ click[d] \notin Holding /\ d \notin Ran
          /\ d \in thrown => click[d] \in {"releasing", "done", "dead"}
      BY DEF ProposalInv, ClaimOK, Ran, Unanswered
    <2> QED BY <1>1, <2>1 DEF ClaimOK, Ran, Holding
  <1> QED BY <1>2, <1>3, <1>4 DEF ProposalInv

\* The claimed row is stamped or interrupted; nothing but its outcome changes.
LEMMA OutcomeInv ==
    ASSUME ProposalInv, Claimed, NEW outcome \in {"ran", "interrupted"},
           proposal' = [proposal EXCEPT !.resolvedAt = TRUE, !.outcome = outcome],
           UNCHANGED <<askAged, watched, effect, thrown>>,
           click' \in [Clicks -> ClickPhases], reaper' \in [Reapers -> ReaperPhases],
           \A d \in Clicks : click'[d] = click[d] \/ (click'[d] = "done" /\ click[d] = "writing"),
           outcome = "ran" => \E c \in Clicks : click[c] = "writing" /\ click'[c] = "done"
    PROVE  ProposalInv'
  <1>1. /\ proposal' \in ProposalRow /\ proposal'.status = "accepted" /\ proposal'.outcome = outcome
        /\ proposal'.resolvedAt /\ proposal'.claimant = proposal.claimant
    <2>1. proposal \in ProposalRow
      BY DEF ProposalInv, ProposalTypeOK
    <2> QED BY <2>1 DEF Claimed, ProposalRow, ProposalOutcomes
  <1>2. ProposalTypeOK'
    BY <1>1 DEF ProposalInv, ProposalTypeOK
  <1>5. outcome = "ran" => proposal.claimant # NoClick
    BY ProposalAssumption DEF ProposalInv, ClaimOK, Ran, Holding
  <1>3. RowOK'
    BY <1>1, <1>5 DEF RowOK
  <1>4. ASSUME NEW d \in Clicks PROVE ClaimOK(d)'
    <2>1. ClaimOK(d) /\ proposal.status = "accepted"
      BY DEF ProposalInv, Claimed
    <2>2. outcome = "ran" => (proposal.claimant = d => click[d] = "writing" /\ click'[d] = "done")
      BY ProposalAssumption DEF ProposalInv, ClaimOK, Ran, Holding
    <2> QED BY <1>1, <2>1, <2>2 DEF ClaimOK, Ran, Holding
  <1> QED BY <1>2, <1>3, <1>4 DEF ProposalInv

\* A holder whose action threw lets go of the row.
LEMMA ReleaseInv ==
    ASSUME ProposalInv, NEW c \in Clicks, releaseAthenaProposal(c)
    PROVE  ProposalInv'
  <1>1. CASE UNCHANGED proposal
    BY <1>1, ClickOnly DEF releaseAthenaProposal, ClickPhases, Holding
  <1>2. CASE Claimed /\ proposal' = [proposal EXCEPT !.status = "open", !.claimant = NoClick]
    <2>1. /\ proposal' \in ProposalRow /\ proposal'.status = "open" /\ proposal'.claimant = NoClick
          /\ proposal'.outcome = proposal.outcome /\ proposal'.resolvedAt = proposal.resolvedAt
      <3>1. proposal \in ProposalRow
        BY DEF ProposalInv, ProposalTypeOK
      <3> QED BY <1>2, <3>1 DEF ProposalRow, ProposalStatuses
    <2>2. proposal.outcome = "none" /\ ~proposal.resolvedAt
      BY <1>2 DEF ProposalInv, RowOK, Claimed
    <2>3. ProposalTypeOK'
      BY <2>1 DEF ProposalInv, ProposalTypeOK, releaseAthenaProposal, ClickGoes, ClickPhases
    <2>4. RowOK'
      BY <2>1, <2>2 DEF RowOK
    <2>5. ASSUME NEW d \in Clicks PROVE ClaimOK(d)'
      <3>1. click[c] = "releasing" /\ effect' = effect /\ thrown' = thrown
        BY DEF releaseAthenaProposal
      <3>2. click'[d] = IF d = c THEN "done" ELSE click[d]
        BY DEF ProposalInv, ProposalTypeOK, ClickGoes, releaseAthenaProposal
      <3>3. /\ d \notin Ran /\ (d # c => click[d] \notin Holding)
            /\ d \in thrown => click[d] \in {"releasing", "done", "dead"}
        BY <3>1 DEF ProposalInv, ClaimOK, Ran, Holding
      <3> QED BY <2>1, <2>2, <3>1, <3>2, <3>3, ProposalAssumption DEF ClaimOK, Ran, Holding
    <2> QED BY <2>3, <2>4, <2>5 DEF ProposalInv
  <1> QED BY <1>1, <1>2 DEF releaseAthenaProposal

LEMMA ThrowInv ==
    ASSUME ProposalInv, NEW c \in Clicks, ActionThrows(c)
    PROVE  ProposalInv'
  <1>1. /\ click[c] = "running" /\ thrown' = thrown \cup {c}
        /\ UNCHANGED <<proposal, askAged, watched, reaper, effect>>
        /\ ClickGoes(c, "releasing")
    BY DEF ActionThrows
  <1>2. ProposalTypeOK'
    <2>1. c \in effect
      BY <1>1 DEF ProposalInv, ClaimOK, Ran, Holding
    <2> QED BY <1>1, <2>1 DEF ProposalInv, ProposalTypeOK, ClickGoes, ClickPhases
  <1>3. RowOK'
    BY <1>1 DEF ProposalInv, RowOK
  <1>4. ASSUME NEW d \in Clicks PROVE ClaimOK(d)'
    <2>1. click'[d] = IF d = c THEN "releasing" ELSE click[d]
      BY <1>1 DEF ProposalInv, ProposalTypeOK, ClickGoes
    <2>2. ClaimOK(c) /\ ClaimOK(d)
      BY DEF ProposalInv
    <2> QED BY <1>1, <2>1, <2>2 DEF ClaimOK, Ran, Holding
  <1> QED BY <1>2, <1>3, <1>4 DEF ProposalInv

\* A step of a sweep or of the clock that leaves what the invariant speaks of alone.
LEMMA ReaperOnly ==
    ASSUME ProposalInv, UNCHANGED <<click, effect, thrown>>, askAged' \in BOOLEAN, watched' \in BOOLEAN,
           proposal' \in {proposal, [proposal EXCEPT !.claimedAt = "stale"]},
           reaper' \in [Reapers -> ReaperPhases]
    PROVE  ProposalInv'
  <1>1. /\ proposal' \in ProposalRow /\ proposal'.status = proposal.status
        /\ proposal'.claimant = proposal.claimant /\ proposal'.outcome = proposal.outcome
        /\ proposal'.resolvedAt = proposal.resolvedAt
    BY DEF ProposalInv, ProposalTypeOK, ProposalRow
  <1>2. ProposalTypeOK'
    BY <1>1 DEF ProposalInv, ProposalTypeOK
  <1>3. RowOK'
    BY <1>1 DEF ProposalInv, RowOK
  <1>4. ASSUME NEW d \in Clicks PROVE ClaimOK(d)'
    BY <1>1 DEF ProposalInv, ClaimOK, Ran
  <1> QED BY <1>2, <1>3, <1>4 DEF ProposalInv
LEMMA ProposalStep ==
    ASSUME ProposalInv, [ProposalNext]_proposalVars
    PROVE  ProposalInv'
  <1>1. ASSUME NEW c \in Clicks, ReadProposal(c) \/ ClickStep(c) PROVE ProposalInv'
    <2>1. CASE ReadProposal(c)
      BY <2>1, ClickOnly DEF ReadProposal, ClickPhases, Holding
    <2>2. CASE CheckAccept(c)
      BY <2>2, ClickOnly DEF CheckAccept, ClickPhases, Holding
    <2>3. CASE LookOpen(c)
      BY <2>3, ClickOnly DEF LookOpen, ClickPhases, Holding
    <2>4. CASE WriteDecline(c)
      <3>1. CASE Unanswered
        <4>1. /\ proposal' = Closed(proposal, "declined", c, "declined")
              /\ click' = [click EXCEPT ![c] = "done"] /\ UNCHANGED <<askAged, watched, reaper, effect, thrown>>
          BY <2>4, <3>1 DEF WriteDecline, ClickGoes
        <4>2. click' \in [Clicks -> ClickPhases] /\ reaper' \in [Reapers -> ReaperPhases]
          BY <4>1 DEF ProposalInv, ProposalTypeOK, ClickPhases
        <4>3. \A d \in Clicks : click'[d] = click[d] \/ click'[d] = "done"
          BY <4>1 DEF ProposalInv, ProposalTypeOK
        <4> QED BY <3>1, <4>1, <4>2, <4>3, CloseInv
      <3>2. CASE ~Unanswered
        BY <2>4, <3>2, ClickOnly DEF WriteDecline, ClickPhases, Holding
      <3> QED BY <3>1, <3>2
    <2>5. CASE claimAthenaProposal(c)
      BY <2>5, ClaimInv
    <2>6. CASE ActionReturns(c)
      BY <2>6, ClickOnly DEF ActionReturns, ClickPhases, Holding
    <2>7. CASE ActionThrows(c)
      BY <2>7, ThrowInv
    <2>8. CASE releaseAthenaProposal(c)
      BY <2>8, ReleaseInv
    <2>9. CASE LookUnstamped(c)
      BY <2>9, ClickOnly DEF LookUnstamped, ClickPhases, Holding
    <2>10. CASE WriteStamp(c)
      <3>1. CASE proposal.resolvedAt
        BY <2>10, <3>1, ClickOnly DEF WriteStamp, ClickPhases, Holding
      <3>2. CASE ~proposal.resolvedAt
        <4>1. /\ proposal' = [proposal EXCEPT !.resolvedAt = TRUE, !.outcome = "ran"]
              /\ click' = [click EXCEPT ![c] = "done"] /\ UNCHANGED <<askAged, watched, reaper, effect, thrown>>
              /\ click[c] = "writing"
          BY <2>10, <3>2 DEF WriteStamp, ClickGoes
        <4>2. click' \in [Clicks -> ClickPhases] /\ reaper' \in [Reapers -> ReaperPhases]
          BY <4>1 DEF ProposalInv, ProposalTypeOK, ClickPhases
        <4>3. \A d \in Clicks : click'[d] = click[d] \/ (click'[d] = "done" /\ click[d] = "writing")
          BY <4>1 DEF ProposalInv, ProposalTypeOK
        <4>4. click'[c] = "done"
          BY <4>1 DEF ProposalInv, ProposalTypeOK
        <4>5. Claimed
          BY <3>2, <4>1 DEF ProposalInv, ClaimOK, Ran, Holding, Claimed
        <4> QED BY <4>1, <4>2, <4>3, <4>4, <4>5, OutcomeInv
      <3> QED BY <3>1, <3>2
    <2>11. CASE ClickDies(c)
      BY <2>11, ClickOnly DEF ClickDies, ClickPhases, LiveClick, Holding
    <2> QED BY <1>1, <2>1, <2>2, <2>3, <2>4, <2>5, <2>6, <2>7, <2>8, <2>9, <2>10, <2>11 DEF ClickStep
  <1>2. ASSUME NEW s \in Reapers, NEW phase \in ReaperPhases, ReaperGoes(s, phase)
        PROVE  reaper' \in [Reapers -> ReaperPhases]
    BY <1>2 DEF ProposalInv, ProposalTypeOK, ReaperGoes
  <1>3. ASSUME NEW s \in Reapers,
               \/ ListStaleClaims(s) \/ Interrupt(s) \/ ListAgedAsks(s) \/ Expire(s)
               \/ NextSweep(s) \/ SweepCutShort(s)
        PROVE  ProposalInv'
    <2>0. askAged \in BOOLEAN /\ watched \in BOOLEAN /\ click \in [Clicks -> ClickPhases]
      BY DEF ProposalInv, ProposalTypeOK
    <2>1. CASE ListStaleClaims(s)
      BY <2>0, <2>1, <1>2, ReaperOnly DEF ListStaleClaims, ReaperPhases
    <2>2. CASE Interrupt(s)
      <3>1. reaper' \in [Reapers -> ReaperPhases] /\ UNCHANGED <<askAged, watched, click, effect, thrown>>
        BY <2>2, <1>2 DEF Interrupt, ReaperPhases
      <3>2. CASE Claimed
        <4>1. proposal' = [proposal EXCEPT !.resolvedAt = TRUE, !.outcome = "interrupted"]
          BY <2>2, <3>2 DEF Interrupt, InterruptedRow
        <4> QED BY <2>0, <3>1, <3>2, <4>1, OutcomeInv
      <3>3. CASE ~Claimed
        BY <2>0, <2>2, <3>1, <3>3, ReaperOnly DEF Interrupt
      <3> QED BY <3>2, <3>3
    <2>3. CASE ListAgedAsks(s)
      BY <2>0, <2>3, <1>2, ReaperOnly DEF ListAgedAsks, ReaperPhases
    <2>4. CASE Expire(s)
      <3>1. reaper' \in [Reapers -> ReaperPhases] /\ UNCHANGED <<askAged, watched, click, effect, thrown>>
        BY <2>4, <1>2 DEF Expire, ReaperPhases
      <3>2. CASE Unanswered
        BY <2>0, <2>4, <3>1, <3>2, CloseInv DEF Expire
      <3>3. CASE ~Unanswered
        BY <2>0, <2>4, <3>1, <3>3, ReaperOnly DEF Expire
      <3> QED BY <3>2, <3>3
    <2>5. CASE NextSweep(s)
      BY <2>0, <2>5, <1>2, ReaperOnly DEF NextSweep, ReaperPhases
    <2>6. CASE SweepCutShort(s)
      BY <2>0, <2>6, <1>2, ReaperOnly DEF SweepCutShort, ReaperPhases
    <2> QED BY <1>3, <2>1, <2>2, <2>3, <2>4, <2>5, <2>6
  <1>4. CASE ClaimAges
    BY <1>4, ReaperOnly DEF ClaimAges, ProposalInv, ProposalTypeOK
  <1>5. CASE AskAges
    BY <1>5, ReaperOnly DEF AskAges, ProposalInv, ProposalTypeOK
  <1>6. CASE WatchChanges
    BY <1>6, ReaperOnly DEF WatchChanges, ProposalInv, ProposalTypeOK
  <1>7. CASE UNCHANGED proposalVars
    BY <1>7, ReaperOnly DEF proposalVars, ProposalInv, ProposalTypeOK
  <1> QED BY <1>1, <1>3, <1>4, <1>5, <1>6, <1>7 DEF ProposalNext

\* The inductive invariant: the claimant of an accepted row is the one request that holds it or has
\* ended, and an action that may have run is the claimant's.
THEOREM ProposalInvHolds == ProposalSpec => []ProposalInv
  BY ProposalInitInv, ProposalStep, PTL DEF ProposalSpec

\* Columns, phases and the history keep their types.
THEOREM ProposalTypeCorrect == ProposalSpec => []ProposalTypeOK
  <1>1. ProposalInv => ProposalTypeOK
    BY DEF ProposalInv
  <1> QED BY <1>1, ProposalInvHolds, PTL

\* For any number of requests and sweeps, with or without the cap, an action runs at most once.
THEOREM ActionsRunOnce == ProposalSpec => []ActionRunsOnce
  <1>1. ProposalInv => ActionRunsOnce
    BY DEF ProposalInv, ProposalTypeOK, ClaimOK, Ran, ActionRunsOnce
  <1> QED BY <1>1, ProposalInvHolds, PTL

\* ... and the row of an action that may have run is accepted, the stamp being its claimant's.
THEOREM RowsTellTheTruth == ProposalSpec => []RowTellsTheTruth
  <1>1. ASSUME ProposalInv PROVE RowTellsTheTruth
    <2>1. Ran # {} => proposal.status = "accepted"
      BY <1>1 DEF ProposalInv, ProposalTypeOK, ClaimOK, Ran
    <2>2. proposal.claimant \in Clicks \cup {NoClick}
      BY <1>1 DEF ProposalInv, ProposalTypeOK, ProposalRow
    <2>3. proposal.outcome = "ran" => proposal.claimant \in Ran
      BY <1>1, <2>2 DEF ProposalInv, RowOK, ClaimOK, Ran
    <2> QED BY <2>1, <2>3 DEF RowTellsTheTruth
  <1> QED BY <1>1, ProposalInvHolds, PTL
-----------------------------------------------------------------------------
(* Stale claims.                                                             *)

\* A claimant that is gone stays gone, and so does its claim.
LEMMA GoneStays ==
    ASSUME ProposalInv, Gone, [ProposalNext]_proposalVars
    PROVE  Gone'
  <1>1. /\ proposal.status = "accepted" /\ ~Unanswered
        /\ \A d \in Clicks : click[d] \notin Holding
    BY DEF Gone, ProposalInv, ClaimOK, Ran, Unanswered
  <1>2. /\ click \in [Clicks -> ClickPhases] /\ proposal \in ProposalRow
    BY DEF ProposalInv, ProposalTypeOK
  <1>3. ASSUME proposal'.status = "accepted", \A d \in Clicks : click'[d] \notin Holding
        PROVE  Gone'
    BY <1>3 DEF Gone
  <1>4. ASSUME NEW c \in Clicks, NEW phase \in ClickPhases \ Holding, ClickGoes(c, phase)
        PROVE  \A d \in Clicks : click'[d] \notin Holding
    BY <1>1, <1>2, <1>4 DEF ClickGoes
  <1>5. ASSUME NEW c \in Clicks, ReadProposal(c) \/ ClickStep(c) PROVE Gone'
    <2>1. CASE ReadProposal(c) \/ CheckAccept(c) \/ LookOpen(c) \/ ClickDies(c)
      BY <1>1, <1>3, <1>4, <1>5, <2>1 DEF ReadProposal, CheckAccept, LookOpen, ClickDies, ClickPhases, Holding
    <2>2. CASE WriteDecline(c) \/ claimAthenaProposal(c)
      BY <1>1, <1>3, <1>4, <2>2 DEF WriteDecline, claimAthenaProposal, ClickPhases, Holding
    <2>3. CASE \/ ActionReturns(c) \/ ActionThrows(c) \/ releaseAthenaProposal(c)
               \/ LookUnstamped(c) \/ WriteStamp(c)
      BY <1>1, <2>3 DEF ActionReturns, ActionThrows, releaseAthenaProposal, LookUnstamped, WriteStamp, Holding
    <2> QED BY <1>5, <2>1, <2>2, <2>3 DEF ClickStep
  <1>6. ASSUME NEW s \in Reapers,
               \/ ListStaleClaims(s) \/ Interrupt(s) \/ ListAgedAsks(s) \/ Expire(s)
               \/ NextSweep(s) \/ SweepCutShort(s)
        PROVE  Gone'
    <2>1. click' = click
      BY <1>6 DEF ListStaleClaims, Interrupt, ListAgedAsks, Expire, NextSweep, SweepCutShort
    <2>2. proposal' \in {proposal, InterruptedRow}
      BY <1>1, <1>6 DEF ListStaleClaims, Interrupt, ListAgedAsks, Expire, NextSweep, SweepCutShort
    <2>3. proposal'.status = "accepted"
      BY <1>1, <1>2, <2>2 DEF InterruptedRow, ProposalRow
    <2> QED BY <1>1, <1>3, <2>1, <2>3
  <1>7. CASE ClaimAges \/ AskAges \/ WatchChanges
    BY <1>1, <1>2, <1>3, <1>7 DEF ClaimAges, AskAges, WatchChanges, ProposalRow
  <1>8. CASE UNCHANGED proposalVars
    BY <1>1, <1>3, <1>8 DEF proposalVars
  <1> QED BY <1>5, <1>6, <1>7, <1>8 DEF ProposalNext

LEMMA StaleInit ==
    ProposalInit => StaleInv
  BY ProposalAssumption DEF ProposalInit, StaleInv, Gone, OpenRow, Holding

LEMMA StaleStep ==
    ASSUME Capped, ProposalInv, StaleInv, [ProposalNext]_proposalVars
    PROVE  StaleInv'
  <1>1. Gone => Gone'
    BY GoneStays
  <1>2. click \in [Clicks -> ClickPhases] /\ proposal \in ProposalRow /\ reaper \in [Reapers -> ReaperPhases]
    BY DEF ProposalInv, ProposalTypeOK
  <1>3. ASSUME proposal'.status = "accepted", proposal'.claimedAt # "recent" PROVE Gone'
    <2>1. CASE ClaimAges
      BY <1>2, <1>3, <2>1 DEF ClaimAges, Gone, LiveClick, Holding, ClickPhases, ProposalRow
    <2>2. CASE \E c \in Clicks : claimAthenaProposal(c) /\ Unanswered
      BY <1>2, <1>3, <2>2 DEF claimAthenaProposal, ClaimedRow, ProposalRow
    <2>3. CASE proposal.status = "accepted" /\ proposal.claimedAt # "recent"
      BY <1>1, <2>3 DEF StaleInv
    <2>4. ASSUME ~ClaimAges, ~\E c \in Clicks : claimAthenaProposal(c) /\ Unanswered
          PROVE  proposal.status = "accepted" /\ proposal.claimedAt # "recent"
      <3>1. CASE proposal' = proposal
        BY <1>3, <3>1
      <3>2. ASSUME proposal' # proposal
            PROVE  \/ \E outcome \in ProposalOutcomes : /\ Claimed
                        /\ proposal' = [proposal EXCEPT !.resolvedAt = TRUE, !.outcome = outcome]
                   \/ proposal'.status \in {"open", "declined", "expired"}
        <4>1. ASSUME NEW c \in Clicks, ReadProposal(c) \/ ClickStep(c)
              PROVE  releaseAthenaProposal(c) \/ WriteDecline(c) \/ WriteStamp(c)
          BY <2>4, <3>2, <4>1 DEF ReadProposal, ClickStep, CheckAccept, LookOpen, claimAthenaProposal,
               ActionReturns, ActionThrows, LookUnstamped, ClickDies
        <4>2. ASSUME NEW c \in Clicks, releaseAthenaProposal(c) \/ WriteDecline(c)
              PROVE  proposal'.status \in {"open", "declined", "expired"}
          BY <1>2, <3>2, <4>2 DEF releaseAthenaProposal, WriteDecline, Closed, ProposalRow
        <4>3. ASSUME NEW c \in Clicks, WriteStamp(c)
              PROVE  Claimed /\ proposal' = [proposal EXCEPT !.resolvedAt = TRUE, !.outcome = "ran"]
          BY <3>2, <4>3 DEF WriteStamp, Claimed, ProposalInv, ClaimOK, Ran, Holding
        <4>4. ASSUME NEW s \in Reapers,
                     \/ ListStaleClaims(s) \/ Interrupt(s) \/ ListAgedAsks(s) \/ Expire(s)
                     \/ NextSweep(s) \/ SweepCutShort(s)
              PROVE  Interrupt(s) \/ Expire(s)
          BY <3>2, <4>4 DEF ListStaleClaims, ListAgedAsks, NextSweep, SweepCutShort
        <4>5. ASSUME NEW s \in Reapers, Interrupt(s)
              PROVE  Claimed /\ proposal' = [proposal EXCEPT !.resolvedAt = TRUE, !.outcome = "interrupted"]
          BY <3>2, <4>5 DEF Interrupt, InterruptedRow
        <4>6. ASSUME NEW s \in Reapers, Expire(s)
              PROVE  proposal'.status \in {"open", "declined", "expired"}
          BY <1>2, <3>2, <4>6 DEF Expire, Closed, ProposalRow
        <4>7. ~AskAges /\ ~WatchChanges /\ ~UNCHANGED proposalVars
          BY <3>2 DEF AskAges, WatchChanges, proposalVars
        <4> QED BY <2>4, <4>1, <4>2, <4>3, <4>4, <4>5, <4>6, <4>7 DEF ProposalNext, ProposalOutcomes
      <3> QED BY <1>2, <1>3, <3>1, <3>2 DEF Claimed, ProposalRow
    <2> QED BY <2>1, <2>2, <2>3, <2>4
  <1>4. ASSUME proposal'.outcome = "interrupted" PROVE Gone'
    <2>1. CASE proposal.outcome = "interrupted" \/ \E s \in Reapers : Interrupt(s)
      BY <1>1, <2>1 DEF StaleInv, Interrupt
    <2>2. ASSUME proposal.outcome # "interrupted", ~\E s \in Reapers : Interrupt(s) PROVE FALSE
      <3>1. ASSUME NEW c \in Clicks, ReadProposal(c) \/ ClickStep(c) PROVE FALSE
        <4>1. CASE releaseAthenaProposal(c) \/ claimAthenaProposal(c)
          BY <1>2, <1>4, <2>2, <4>1 DEF releaseAthenaProposal, claimAthenaProposal, ClaimedRow, ProposalRow
        <4>2. CASE WriteDecline(c) \/ WriteStamp(c)
          BY <1>2, <1>4, <2>2, <4>2 DEF WriteDecline, WriteStamp, Closed, ProposalRow
        <4> QED BY <1>4, <2>2, <3>1, <4>1, <4>2 DEF ReadProposal, ClickStep, CheckAccept, LookOpen,
                  ActionReturns, ActionThrows, LookUnstamped, ClickDies
      <3>2. ASSUME NEW s \in Reapers,
                   \/ ListStaleClaims(s) \/ ListAgedAsks(s) \/ Expire(s) \/ NextSweep(s) \/ SweepCutShort(s)
            PROVE  FALSE
        BY <1>2, <1>4, <2>2, <3>2 DEF ListStaleClaims, ListAgedAsks, Expire,
                                      NextSweep, SweepCutShort, Closed, ProposalRow
      <3>3. ~ClaimAges /\ ~AskAges /\ ~WatchChanges /\ ~UNCHANGED proposalVars
        BY <1>2, <1>4, <2>2 DEF ClaimAges, AskAges, WatchChanges, proposalVars, ProposalRow
      <3> QED BY <2>2, <3>1, <3>2, <3>3 DEF ProposalNext
    <2> QED BY <2>1, <2>2
  <1>5. ASSUME NEW s \in Reapers, reaper'[s] = "interrupting" PROVE Gone'
    <2>1. CASE reaper[s] = "interrupting"
      BY <1>1, <2>1 DEF StaleInv
    <2>2. CASE ListStaleClaims(s) /\ StaleClaim
      BY <1>1, <2>2 DEF StaleInv, StaleClaim, Claimed
    <2>3. ASSUME ~(ListStaleClaims(s) /\ StaleClaim) PROVE reaper[s] = "interrupting"
      <3>1. ASSUME NEW t \in Reapers, NEW phase \in ReaperPhases \ {"interrupting"}, ReaperGoes(t, phase)
            PROVE  reaper[s] = "interrupting"
        BY <1>2, <1>5, <3>1 DEF ReaperGoes
      <3>2. ASSUME NEW t \in Reapers, ListStaleClaims(t) PROVE reaper[s] = "interrupting"
        BY <1>2, <1>5, <2>3, <3>2 DEF ListStaleClaims, ReaperGoes
      <3>3. ASSUME NEW t \in Reapers,
                   \/ Interrupt(t) \/ ListAgedAsks(t) \/ Expire(t) \/ NextSweep(t) \/ SweepCutShort(t)
            PROVE  reaper[s] = "interrupting"
        BY <3>1, <3>3 DEF Interrupt, ListAgedAsks, Expire, NextSweep, SweepCutShort, ReaperPhases
      <3>4. ASSUME NEW c \in Clicks, ReadProposal(c) \/ ClickStep(c) PROVE reaper' = reaper
        BY <3>4 DEF ReadProposal, ClickStep, CheckAccept, LookOpen, WriteDecline, claimAthenaProposal,
             ActionReturns, ActionThrows, releaseAthenaProposal, LookUnstamped, WriteStamp, ClickDies
      <3>5. CASE ClaimAges \/ AskAges \/ WatchChanges \/ UNCHANGED proposalVars
        BY <1>5, <3>5 DEF ClaimAges, AskAges, WatchChanges, proposalVars
      <3> QED BY <1>5, <3>2, <3>3, <3>4, <3>5 DEF ProposalNext
    <2> QED BY <2>1, <2>2, <2>3
  <1> QED BY <1>3, <1>4, <1>5 DEF StaleInv
-----------------------------------------------------------------------------
(* What follows with the cap.                                                *)

\* The second invariant: with the cap, whose claim is stale, interrupted or listed is gone.
THEOREM StaleInvHolds == Capped /\ ProposalSpec => []StaleInv
  <1>1. CASE Capped
    <2>1. ProposalInv /\ StaleInv /\ [ProposalNext]_proposalVars => StaleInv'
      BY <1>1, StaleStep
    <2> QED BY <2>1, StaleInit, ProposalInvHolds, PTL DEF ProposalSpec
  <1>2. CASE ~Capped
    BY <1>2, PTL
  <1> QED BY <1>1, <1>2

\* With the cap, a sweep that decides on an age it read earlier closes no claim under a request that
\* is still going to stamp it.
THEOREM OnlyTheDeadAreInterrupted == Capped /\ ProposalSpec => []InterruptsOnlyTheDead
  <1>1. ASSUME ProposalInv, StaleInv PROVE InterruptsOnlyTheDead
    <2>1. ASSUME proposal.outcome = "interrupted", NEW c \in effect PROVE click[c] \notin LiveClick
      <3>1. c \in Clicks /\ ClaimOK(c) /\ Gone
        BY <1>1, <2>1 DEF ProposalInv, ProposalTypeOK, StaleInv
      <3> QED BY <2>1, <3>1 DEF ClaimOK, Ran, Gone, Holding, LiveClick
    <2> QED BY <2>1 DEF InterruptsOnlyTheDead
  <1> QED BY <1>1, ProposalInvHolds, StaleInvHolds, PTL

\* A row starts as the table starts.
LEMMA TableInit ==
    ProposalInit => Table!Init
  BY DEF ProposalInit, Table!Init, lifecycleOf, OpenRow

\* A row that is closed, and one that is claimed, where the table says they go.
LEMMA TableStep ==
    ASSUME Capped, ProposalInv, StaleInv, [ProposalNext]_proposalVars
    PROVE  [Table!Next]_(lifecycleOf(proposal))
  <1> DEFINE old == lifecycleOf(proposal)
             new == lifecycleOf(proposal')
  <1>0. lifecycleOf(proposal)' = new
    BY DEF lifecycleOf
  <1>1. proposal \in ProposalRow /\ click \in [Clicks -> ClickPhases]
    BY DEF ProposalInv, ProposalTypeOK
  <1>2. ASSUME NEW event \in {"accept", "decline", "stamp", "release", "expire", "interrupt"},
               <<old, event, new>> \in Table!EDGES
        PROVE  Table!Next
    BY <1>0, <1>2 DEF Table!Next, Table!Take, Table!EDGES, Table!Lifecycles
  <1>3. CASE proposal' = proposal
    BY <1>0, <1>3
  <1>4. ASSUME Unanswered, NEW by, proposal' = Closed(proposal, "declined", by, "declined")
        PROVE  Table!Next
    <2>1. old = "open" /\ new = "declined"
      BY <1>1, <1>4 DEF Unanswered, Closed, lifecycleOf, ProposalRow
    <2> HIDE DEF old, new
    <2> QED BY <1>2, <2>1 DEF Table!EDGES
  <1>5. ASSUME Unanswered, NEW by, proposal' = Closed(proposal, "expired", by, "expired")
        PROVE  Table!Next
    <2>1. old = "open" /\ new = "expired"
      BY <1>1, <1>5 DEF Unanswered, Closed, lifecycleOf, ProposalRow
    <2> HIDE DEF old, new
    <2> QED BY <1>2, <2>1 DEF Table!EDGES
  <1>6. ASSUME Claimed, NEW outcome,
               proposal' = [proposal EXCEPT !.resolvedAt = TRUE, !.outcome = outcome]
        PROVE  Table!Next
    <2>1. old \in {"claimed", "claimed_stale"} /\ new = "accepted"
      BY <1>1, <1>6 DEF Claimed, lifecycleOf, ProposalRow
    <2> HIDE DEF old, new
    <2> QED BY <1>2, <2>1 DEF Table!EDGES
  <1>7. ASSUME Unanswered, NEW c \in Clicks, proposal' = ClaimedRow(c)
        PROVE  Table!Next
    <2>1. old = "open" /\ new = "claimed"
      BY <1>1, <1>7 DEF Unanswered, ClaimedRow, lifecycleOf, ProposalInv, RowOK, ProposalRow
    <2> HIDE DEF old, new
    <2> QED BY <1>2, <2>1 DEF Table!EDGES
  <1>8. ASSUME Claimed, NEW c \in Clicks, click[c] = "releasing",
               proposal' = [proposal EXCEPT !.status = "open", !.claimant = NoClick]
        PROVE  Table!Next
    <2>1. ClaimOK(c)
      BY DEF ProposalInv
    <2>2. proposal.claimedAt = "recent"
      BY <1>8, <2>1 DEF StaleInv, Gone, ClaimOK, Ran, Holding
    <2>3. old = "claimed" /\ new = "open"
      BY <1>1, <1>8, <2>2 DEF Claimed, lifecycleOf, ProposalRow
    <2> HIDE DEF old, new
    <2> QED BY <1>2, <2>3 DEF Table!EDGES
  <1>9. CASE ClaimAges
    <2>1. \/ old = new
          \/ old = "claimed" /\ new = "claimed_stale"
      BY <1>1, <1>9 DEF ClaimAges, lifecycleOf, ProposalRow
    <2> QED BY <1>0, <2>1 DEF Table!Next, Table!Age
  <1>10. ASSUME NEW c \in Clicks, ReadProposal(c) \/ ClickStep(c), proposal' # proposal
         PROVE  Table!Next
    <2>1. CASE WriteDecline(c)
      BY <1>4, <1>10, <2>1 DEF WriteDecline
    <2>2. CASE claimAthenaProposal(c)
      BY <1>7, <1>10, <2>2 DEF claimAthenaProposal
    <2>3. CASE releaseAthenaProposal(c)
      BY <1>8, <1>10, <2>3 DEF releaseAthenaProposal
    <2>4. CASE WriteStamp(c)
      <3>1. Claimed
        BY <1>10, <2>4 DEF WriteStamp, Claimed, ProposalInv, ClaimOK, Ran, Holding
      <3> QED BY <1>6, <1>10, <2>4, <3>1 DEF WriteStamp
    <2> QED BY <1>10, <2>1, <2>2, <2>3, <2>4 DEF ReadProposal, ClickStep, CheckAccept, LookOpen,
              ActionReturns, ActionThrows, LookUnstamped, ClickDies
  <1>11. ASSUME NEW s \in Reapers, proposal' # proposal,
                \/ ListStaleClaims(s) \/ Interrupt(s) \/ ListAgedAsks(s) \/ Expire(s)
                \/ NextSweep(s) \/ SweepCutShort(s)
         PROVE  Table!Next
    <2>1. CASE Interrupt(s)
      BY <1>6, <1>11, <2>1 DEF Interrupt, InterruptedRow
    <2>2. CASE Expire(s)
      BY <1>5, <1>11, <2>2 DEF Expire
    <2> QED BY <1>11, <2>1, <2>2 DEF ListStaleClaims, ListAgedAsks, NextSweep, SweepCutShort
  <1>12. CASE AskAges \/ WatchChanges \/ UNCHANGED proposalVars
    BY <1>3, <1>12 DEF AskAges, WatchChanges, proposalVars
  <1> HIDE DEF old, new
  <1> QED BY <1>3, <1>9, <1>10, <1>11, <1>12 DEF ProposalNext

\* With the cap, the guarded writes implement the lifecycle table: no claim that is stale is ever
\* released, although the release does not look at its age.
THEOREM WritesFollowEDGES == Capped /\ ProposalSpec => FollowsEDGES
  <1>1. CASE Capped
    <2>1. ProposalInv /\ StaleInv /\ [ProposalNext]_proposalVars => [Table!Next]_(lifecycleOf(proposal))
      BY <1>1, TableStep
    <2> QED BY <1>1, <2>1, TableInit, ProposalInvHolds, StaleInvHolds, PTL DEF ProposalSpec, FollowsEDGES, Table!Spec
  <1>2. CASE ~Capped
    BY <1>2, PTL
  <1> QED BY <1>1, <1>2

-----------------------------------------------------------------------------
(* A shared scan.                                                            *)

Watchers(e) == {v \in Visits : Watching(v, e)}

\* The mapped run is under way and not aborted, and a run that is not aborted is the mapped one
\* until it settles.
MapOK ==
    /\ inflight # NoRun => run[inflight].phase \in {"live", "settled"} /\ ~run[inflight].aborted
    /\ \A e \in Runs : run[e].phase = "live" /\ ~run[e].aborted => inflight = e

\* The count of a run is that of its watchers, and may be behind when the run is over; an aborted
\* run has none.
RunOK(e) ==
    /\ run[e].waiters >= Cardinality(Watchers(e))
    /\ run[e].phase # "over" => run[e].waiters = Cardinality(Watchers(e))
    /\ run[e].aborted => Watchers(e) = {}
    /\ run[e].phase = "unborn" => run[e].outcome = "none" /\ ~run[e].aborted
    /\ run[e].phase \in {"settled", "over"} => run[e].outcome # "none"

\* A visit waits for a run that was started and holds its slot; when it has ended the run is over.
VisitOK(v) ==
    /\ visit[v].phase \in {"idle", "coalescing"} => visit[v].of = NoRun /\ ~visit[v].joined
    /\ visit[v].phase \in {"coalescing", "waiting"} => visit[v].slot = "held"
    /\ visit[v].phase = "waiting" => visit[v].of # NoRun /\ run[visit[v].of].phase # "unborn"
    /\ visit[v].phase \in {"done", "broken"} =>
        IF visit[v].of = NoRun
        THEN visit[v].slot # "held"
        ELSE /\ run[visit[v].of].phase = "over"
             /\ visit[v].slot = "held" => ~visit[v].joined /\ run[visit[v].of].outcome = "report"
             /\ visit[v].phase = "done" /\ ~visit[v].joined /\ run[visit[v].of].outcome = "report"
                    => visit[v].slot = "held"

CoalesceInv ==
    /\ CoalesceTypeOK
    /\ MapOK
    /\ \A e \in Runs : RunOK(e)
    /\ \A v \in Visits : VisitOK(v)

-----------------------------------------------------------------------------
(* Counting.                                                                 *)

LEMMA WatchersFinite ==
    ASSUME NEW e
    PROVE  IsFiniteSet(Watchers(e)) /\ Cardinality(Watchers(e)) \in Nat
  <1>1. Watchers(e) \subseteq Visits /\ IsFiniteSet(Visits)
    BY CoalesceAssumption DEF Watchers
  <1> QED BY <1>1, FS_Subset, FS_CardinalityType

LEMMA NoWatchers ==
    ASSUME NEW e, Cardinality(Watchers(e)) = 0
    PROVE  Watchers(e) = {}
  BY WatchersFinite, FS_EmptySet

LEMMA RunsAreNumbers == NoRun \notin Runs /\ Runs \subseteq Nat
  BY DEF Runs, NoRun

LEMMA CoalesceInitInv ==
    CoalesceInit => CoalesceInv
  <1> SUFFICES ASSUME CoalesceInit PROVE CoalesceInv
    OBVIOUS
  <1>1. Unborn \in RunState /\ Unvisited \in VisitState
    BY DEF Unborn, RunState, RunOutcomes, Unvisited, VisitState, VisitPhases
  <1>2. CoalesceTypeOK
    BY <1>1 DEF CoalesceInit, CoalesceTypeOK
  <1>3. MapOK
    BY DEF CoalesceInit, MapOK, Unborn
  <1>4. ASSUME NEW e \in Runs PROVE RunOK(e)
    <2>1. Watchers(e) = {}
      BY DEF CoalesceInit, Watchers, Watching, Unvisited
    <2>2. Cardinality(Watchers(e)) = 0
      BY <2>1, FS_EmptySet
    <2> QED BY <2>1, <2>2 DEF RunOK, CoalesceInit, Unborn
  <1>5. ASSUME NEW v \in Visits PROVE VisitOK(v)
    BY DEF VisitOK, CoalesceInit, Unvisited
  <1> QED BY <1>2, <1>3, <1>4, <1>5 DEF CoalesceInv
-----------------------------------------------------------------------------
(* Steps of a visit.                                                         *)

LEMMA ArriveInv ==
    ASSUME CoalesceInv, NEW v \in Visits, Arrive(v)
    PROVE  CoalesceInv'
  <1>1. /\ visit \in [Visits -> VisitState] /\ visit[v].phase = "idle" /\ VisitOK(v)
        /\ inflight' = inflight /\ run' = run
    BY DEF CoalesceInv, CoalesceTypeOK, Arrive
  <1>2. PICK x \in {[visit[v] EXCEPT !.phase = "coalescing", !.slot = "held"]}
                    \cup {[visit[v] EXCEPT !.phase = "done", !.slot = s] : s \in {"none"} \cup GivenBack} :
            visit' = [visit EXCEPT ![v] = x]
    BY <1>1 DEF Arrive
  <1>3. /\ x \in VisitState /\ x.of = NoRun /\ ~x.joined
        /\ \/ x.phase = "coalescing" /\ x.slot = "held"
           \/ x.phase = "done" /\ x.slot # "held"
    BY <1>1, <1>2 DEF VisitState, VisitPhases, VisitOK, GivenBack
  <1>4. CoalesceTypeOK' /\ MapOK'
    BY <1>1, <1>2, <1>3 DEF CoalesceInv, CoalesceTypeOK, MapOK
  <1>5. ASSUME NEW e \in Runs PROVE RunOK(e)'
    <2>1. Watchers(e)' = Watchers(e)
      BY <1>1, <1>2, <1>3 DEF Watchers, Watching
    <2> QED BY <1>1, <2>1 DEF CoalesceInv, RunOK
  <1>6. ASSUME NEW w \in Visits PROVE VisitOK(w)'
    BY <1>1, <1>2, <1>3 DEF CoalesceInv, VisitOK
  <1> QED BY <1>4, <1>5, <1>6 DEF CoalesceInv

LEMMA JoinInv ==
    ASSUME CoalesceInv, NEW v \in Visits, Coalesce(v)
    PROVE  CoalesceInv'
  <1>1. PICK e \in Runs :
          /\ e = inflight \/ (inflight = NoRun /\ run[e].phase = "unborn")
          /\ inflight' = e
          /\ run' = [run EXCEPT ![e] = Entered(e, visit[v].gone)]
          /\ visit' = [visit EXCEPT ![v].phase = "waiting", ![v].of = e, ![v].joined = (e = inflight)]
    BY DEF Coalesce
  <1>2. /\ visit \in [Visits -> VisitState] /\ run \in [Runs -> RunState] /\ inflight \in Runs \cup {NoRun}
        /\ visit[v].phase = "coalescing" /\ VisitOK(v) /\ RunOK(e)
    BY DEF CoalesceInv, CoalesceTypeOK, Coalesce
  <1> DEFINE x == Entered(e, visit[v].gone)
             y == [visit[v] EXCEPT !.phase = "waiting", !.of = e, !.joined = (e = inflight)]
  <1>3. /\ x.phase = (IF run[e].phase = "unborn" THEN "live" ELSE run[e].phase)
        /\ x.waiters = (IF visit[v].gone THEN run[e].waiters ELSE run[e].waiters + 1)
        /\ x.outcome = run[e].outcome /\ x.aborted = run[e].aborted
        /\ x \in RunState
    <2>1. run[e] \in RunState /\ visit[v].gone \in BOOLEAN
      BY <1>2 DEF VisitState
    <2>2. /\ x.phase = (IF run[e].phase = "unborn" THEN "live" ELSE run[e].phase)
          /\ x.waiters = (IF visit[v].gone THEN run[e].waiters ELSE run[e].waiters + 1)
          /\ x.outcome = run[e].outcome /\ x.aborted = run[e].aborted
          /\ x.lingers = (visit[v].gone /\ run[e].waiters = 0)
      BY <2>1 DEF Entered, Watched, RunState
    <2>3. x = [run[e] EXCEPT !.phase = x.phase, !.waiters = x.waiters, !.lingers = x.lingers]
      BY <2>1 DEF Entered, Watched, RunState
    <2>4. run[e].phase \in {"unborn", "live", "settled", "over"} /\ run[e].waiters \in Nat
      BY <2>1 DEF RunState
    <2>5. x.phase \in {"unborn", "live", "settled", "over"} /\ x.waiters \in Nat /\ x.lingers \in BOOLEAN
      BY <2>2, <2>4
    <2> HIDE DEF x
    <2>6. x \in RunState
      BY <2>1, <2>3, <2>5 DEF RunState
    <2> QED BY <2>2, <2>6
  <1>4. visit' = [visit EXCEPT ![v] = y] /\ y \in VisitState
        /\ y.phase = "waiting" /\ y.of = e /\ y.gone = visit[v].gone /\ y.slot = "held"
    BY <1>1, <1>2 DEF VisitState, VisitPhases, VisitOK
  <1>5. run[e].phase \in {"unborn", "live", "settled"} /\ ~run[e].aborted
    BY <1>1, <1>2, RunsAreNumbers DEF CoalesceInv, MapOK, RunOK
  <1> HIDE DEF x, y
  <1>6. run' = [run EXCEPT ![e] = x]
    BY <1>1 DEF x
  <1>7. CoalesceTypeOK'
    <2>1. run' \in [Runs -> RunState] /\ visit' \in [Visits -> VisitState] /\ inflight' \in Runs
      <3>1. inflight' \in Runs
        BY <1>1
      <3>2. run' \in [Runs -> RunState]
        BY <1>2, <1>3, <1>6
      <3>3. visit' \in [Visits -> VisitState]
        BY <1>2, <1>4
      <3> QED BY <3>1, <3>2, <3>3
    <2> QED BY <2>1 DEF CoalesceTypeOK
  <1>8. MapOK'
    <2>1. run'[e].phase \in {"live", "settled"} /\ ~run'[e].aborted
      BY <1>2, <1>3, <1>5, <1>6
    <2>2. ASSUME NEW f \in Runs, f # e, run'[f].phase = "live", ~run'[f].aborted PROVE FALSE
      BY <1>1, <1>2, <1>6, <2>2, RunsAreNumbers DEF CoalesceInv, MapOK
    <2> QED BY <1>1, <2>1, <2>2 DEF MapOK
  <1>9. ASSUME NEW f \in Runs PROVE RunOK(f)'
    <2>1. CASE f # e
      <3>1. Watchers(f)' = Watchers(f)
        BY <1>2, <1>4, <2>1, RunsAreNumbers DEF Watchers, Watching
      <3>2. run'[f] = run[f]
        BY <1>2, <1>6, <2>1
      <3> QED BY <3>1, <3>2 DEF CoalesceInv, RunOK
    <2>2. CASE f = e
      <3>1. run'[f] = x
        BY <1>2, <1>6, <2>2
      <3>2. run[e].waiters = Cardinality(Watchers(e))
        BY <1>2, <1>5 DEF RunOK
      <3>3. x.waiters = Cardinality(Watchers(f)')
        <4>1. CASE visit[v].gone
          <5>1. Watchers(f)' = Watchers(f)
            BY <1>2, <1>4, <2>2, <4>1 DEF Watchers, Watching
          <5> QED BY <1>3, <2>2, <3>2, <4>1, <5>1
        <4>2. CASE ~visit[v].gone
          <5>1. Watchers(f)' = Watchers(f) \cup {v} /\ v \notin Watchers(f)
            BY <1>2, <1>4, <2>2, <4>2 DEF Watchers, Watching
          <5>2. Cardinality(Watchers(f) \cup {v}) = Cardinality(Watchers(f)) + 1
            BY <5>1, WatchersFinite, FS_AddElement
          <5> QED BY <1>3, <2>2, <3>2, <4>2, <5>1, <5>2
        <4> QED BY <4>1, <4>2
      <3>4. /\ x.phase \in {"live", "settled"} /\ ~x.aborted
            /\ x.phase = "settled" => x.outcome # "none"
        BY <1>2, <1>3, <1>5 DEF RunOK
      <3>5. x.waiters \in Nat
        BY <1>3 DEF RunState
      <3> QED BY <3>1, <3>3, <3>4, <3>5 DEF RunOK
    <2> QED BY <2>1, <2>2
  <1>10. ASSUME NEW w \in Visits PROVE VisitOK(w)'
    <2>1. CASE w = v
      <3>1. visit'[w] = y /\ run'[e].phase # "unborn"
        BY <1>2, <1>3, <1>4, <1>6, <2>1
      <3> QED BY <1>4, <3>1, RunsAreNumbers DEF VisitOK
    <2>2. CASE w # v
      <3>1. visit'[w] = visit[w] /\ VisitOK(w)
        BY <1>2, <1>4, <2>2 DEF CoalesceInv
      <3>2. visit[w].of \in Runs \cup {NoRun}
        BY <1>2 DEF VisitState
      <3>3. \A f \in Runs : /\ run'[f].phase # "unborn" \/ run[f].phase = "unborn"
                            /\ run[f].phase = "over" => run'[f] = run[f]
        BY <1>2, <1>3, <1>5, <1>6
      <3> QED BY <3>1, <3>2, <3>3 DEF VisitOK
    <2> QED BY <2>1, <2>2
  <1> QED BY <1>7, <1>8, <1>9, <1>10 DEF CoalesceInv

LEMMA DisconnectInv ==
    ASSUME CoalesceInv, NEW v \in Visits, Disconnect(v)
    PROVE  CoalesceInv'
  <1>0. PICK e : e = visit[v].of
    OBVIOUS
  <1>1. /\ visit \in [Visits -> VisitState] /\ run \in [Runs -> RunState]
        /\ ~visit[v].gone /\ visit[v].phase \in {"coalescing", "waiting"} /\ VisitOK(v)
        /\ visit' = [visit EXCEPT ![v].gone = TRUE] /\ inflight' = inflight
        /\ run' = IF e = NoRun THEN run ELSE [run EXCEPT ![e] = Released(e)]
    BY <1>0 DEF CoalesceInv, CoalesceTypeOK, Disconnect
  <1>2. e \in Runs \cup {NoRun}
    BY <1>0, <1>1 DEF VisitState
  <1>3. visit' \in [Visits -> VisitState]
    BY <1>1 DEF VisitState
  <1>4. \A w \in Visits : /\ visit'[w].phase = visit[w].phase /\ visit'[w].of = visit[w].of
                          /\ visit'[w].slot = visit[w].slot /\ visit'[w].joined = visit[w].joined
                          /\ visit'[w].gone = IF w = v THEN TRUE ELSE visit[w].gone
    BY <1>1 DEF VisitState
  <1>5. CASE e = NoRun
    <2>1. CoalesceTypeOK' /\ MapOK'
      BY <1>1, <1>3, <1>5 DEF CoalesceInv, CoalesceTypeOK, MapOK
    <2>2. ASSUME NEW f \in Runs PROVE RunOK(f)'
      <3>1. Watchers(f)' = Watchers(f)
        <4>1. f # NoRun
          BY RunsAreNumbers
        <4>2. \A w \in Visits : Watching(w, f)' <=> Watching(w, f)
          BY <1>0, <1>4, <1>5, <4>1 DEF Watching
        <4> QED BY <4>2 DEF Watchers
      <3> QED BY <1>1, <1>5, <3>1 DEF CoalesceInv, RunOK
    <2>3. ASSUME NEW w \in Visits PROVE VisitOK(w)'
      BY <1>1, <1>4, <1>5 DEF CoalesceInv, VisitOK
    <2> QED BY <2>1, <2>2, <2>3 DEF CoalesceInv
  <1>6. CASE e # NoRun
    <2>1. e \in Runs /\ visit[v].phase = "waiting" /\ RunOK(e) /\ run[e] \in RunState
      BY <1>0, <1>1, <1>2, <1>6 DEF VisitOK, CoalesceInv
    <2>2. Watchers(e)' = Watchers(e) \ {v} /\ v \in Watchers(e)
      BY <1>0, <1>1, <1>4, <2>1 DEF Watchers, Watching
    <2>3. Cardinality(Watchers(e) \ {v}) = Cardinality(Watchers(e)) - 1
      BY <2>2, WatchersFinite, FS_RemoveElement
    <2>4. Cardinality(Watchers(e) \ {v}) \in Nat
      BY WatchersFinite, FS_RemoveElement, FS_CardinalityType
    <2>5. /\ Released(e).waiters = run[e].waiters - 1 /\ Released(e).phase = run[e].phase
          /\ Released(e).outcome = run[e].outcome /\ Released(e).aborted = run[e].aborted
      BY <2>1 DEF Released, RunState
    <2>6. run[e].waiters - 1 \in Nat
      BY <2>1, <2>3, <2>4, WatchersFinite DEF RunOK, RunState
    <2>7. Released(e) \in RunState
      BY <2>1, <2>6 DEF Released, RunState
    <2>8. run' = [run EXCEPT ![e] = Released(e)]
      BY <1>1, <1>6
    <2>9. CoalesceTypeOK'
      BY <1>1, <1>3, <2>1, <2>7, <2>8 DEF CoalesceInv, CoalesceTypeOK
    <2>10. \A f \in Runs : /\ run'[f].phase = run[f].phase /\ run'[f].outcome = run[f].outcome
                           /\ run'[f].aborted = run[f].aborted
                           /\ run'[f].waiters = IF f = e THEN run[e].waiters - 1 ELSE run[f].waiters
      BY <1>1, <2>5, <2>8
    <2>11. MapOK'
      BY <1>1, <2>10 DEF CoalesceInv, CoalesceTypeOK, MapOK
    <2>12. ASSUME NEW f \in Runs PROVE RunOK(f)'
      <3>1. CASE f = e
        <4>1. Cardinality(Watchers(f)') = Cardinality(Watchers(f)) - 1 /\ Cardinality(Watchers(f)) \in Nat
          BY <2>2, <2>3, <3>1, WatchersFinite
        <4>2. Watchers(f)' \subseteq Watchers(f)
          BY <2>2, <3>1
        <4>3. run[f].waiters \in Nat
          BY <1>1 DEF RunState
        <4> QED BY <2>1, <2>10, <3>1, <4>1, <4>2, <4>3 DEF RunOK
      <3>2. CASE f # e
        <4>1. Watchers(f)' = Watchers(f)
          BY <1>0, <1>4, <3>2 DEF Watchers, Watching
        <4> QED BY <2>10, <3>2, <4>1 DEF CoalesceInv, RunOK
      <3> QED BY <3>1, <3>2
    <2>13. ASSUME NEW w \in Visits PROVE VisitOK(w)'
      <3>1. visit[w].of \in Runs \cup {NoRun} /\ VisitOK(w)
        BY <1>1 DEF VisitState, CoalesceInv
      <3>2. CASE visit[w].of = NoRun
        BY <1>4, <3>1, <3>2 DEF VisitOK
      <3>3. CASE visit[w].of \in Runs
        <4>1. PICK f \in Runs : f = visit[w].of
          BY <3>3
        <4>2. f # NoRun /\ run'[f].phase = run[f].phase /\ run'[f].outcome = run[f].outcome
          BY <2>10, RunsAreNumbers
        <4> QED BY <1>4, <3>1, <4>1, <4>2 DEF VisitOK
      <3> QED BY <3>1, <3>2, <3>3
    <2> QED BY <2>9, <2>11, <2>12, <2>13 DEF CoalesceInv
  <1> QED BY <1>5, <1>6
LEMMA WakeInv ==
    ASSUME CoalesceInv, NEW v \in Visits, Wake(v)
    PROVE  CoalesceInv'
  <1>0. PICK e : e = visit[v].of
    OBVIOUS
  <1>1. /\ visit \in [Visits -> VisitState] /\ visit[v].phase = "waiting" /\ VisitOK(v)
        /\ inflight' = inflight /\ run' = run /\ run[e].phase = "over"
    BY <1>0 DEF CoalesceInv, CoalesceTypeOK, Wake
  <1>10. PICK end \in {"done", "broken"}, slot \in {"held"} \cup GivenBack :
            /\ visit' = [visit EXCEPT ![v].phase = end, ![v].gone = FALSE, ![v].slot = slot]
            /\ slot = "held" => ~Returns(v)
            /\ end = "done" /\ ~Returns(v) => slot = "held"
    BY DEF Wake, VisitEnds, GivenBack
  <1>2. e \in Runs /\ visit[v].slot = "held" /\ RunOK(e)
    BY <1>0, <1>1 DEF VisitState, VisitOK, CoalesceInv
  <1> DEFINE x == [visit[v] EXCEPT !.phase = end, !.gone = FALSE, !.slot = slot]
  <1>3. visit' = [visit EXCEPT ![v] = x]
    BY <1>1, <1>10 DEF VisitState
  <1>4. /\ x \in VisitState /\ x.phase = end /\ x.of = e /\ ~x.gone /\ x.slot = slot
        /\ x.joined = visit[v].joined
    <2>1. slot \in {"held", "returned", "lost"}
      BY <1>10 DEF GivenBack
    <2> QED BY <1>0, <1>1, <2>1 DEF VisitState, VisitPhases
  <1>5. /\ slot = "held" => ~x.joined /\ run[e].outcome = "report"
        /\ end = "done" /\ ~x.joined /\ run[e].outcome = "report" => slot = "held"
    <2>1. run[e].outcome \in {"report", "degraded", "failed"}
      BY <1>1, <1>2 DEF CoalesceInv, CoalesceTypeOK, RunState, RunOutcomes, RunOK
    <2> QED BY <1>0, <1>4, <1>10, <2>1 DEF Returns
  <1> HIDE DEF x
  <1>6. CoalesceTypeOK'
    BY <1>1, <1>3, <1>4 DEF CoalesceInv, CoalesceTypeOK
  <1>7. MapOK'
    BY <1>1 DEF CoalesceInv, MapOK
  <1>8. ASSUME NEW f \in Runs PROVE RunOK(f)'
    <2>1. CASE f = e
      <3>1. Watchers(f)' \subseteq Watchers(f)
        BY <1>1, <1>3, <1>4 DEF Watchers, Watching
      <3>2. Cardinality(Watchers(f)') <= Cardinality(Watchers(f)) /\ Cardinality(Watchers(f)') \in Nat
            /\ Cardinality(Watchers(f)) \in Nat
        BY <3>1, WatchersFinite, FS_Subset, FS_CardinalityType
      <3>3. run'[f].waiters >= Cardinality(Watchers(f)')
        BY <1>1, <1>2, <2>1, <3>2 DEF CoalesceInv, CoalesceTypeOK, RunState, RunOK
      <3> QED BY <1>1, <1>2, <2>1, <3>1, <3>3 DEF RunOK
    <2>2. CASE f # e
      <3>1. Watchers(f)' = Watchers(f)
        BY <1>0, <1>1, <1>3, <1>4, <2>2 DEF Watchers, Watching
      <3> QED BY <1>1, <3>1 DEF CoalesceInv, RunOK
    <2> QED BY <2>1, <2>2
  <1>9. ASSUME NEW w \in Visits PROVE VisitOK(w)'
    <2>1. CASE w = v
      <3>1. visit'[w] = x /\ e # NoRun
        BY <1>1, <1>2, <1>3, <2>1, RunsAreNumbers
      <3> QED BY <1>1, <1>4, <1>5, <3>1 DEF VisitOK
    <2>2. CASE w # v
      BY <1>1, <1>3, <2>2 DEF CoalesceInv, VisitOK
    <2> QED BY <2>1, <2>2
  <1> QED BY <1>6, <1>7, <1>8, <1>9 DEF CoalesceInv

-----------------------------------------------------------------------------
(* Steps of a run.                                                           *)

\* A step of a run that leaves its count, and may end it or abort it while nobody watches.
LEMMA RunStepInv ==
    ASSUME CoalesceInv, NEW e \in Runs, NEW x \in RunState, run' = [run EXCEPT ![e] = x],
           UNCHANGED visit, inflight' \in Runs \cup {NoRun}, MapOK',
           x.waiters = run[e].waiters,
           x.aborted => run[e].aborted \/ run[e].waiters = 0,
           run[e].phase # "unborn", x.phase # "unborn",
           run[e].phase = "over" => x.phase = "over" /\ x.outcome = run[e].outcome,
           x.phase \in {"settled", "over"} => x.outcome # "none"
    PROVE  CoalesceInv'
  <1>1. /\ run \in [Runs -> RunState] /\ visit \in [Visits -> VisitState] /\ visit' = visit
        /\ \A f \in Runs : run'[f] = IF f = e THEN x ELSE run[f]
    BY DEF CoalesceInv, CoalesceTypeOK
  <1>2. CoalesceTypeOK'
    BY <1>1 DEF CoalesceTypeOK
  <1>3. ASSUME NEW f \in Runs PROVE RunOK(f)'
    <2>1. Watchers(f)' = Watchers(f) /\ RunOK(f)
      BY <1>1 DEF Watchers, Watching, CoalesceInv
    <2>2. CASE f # e
      BY <1>1, <2>1, <2>2 DEF RunOK
    <2>3. CASE f = e
      <3>1. run[e].waiters = 0 => Watchers(e) = {}
        <4>1. Cardinality(Watchers(e)) \in Nat
          BY WatchersFinite
        <4> QED BY <2>1, <2>3, <4>1, NoWatchers DEF RunOK
      <3>2. x.phase # "over" => run[e].phase # "over"
        OBVIOUS
      <3>3. x.aborted => Watchers(e) = {}
        BY <2>1, <2>3, <3>1 DEF RunOK
      <3> QED BY <1>1, <2>1, <2>3, <3>2, <3>3 DEF RunOK
    <2> QED BY <2>2, <2>3
  <1>4. ASSUME NEW w \in Visits PROVE VisitOK(w)'
    <2>1. visit[w].of \in Runs \cup {NoRun} /\ VisitOK(w)
      BY <1>1 DEF VisitState, CoalesceInv
    <2>2. CASE visit[w].of = NoRun
      BY <1>1, <2>1, <2>2 DEF VisitOK
    <2>3. CASE visit[w].of # NoRun
      <3>1. PICK f \in Runs : f = visit[w].of
        BY <2>1, <2>3
      <3>2. /\ run[f].phase # "unborn" => run'[f].phase # "unborn"
            /\ run[f].phase = "over" => run'[f].phase = "over" /\ run'[f].outcome = run[f].outcome
        BY <1>1
      <3> QED BY <1>1, <2>1, <2>3, <3>1, <3>2 DEF VisitOK
    <2> QED BY <2>2, <2>3
  <1> QED BY <1>2, <1>3, <1>4 DEF CoalesceInv

LEMMA LingerInv ==
    ASSUME CoalesceInv, NEW e \in Runs, LingerEnds(e)
    PROVE  CoalesceInv'
  <1>1. /\ run \in [Runs -> RunState] /\ RunOK(e) /\ MapOK /\ inflight \in Runs \cup {NoRun}
        /\ run[e].lingers /\ visit' = visit
    BY DEF CoalesceInv, CoalesceTypeOK, LingerEnds
  <1>2. CASE run[e].waiters > 0 \/ inflight # e
    <2>1. run' = [run EXCEPT ![e].lingers = FALSE] /\ inflight' = inflight
      BY <1>2 DEF LingerEnds
    <2>2. run' \in [Runs -> RunState]
      BY <1>1, <2>1 DEF RunState
    <2>3. \A f \in Runs : /\ run'[f].phase = run[f].phase /\ run'[f].outcome = run[f].outcome
                          /\ run'[f].aborted = run[f].aborted /\ run'[f].waiters = run[f].waiters
      BY <1>1, <2>1 DEF RunState
    <2>4. CoalesceTypeOK' /\ MapOK'
      BY <1>1, <2>1, <2>2, <2>3 DEF CoalesceInv, CoalesceTypeOK, MapOK
    <2>5. ASSUME NEW f \in Runs PROVE RunOK(f)'
      <3>1. Watchers(f)' = Watchers(f)
        BY <1>1 DEF Watchers, Watching
      <3> QED BY <2>3, <3>1 DEF CoalesceInv, RunOK
    <2>6. ASSUME NEW w \in Visits PROVE VisitOK(w)'
      <3>1. visit[w].of \in Runs \cup {NoRun} /\ VisitOK(w)
        BY DEF VisitState, CoalesceInv, CoalesceTypeOK
      <3>2. CASE visit[w].of = NoRun
        BY <1>1, <3>1, <3>2 DEF VisitOK
      <3>3. CASE visit[w].of # NoRun
        <4>1. PICK f \in Runs : f = visit[w].of
          BY <3>1, <3>3
        <4>2. run'[f].phase = run[f].phase /\ run'[f].outcome = run[f].outcome
          BY <2>3
        <4> QED BY <1>1, <3>1, <3>3, <4>1, <4>2 DEF VisitOK
      <3> QED BY <3>2, <3>3
    <2> QED BY <2>4, <2>5, <2>6 DEF CoalesceInv
  <1>3. CASE ~(run[e].waiters > 0 \/ inflight # e)
    <2> DEFINE x == [run[e] EXCEPT !.lingers = FALSE, !.aborted = TRUE]
    <2>1. run' = [run EXCEPT ![e] = x] /\ inflight' = NoRun
      BY <1>1, <1>3 DEF LingerEnds
    <2>2. /\ x \in RunState /\ x.waiters = run[e].waiters /\ x.phase = run[e].phase
          /\ x.outcome = run[e].outcome /\ x.aborted
      BY <1>1 DEF RunState
    <2>3. run[e].waiters = 0 /\ run[e].phase \in {"live", "settled"}
      BY <1>1, <1>3, RunsAreNumbers DEF MapOK, RunState
    <2> HIDE DEF x
    <2>4. MapOK'
      <3>1. \A f \in Runs : run'[f].phase = "live" /\ ~run'[f].aborted => FALSE
        BY <1>1, <1>3, <2>1, <2>2 DEF MapOK
      <3> QED BY <2>1, <3>1 DEF MapOK
    <2> QED BY <1>1, <2>1, <2>2, <2>3, <2>4, RunStepInv DEF RunOK
  <1> QED BY <1>2, <1>3

LEMMA SettleInv ==
    ASSUME CoalesceInv, NEW e \in Runs, Settle(e)
    PROVE  CoalesceInv'
  <1>1. PICK outcome \in RunOutcomes \ {"none"} :
          run' = [run EXCEPT ![e].phase = "settled", ![e].outcome = outcome]
    BY DEF Settle
  <1>2. /\ run \in [Runs -> RunState] /\ MapOK /\ inflight \in Runs \cup {NoRun}
        /\ run[e].phase = "live" /\ visit' = visit /\ inflight' = inflight
    BY DEF CoalesceInv, CoalesceTypeOK, Settle
  <1> DEFINE x == [run[e] EXCEPT !.phase = "settled", !.outcome = outcome]
  <1>3. run' = [run EXCEPT ![e] = x]
    BY <1>1, <1>2
  <1>4. /\ x \in RunState /\ x.waiters = run[e].waiters /\ x.phase = "settled"
        /\ x.outcome = outcome /\ x.aborted = run[e].aborted
    BY <1>2 DEF RunState
  <1> HIDE DEF x
  <1>5. MapOK'
    BY <1>2, <1>3, <1>4 DEF MapOK
  <1> QED BY <1>2, <1>3, <1>4, <1>5, RunStepInv

LEMMA EvictInv ==
    ASSUME CoalesceInv, NEW e \in Runs, Evict(e)
    PROVE  CoalesceInv'
  <1>1. /\ run \in [Runs -> RunState] /\ MapOK /\ RunOK(e) /\ inflight \in Runs \cup {NoRun}
        /\ run[e].phase = "settled" /\ visit' = visit
        /\ inflight' = IF inflight = e THEN NoRun ELSE inflight
    BY DEF CoalesceInv, CoalesceTypeOK, Evict, Unmapped
  <1> DEFINE x == [run[e] EXCEPT !.phase = "over", !.lingers = FALSE]
  <1>2. run' = [run EXCEPT ![e] = x]
    BY <1>1 DEF Evict
  <1>3. /\ x \in RunState /\ x.waiters = run[e].waiters /\ x.phase = "over"
        /\ x.outcome = run[e].outcome /\ x.aborted = run[e].aborted
    BY <1>1 DEF RunState
  <1> HIDE DEF x
  <1>4. MapOK'
    BY <1>1, <1>2, <1>3 DEF MapOK
  <1> QED BY <1>1, <1>2, <1>3, <1>4, RunStepInv DEF RunOK

-----------------------------------------------------------------------------
(* The theorems.                                                             *)

LEMMA CoalesceStep ==
    ASSUME CoalesceInv, [CoalesceNext]_coalesceVars
    PROVE  CoalesceInv'
  <1>1. CASE UNCHANGED coalesceVars
    <2>1. \A e \in Runs : Watchers(e)' = Watchers(e)
      BY <1>1 DEF coalesceVars, Watchers, Watching
    <2> QED BY <1>1, <2>1 DEF coalesceVars, CoalesceInv, CoalesceTypeOK, MapOK, RunOK, VisitOK
  <1> QED BY <1>1, ArriveInv, JoinInv, DisconnectInv, WakeInv, LingerInv, SettleInv, EvictInv DEF CoalesceNext

\* The inductive invariant: a run that is not aborted is the mapped one until it settles, and its
\* count is that of the visits that watch it.
THEOREM CoalesceInvHolds == CoalesceSpec => []CoalesceInv
  BY CoalesceInitInv, CoalesceStep, PTL DEF CoalesceSpec

\* Runs and visits keep their types; no count goes below zero.
THEOREM CoalesceTypeCorrect == CoalesceSpec => []CoalesceTypeOK
  <1>1. CoalesceInv => CoalesceTypeOK
    BY DEF CoalesceInv
  <1> QED BY <1>1, CoalesceInvHolds, PTL

\* For any number of visits, no run is aborted from under one that waits for it.
THEOREM WatchedRunsLive == CoalesceSpec => []WatchedRunLives
  <1>1. CoalesceInv => WatchedRunLives
    BY DEF CoalesceInv, RunOK, Watchers, WatchedRunLives
  <1> QED BY <1>1, CoalesceInvHolds, PTL

\* ... a run under way that is not aborted is the mapped one, and so alone.
THEOREM LiveRunsAreOne == CoalesceSpec => []OneLiveRun
  <1>1. CoalesceInv => OneLiveRun
    BY DEF CoalesceInv, MapOK, OneLiveRun
  <1> QED BY <1>1, CoalesceInvHolds, PTL

\* ... and a visit that ended without trying to give its slot back started the run that made a real
\* report, which is paid for unless a later stage threw.
THEOREM SlotsPayForOwnRuns == CoalesceSpec => []SlotPaysForOwnRun
  <1>1. CoalesceInv => SlotPaysForOwnRun
    BY DEF CoalesceInv, VisitOK, SlotPaysForOwnRun, OwnReport
  <1> QED BY <1>1, CoalesceInvHolds, PTL

-----------------------------------------------------------------------------
(* The five services together.                                               *)

\* A step of the services is a step of each, or leaves it alone.
LEMMA ServiceParts ==
    ASSUME [ServicesNext]_servicesVars
    PROVE  /\ [ProposalNext]_proposalVars /\ [MemberNext]_memberVars /\ [CoalesceNext]_coalesceVars
           /\ [QuotaNext]_quotaVars /\ [DeliveryNext]_deliveryVars
  BY DEF ServicesNext, servicesVars

\* A behaviour of the five is one of each: what is proved of a service holds where it is checked.
THEOREM ServicesAreTheirParts ==
    ServicesSpec => ProposalSpec /\ MemberSpec /\ CoalesceSpec /\ QuotaSpec /\ DeliverySpec
  <1>1. ServicesInit => ProposalInit /\ MemberInit /\ CoalesceInit /\ QuotaInit /\ DeliveryInit
    BY DEF ServicesInit
  <1> QED BY <1>1, ServiceParts, PTL
          DEF ServicesSpec, ProposalSpec, MemberSpec, CoalesceSpec, QuotaSpec, DeliverySpec

\* TypesOK: the rows, the tables, the buckets and the requests of all five keep their types.
THEOREM ServiceTypesCorrect == ServicesSpec => []TypesOK
  <1>1. ProposalTypeOK /\ MemberTypeOK /\ CoalesceTypeOK /\ QuotaTypeOK /\ DeliveryTypeOK => TypesOK
    BY DEF TypesOK
  <1> QED BY <1>1, ServicesAreTheirParts, ProposalTypeCorrect, MemberTypeCorrect, CoalesceTypeCorrect,
             QuotaTypeCorrect, DeliveryTypeCorrect, PTL
=============================================================================
