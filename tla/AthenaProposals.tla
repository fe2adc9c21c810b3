--------------------------- MODULE AthenaProposals ----------------------------
(***************************************************************************)
(* One of Athena's proposals: the resolve route of                         *)
(* src/app/api/athena/proposals/[id]/resolve, the guarded writes of        *)
(* src/lib/db/athena-proposals.ts and the reaper of                        *)
(* athena-proposals-sweep.ts.  An accept claims the row, runs an action    *)
(* that cannot be taken back and stamps the outcome; any request may die   *)
(* between two statements, and the reaper reads before it writes.          *)
(*                                                                         *)
(* Every statement is keyed by one id, so one row stands for all.  Time is *)
(* the age of the claim and of the ask: each is recent or past its limit.  *)
(***************************************************************************)
EXTENDS FiniteSets, Naturals

CONSTANTS
    Clicks,         \* requests at the resolve route
    Reapers,        \* runs of the daily sweep that may overlap
    NoClick,
    Capped          \* TRUE: the platform ends a request before its claim is stale

ASSUME ProposalAssumption ==
    /\ NoClick \notin Clicks
    /\ Capped \in BOOLEAN

VARIABLES
    proposal,       \* the row
    askAged,        \* createdAt is older than ATHENA_PROPOSAL_TTL_DAYS
    click,          \* click[c]: where the request is
    reaper,         \* reaper[s]: where the sweep is
    watched,        \* the organization has a watched repository: the cron visits no other
    effect,         \* history: requests whose action ran, in part or in full, or may have
    thrown          \* history: those of them whose action threw

proposalVars == <<proposal, askAged, watched, click, reaper, effect, thrown>>

ProposalOutcomes == {"none", "ran", "declined", "interrupted", "expired"}
ProposalStatuses == {"open", "accepted", "declined", "expired"}

\* claimant stands for resolvedBy, at the grain of a request instead of a person.
ProposalRow == [status : ProposalStatuses, resolvedAt : BOOLEAN, claimedAt : {"null", "recent", "stale"},
        claimant : Clicks \cup {NoClick}, outcome : ProposalOutcomes]

ClickPhases == {"idle", "accepting", "declining", "refusing", "running", "releasing",
                "stamping", "writing", "done", "dead"}
LiveClick == ClickPhases \ {"idle", "done", "dead"}
ReaperPhases == {"idle", "interrupting", "between", "expiring", "done"}

ProposalTypeOK ==
    /\ proposal \in ProposalRow
    /\ askAged \in BOOLEAN
    /\ click \in [Clicks -> ClickPhases]
    /\ reaper \in [Reapers -> ReaperPhases]
    /\ watched \in BOOLEAN
    /\ effect \subseteq Clicks /\ thrown \subseteq effect

OpenRow == [status |-> "open", resolvedAt |-> FALSE, claimedAt |-> "null",
            claimant |-> NoClick, outcome |-> "none"]

\* The second row was claimed before the claimedAt column existed, by a request long gone.
ProposalInit ==
    /\ proposal \in {OpenRow, [OpenRow EXCEPT !.status = "accepted"]}
    /\ askAged = FALSE
    /\ click = [c \in Clicks |-> "idle"]
    /\ reaper = [s \in Reapers |-> "idle"]
    /\ watched \in BOOLEAN
    /\ effect = {} /\ thrown = {}

ClickGoes(c, phase) == click' = [click EXCEPT ![c] = phase]
ReaperGoes(s, phase) == reaper' = [reaper EXCEPT ![s] = phase]

lifecycleOf(row) ==
    IF row.status # "accepted" THEN row.status
    ELSE IF row.resolvedAt THEN "accepted"
    ELSE IF row.claimedAt = "recent" THEN "claimed" ELSE "claimed_stale"

-----------------------------------------------------------------------------
(* The where-clauses of the guarded writes, and what they write.             *)

\* Mutation of Unanswered: the write trusts the read before it.
MutUnanswered == TRUE

Unanswered == proposal.status = "open"

Claimed == proposal.status = "accepted" /\ ~proposal.resolvedAt

\* Mutation of StaleClaim: only a claim whose age is on the row.
MutDatedClaim == Claimed /\ proposal.claimedAt = "stale"

StaleClaim == Claimed /\ proposal.claimedAt # "recent"

\* Mutation of ClaimedRow: the claim leaves its time unwritten.
MutClaimedRow(c) == [proposal EXCEPT !.status = "accepted", !.claimant = c]

ClaimedRow(c) == [proposal EXCEPT !.status = "accepted", !.claimedAt = "recent", !.claimant = c]

\* Mutation of InterruptedRow: a claim nobody stamped is offered again.
MutInterruptedRow == [proposal EXCEPT !.status = "open", !.claimant = NoClick]

InterruptedRow == [proposal EXCEPT !.resolvedAt = TRUE, !.outcome = "interrupted"]

Closed(row, status, by, outcome) ==
    [row EXCEPT !.status = status, !.resolvedAt = TRUE, !.claimant = by, !.outcome = outcome]

-----------------------------------------------------------------------------
(* The resolve route.                                                        *)

\* getAthenaProposal and the gate: transition(open, accept or decline) is the only one that is ok.
ReadProposal(c) ==
    /\ click[c] = "idle"
    /\ IF lifecycleOf(proposal) = "open"
       THEN \E phase \in {"accepting", "declining"} : ClickGoes(c, phase)
       ELSE ClickGoes(c, "done")
    /\ UNCHANGED <<proposal, askAged, watched, reaper, effect, thrown>>

\* An accept is refused for its kind, the role or an anonymous viewer; a payload that the
\* catalog no longer takes is declined instead.
CheckAccept(c) ==
    /\ click[c] = "accepting"
    /\ \E phase \in {"done", "declining"} : ClickGoes(c, phase)
    /\ UNCHANGED <<proposal, askAged, watched, reaper, effect, thrown>>

\* The read that opens resolveAthenaProposal.
LookOpen(c) ==
    /\ click[c] = "declining"
    /\ ClickGoes(c, IF proposal.status = "open" THEN "refusing" ELSE "done")
    /\ UNCHANGED <<proposal, askAged, watched, reaper, effect, thrown>>

\* The compare-and-set of resolveAthenaProposal.
WriteDecline(c) ==
    /\ click[c] = "refusing"
    /\ proposal' = IF Unanswered THEN Closed(proposal, "declined", c, "declined") ELSE proposal
    /\ ClickGoes(c, "done")
    /\ UNCHANGED <<askAged, watched, reaper, effect, thrown>>

\* The action starts with the claim: a request that dies now may have run it or not.
claimAthenaProposal(c) ==
    /\ click[c] = "accepting"
    /\ \/ /\ Unanswered
          /\ proposal' = ClaimedRow(c)
          /\ effect' = effect \cup {c}
          /\ ClickGoes(c, "running")
       \/ /\ ~Unanswered
          /\ ClickGoes(c, "done")
          /\ UNCHANGED <<proposal, effect>>
    /\ UNCHANGED <<askAged, watched, reaper, thrown>>

\* executeAthenaAction answers, a refusal included ...
ActionReturns(c) ==
    /\ click[c] = "running"
    /\ ClickGoes(c, "stamping")
    /\ UNCHANGED <<proposal, askAged, watched, reaper, effect, thrown>>

\* ... or throws, which the route takes as "nothing was changed"; the executors write in several
\* transactions, of which some may have been committed.
ActionThrows(c) ==
    /\ click[c] = "running"
    /\ thrown' = thrown \cup {c}
    /\ ClickGoes(c, "releasing")
    /\ UNCHANGED <<proposal, askAged, watched, reaper, effect>>

\* A release that fails is swallowed.
releaseAthenaProposal(c) ==
    /\ click[c] = "releasing"
    /\ \/ proposal' = IF Claimed
                      THEN [proposal EXCEPT !.status = "open", !.claimant = NoClick]
                      ELSE proposal
       \/ UNCHANGED proposal
    /\ ClickGoes(c, "done")
    /\ UNCHANGED <<askAged, watched, reaper, effect, thrown>>

\* The read that opens stampAthenaProposal; after a stamp that finds nothing, or throws, the
\* request only writes its audit row.
LookUnstamped(c) ==
    /\ click[c] = "stamping"
    /\ \/ ClickGoes(c, IF proposal.resolvedAt THEN "done" ELSE "writing")
       \/ ClickGoes(c, "done")
    /\ UNCHANGED <<proposal, askAged, watched, reaper, effect, thrown>>

WriteStamp(c) ==
    /\ click[c] = "writing"
    /\ proposal' = IF proposal.resolvedAt THEN proposal
                   ELSE [proposal EXCEPT !.resolvedAt = TRUE, !.outcome = "ran"]
    /\ ClickGoes(c, "done")
    /\ UNCHANGED <<askAged, watched, reaper, effect, thrown>>

\* A deploy, the function cap, or a statement that throws outside the route's catches.
ClickDies(c) ==
    /\ click[c] \in LiveClick
    /\ ClickGoes(c, "dead")
    /\ UNCHANGED <<proposal, askAged, watched, reaper, effect, thrown>>

-----------------------------------------------------------------------------
(* The sweep of a watched organization: each half lists rows and then closes *)
(* them one at a time.                                                       *)

ListStaleClaims(s) ==
    /\ reaper[s] = "idle" /\ watched
    /\ ReaperGoes(s, IF StaleClaim THEN "interrupting" ELSE "between")
    /\ UNCHANGED <<proposal, askAged, watched, click, effect, thrown>>

\* The guard is the stamp's: the age of the claim is not read again.
Interrupt(s) ==
    /\ reaper[s] = "interrupting"
    /\ proposal' = IF Claimed THEN InterruptedRow ELSE proposal
    /\ ReaperGoes(s, "between")
    /\ UNCHANGED <<askAged, watched, click, effect, thrown>>

ListAgedAsks(s) ==
    /\ reaper[s] = "between"
    /\ ReaperGoes(s, IF proposal.status = "open" /\ askAged THEN "expiring" ELSE "done")
    /\ UNCHANGED <<proposal, askAged, watched, click, effect, thrown>>

Expire(s) ==
    /\ reaper[s] = "expiring"
    /\ proposal' = IF Unanswered THEN Closed(proposal, "expired", NoClick, "expired") ELSE proposal
    /\ ReaperGoes(s, "done")
    /\ UNCHANGED <<askAged, watched, click, effect, thrown>>

\* The next day's run.
NextSweep(s) ==
    /\ reaper[s] = "done"
    /\ ReaperGoes(s, "idle")
    /\ UNCHANGED <<proposal, askAged, watched, click, effect, thrown>>

\* A sweep that fails or is cut off; what it had listed it lists again.
SweepCutShort(s) ==
    /\ reaper[s] \in {"interrupting", "between", "expiring"}
    /\ ReaperGoes(s, "done")
    /\ UNCHANGED <<proposal, askAged, watched, click, effect, thrown>>

-----------------------------------------------------------------------------
(* Time.                                                                     *)

\* ATHENA_CLAIM_STALE_MS is twice the cap on a request.
ClaimAges ==
    /\ proposal.claimedAt = "recent"
    /\ Capped => \A c \in Clicks : proposal.claimant = c => click[c] \notin LiveClick
    /\ proposal' = [proposal EXCEPT !.claimedAt = "stale"]
    /\ UNCHANGED <<askAged, watched, click, reaper, effect, thrown>>

AskAges ==
    /\ ~askAged
    /\ askAged' = TRUE
    /\ UNCHANGED <<proposal, watched, click, reaper, effect, thrown>>

\* The last repository is taken off the watch list, or a first one put on it.
WatchChanges ==
    /\ watched' = ~watched
    /\ UNCHANGED <<proposal, askAged, click, reaper, effect, thrown>>

ClickStep(c) ==
    \/ CheckAccept(c) \/ LookOpen(c) \/ WriteDecline(c) \/ claimAthenaProposal(c)
    \/ ActionReturns(c) \/ ActionThrows(c) \/ releaseAthenaProposal(c)
    \/ LookUnstamped(c) \/ WriteStamp(c) \/ ClickDies(c)

ProposalNext ==
    \/ \E c \in Clicks : ReadProposal(c) \/ ClickStep(c)
    \/ \E s \in Reapers :
        \/ ListStaleClaims(s) \/ Interrupt(s) \/ ListAgedAsks(s) \/ Expire(s)
        \/ NextSweep(s) \/ SweepCutShort(s)
    \/ ClaimAges \/ AskAges \/ WatchChanges

ProposalSpec == ProposalInit /\ [][ProposalNext]_proposalVars

\* Time passes, the cron fires every day and its deadline does not leave out the same organization on
\* every day, a request that started ends or is ended, and the sweep is not cut off at the same row
\* on every day.
ProposalFairness ==
    /\ WF_proposalVars(ClaimAges)
    /\ WF_proposalVars(AskAges)
    /\ \A c \in Clicks : WF_proposalVars(ClickStep(c))
    /\ \A s \in Reapers :
        /\ WF_proposalVars(ListStaleClaims(s) \/ NextSweep(s))
        /\ SF_proposalVars(ListAgedAsks(s))
        /\ SF_proposalVars(Interrupt(s))
        /\ SF_proposalVars(Expire(s))

-----------------------------------------------------------------------------
(* What must hold.                                                           *)

\* Requests whose action ran, or may have, and did not throw.
Ran == effect \ thrown

\* The action of an ask runs at most once, however many requests accept it, die on it or
\* find it swept; a run that threw is not counted, the route having said that nothing was changed.
ActionRunsOnce == \A c, d \in Ran : c = d

\* The row tells what happened: once an action may have run, its ask is neither offered again nor
\* closed as declined or expired, and an outcome is stamped by the request that claimed it.  Of a run
\* that threw the row tells nothing: it is offered again, whatever the action had done by then.
RowTellsTheTruth ==
    /\ Ran # {} => proposal.status = "accepted"
    /\ proposal.outcome = "ran" => proposal.claimant \in Ran

\* The sweep, which decides on an age it read earlier, closes no claim under a request that is
\* still going to stamp it.
InterruptsOnlyTheDead ==
    proposal.outcome = "interrupted" => \A c \in effect : click[c] \notin LiveClick

Table == INSTANCE ProposalLifecycle WITH lifecycle <- lifecycleOf(proposal)

\* The guarded writes take the edges of the lifecycle table and no others; a claim that is stale
\* is never released, which the release itself does not check.
FollowsEDGES == Table!Spec

\* Every ask is answered, interrupted or expired in the end, whoever dies on the way, unless its
\* organization stays, or comes again and again to be, without a watched repository.
EveryAskIsClosed == <>[]watched => <>proposal.resolvedAt
=============================================================================
