------------------------------ MODULE Membership ------------------------------
(***************************************************************************)
(* The members of one organization and one invite to it: the serializable  *)
(* role writes of src/lib/db/members.ts, the guarded writes of             *)
(* src/lib/db/invites.ts, and the seeding of a first owner by              *)
(* viewerOrgRole in src/lib/authz.ts.                                      *)
(*                                                                         *)
(* A request reads, decides and writes in separate statements, so a gate   *)
(* it has passed may be stale by the time it writes.                       *)
(***************************************************************************)
EXTENDS FiniteSets, Naturals

CONSTANTS
    Logins,         \* people
    Entitled,       \* whose own namespace the slug is, or whom GitHub confirms as admin
    Requests,       \* requests under way at the member and invite routes
    AssignedRoles   \* the roles the owner's requests and the invite hand out

OrgRoles == {"viewer", "member", "admin", "owner"}

ASSUME MembershipAssumption ==
    /\ IsFiniteSet(Logins)
    /\ Entitled \subseteq Logins
    /\ AssignedRoles \subseteq OrgRoles

VARIABLES
    role,           \* role[l]: the membership row of l, "none" without one
    invite,         \* the invite row: its status and its role
    request,        \* request[r]: where the request is and what it has read
    granted,        \* history: who got a membership write from the invite
    unacked         \* history: those of them to whom the write was reported as a failure

memberVars == <<role, invite, request, granted, unacked>>

histories == <<granted, unacked>>

Unasked == [phase |-> "idle", login |-> "none", want |-> "none", saw |-> "none",
            invited |-> FALSE]

RequestPhases == {"idle", "accepting", "consuming", "claiming", "opening", "committing",
                  "releasing", "seeding"}

MemberRoles == OrgRoles \cup {"none"}

RequestState == [phase : RequestPhases, login : Logins \cup {"none"}, want : MemberRoles,
                 saw : MemberRoles, invited : BOOLEAN]

MemberTypeOK ==
    /\ role \in [Logins -> MemberRoles]
    /\ invite \in [status : {"pending", "accepted", "revoked"}, role : OrgRoles]
    /\ request \in [Requests -> RequestState]
    /\ granted \subseteq Logins
    /\ unacked \subseteq Logins

\* An organization that a scan has materialized has no members yet.
MemberInit ==
    /\ role = [l \in Logins |-> "none"]
    /\ invite \in [status : {"pending"}, role : AssignedRoles]
    /\ request = [r \in Requests |-> Unasked]
    /\ granted = {}
    /\ unacked = {}

-----------------------------------------------------------------------------
(* Roles.                                                                    *)

ROLE_RANK == [r \in MemberRoles |->
    CASE r = "none" -> 0 [] r = "viewer" -> 1 [] r = "member" -> 2
      [] r = "admin" -> 3 [] r = "owner" -> 4]

roleAtLeast(held, needed) == ROLE_RANK[held] >= ROLE_RANK[needed]

Owners == {l \in Logins : role[l] = "owner"}

orgHasOwner == Owners # {}

isLastOwner == Cardinality(Owners) <= 1

RequestGoes(r, phase) == request' = [request EXCEPT ![r].phase = phase]

\* The answer leaves nothing of the request behind; r may then stand for another.
Answer(r) == request' = [request EXCEPT ![r] = Unasked]

-----------------------------------------------------------------------------
(* The transaction of setMembershipRole and of removeMembership ("none").    *)

\* Only a change that takes an owner away counts the owners; one to owner reads nothing.
Counted(q) == q.saw = "owner"

\* Mutation of ReadsStand: the transaction at the database's default isolation.
MutReadsStand(q) == TRUE

\* Serializable: a commit whose reads have been overtaken is aborted.
ReadsStand(q) ==
    \/ q.want = "owner"
    \/ q.saw = role[q.login] /\ (Counted(q) => ~isLastOwner)

\* requireOrgRole(owner): an entitled viewer of an organization without owners passes for one,
\* even when the seeding failed.
PassesOwnerGate == orgHasOwner \/ Entitled # {}

\* An owner's request, or a member who leaves; either may lose the role before the write.
AskChange(r) ==
    /\ request[r].phase = "idle"
    /\ \E l \in Logins, want \in AssignedRoles \cup {"none"} :
        /\ PassesOwnerGate \/ (want = "none" /\ role[l] # "none")
        /\ request' = [request EXCEPT ![r].phase = "opening", ![r].login = l, ![r].want = want]
    /\ UNCHANGED <<role, invite, histories>>

\* What a failed or refused change does next: an accept returns its claim.
GiveUp(r) == IF request[r].invited THEN RequestGoes(r, "releasing") ELSE Answer(r)

\* last_owner, or not_found for a removal.
Refused(q) ==
    \/ q.want = "none" /\ q.saw = "none"
    \/ Counted(q) /\ isLastOwner

OpenTransaction(r) ==
    LET asked == request[r]
        q == [asked EXCEPT !.saw = IF asked.want = "owner" THEN "none" ELSE role[asked.login]]
    IN  /\ asked.phase = "opening"
        /\ IF Refused(q) THEN GiveUp(r)
           ELSE request' = [request EXCEPT ![r] = [q EXCEPT !.phase = "committing"]]
        /\ UNCHANGED <<role, invite, histories>>

\* Committed; the caller learns so, or gets the db_error of a connection that broke on the answer.
CommitTransaction(r) ==
    LET q == request[r]
        writer == IF q.invited THEN {q.login} ELSE {}
    IN  /\ q.phase = "committing"
        /\ ReadsStand(q)
        /\ role' = [role EXCEPT ![q.login] = q.want]
        /\ granted' = granted \cup writer
        /\ \/ Answer(r) /\ unacked' = unacked \ writer
           \/ GiveUp(r) /\ unacked' = unacked \cup writer
        /\ UNCHANGED invite

\* A serialization failure or any other error of the database: db_error.
AbortTransaction(r) ==
    /\ request[r].phase \in {"opening", "committing"}
    /\ GiveUp(r)
    /\ UNCHANGED <<role, invite, histories>>

-----------------------------------------------------------------------------
(* The invite.                                                               *)

\* Mutation of Redeemable: the update is keyed by the id alone.
MutRedeemable == TRUE

\* The guard of the claim, of the consumption and of the revocation.
Redeemable == invite.status = "pending"

\* acceptInvite reads the row by its token; a pinned invite fits one login, and one whose time is
\* over is not taken up, which from then on is a step that is not taken.
ReadInvite(r) ==
    /\ request[r].phase = "idle"
    /\ invite.status = "pending"
    /\ \E l \in Logins : request' = [request EXCEPT
            ![r].phase = "accepting", ![r].login = l, ![r].want = invite.role]
    /\ UNCHANGED <<role, invite, histories>>

\* getMembershipRole: never a downgrade of the role it reads.
ReadMembership(r) ==
    /\ request[r].phase = "accepting"
    /\ RequestGoes(r, IF roleAtLeast(role[request[r].login], request[r].want)
                      THEN "consuming" ELSE "claiming")
    /\ UNCHANGED <<role, invite, histories>>

ConsumeInvite(r) ==
    /\ request[r].phase = "consuming"
    /\ invite' = IF Redeemable THEN [invite EXCEPT !.status = "accepted"] ELSE invite
    /\ Answer(r)
    /\ UNCHANGED <<role, histories>>

ClaimInvite(r) ==
    /\ request[r].phase = "claiming"
    /\ IF Redeemable
       THEN /\ invite' = [invite EXCEPT !.status = "accepted"]
            /\ request' = [request EXCEPT ![r].phase = "opening", ![r].invited = TRUE]
       ELSE Answer(r) /\ UNCHANGED invite
    /\ UNCHANGED <<role, histories>>

\* The release is swallowed when it fails.
ReleaseInvite(r) ==
    /\ request[r].phase = "releasing"
    /\ \/ invite' = IF invite.status = "accepted" THEN [invite EXCEPT !.status = "pending"] ELSE invite
       \/ UNCHANGED invite
    /\ Answer(r)
    /\ UNCHANGED <<role, histories>>

revokeInvite ==
    /\ PassesOwnerGate
    /\ Redeemable
    /\ invite' = [invite EXCEPT !.status = "revoked"]
    /\ UNCHANGED <<role, request, histories>>

-----------------------------------------------------------------------------
(* The first owner.                                                          *)

\* viewerOrgRole: no role and no owner, and entitled.
ReadStanding(r) ==
    /\ request[r].phase = "idle"
    /\ ~orgHasOwner
    /\ \E l \in Entitled :
        /\ role[l] = "none"
        /\ request' = [request EXCEPT ![r].phase = "seeding", ![r].login = l]
    /\ UNCHANGED <<role, invite, histories>>

\* The upsert creates a row or leaves the one there is; a failure is swallowed.
ensureOwnerMembership(r) ==
    /\ request[r].phase = "seeding"
    /\ LET l == request[r].login IN
        \/ role' = IF role[l] = "none" THEN [role EXCEPT ![l] = "owner"] ELSE role
        \/ UNCHANGED role
    /\ Answer(r)
    /\ UNCHANGED <<invite, histories>>

\* A request whose process ends; a claim of the invite stays taken.
RequestDies(r) ==
    /\ request[r].phase # "idle"
    /\ Answer(r)
    /\ UNCHANGED <<role, invite, histories>>

MemberNext ==
    \/ \E r \in Requests :
        \/ AskChange(r) \/ OpenTransaction(r) \/ CommitTransaction(r) \/ AbortTransaction(r)
        \/ ReadInvite(r) \/ ReadMembership(r) \/ ConsumeInvite(r) \/ ClaimInvite(r)
        \/ ReleaseInvite(r) \/ ReadStanding(r) \/ ensureOwnerMembership(r) \/ RequestDies(r)
    \/ revokeInvite

MemberSpec == MemberInit /\ [][MemberNext]_memberVars

-----------------------------------------------------------------------------
(* What must hold.                                                           *)

\* An organization that has an owner keeps one, through demotions, removals and self-leaves of
\* different owners at once.
OwnedOrgStaysOwned == [][orgHasOwner => orgHasOwner']_memberVars

\* An invite is spent once: a membership comes out of it only under a claim, and none after one whose
\* writer learned of it; a commit that is reported as a failure returns the invite, to admit
\* another.  From a revocation that reported success on it grants nothing and is never pending
\* again, whatever requests had read it, held it or were about to return it.
InviteIsSpentOnce ==
    [][/\ UNCHANGED histories \/ (granted \subseteq unacked /\ invite.status = "accepted")
       /\ invite.status = "revoked" => invite'.status = "revoked"]_memberVars
=============================================================================
