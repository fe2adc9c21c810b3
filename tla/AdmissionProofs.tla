--------------------------- MODULE AdmissionProofs ----------------------------
(***************************************************************************)
(* Theorems about the three modules that decide what is let in: the        *)
(* members of an organization, for any people and any number of requests;  *)
(* the webhook deliveries, for any instances and arrivals whose work stays *)
(* within its claim; and the public allowance, for any payers, allowance   *)
(* and window.                                                             *)
(***************************************************************************)
EXTENDS Membership, WebhookDelivery, PublicScanQuota, FiniteSetTheorems, TLAPS

-----------------------------------------------------------------------------
(* Members and the invite.                                                   *)

\* A request that is under way has somebody.
LoginOK(q) == q.phase # "idle" => q.login \in Logins

\* What a request that holds the invite may be doing; nobody else returns it.
InvitedOK(q) ==
    /\ q.invited => q.phase \in {"opening", "committing", "releasing"}
    /\ q.phase = "releasing" => q.invited

\* One request at most holds the invite, which is then accepted and has granted nothing that was
\* acknowledged; once it has, it is accepted.
HolderOK ==
    /\ \A r \in Requests :
        request[r].invited => invite.status = "accepted" /\ granted \subseteq unacked
    /\ \A r, s \in Requests : request[r].invited /\ request[s].invited => r = s
    /\ ~(granted \subseteq unacked) => invite.status = "accepted"

MemberInv ==
    /\ MemberTypeOK
    /\ \A r \in Requests : LoginOK(request[r])

InviteInv == \A r \in Requests : InvitedOK(request[r])

-----------------------------------------------------------------------------
(* What each action writes to its request.                                   *)

\* The requests as a step of r leaves them, x being what it made of its own.
Moves(r, x) ==
    /\ x \in RequestState /\ LoginOK(x)
    /\ request' = [request EXCEPT ![r] = x]

LEMMA AnswerMoves ==
    ASSUME MemberInv, NEW r \in Requests, Answer(r)
    PROVE  Moves(r, Unasked) /\ InvitedOK(Unasked)
  BY DEF Answer, Moves, Unasked, RequestState, RequestPhases, MemberRoles, LoginOK, InvitedOK

LEMMA PhaseMoves ==
    ASSUME MemberInv, NEW r \in Requests, NEW phase \in RequestPhases, RequestGoes(r, phase),
           request[r].phase # "idle"
    PROVE  Moves(r, [request[r] EXCEPT !.phase = phase])
  BY DEF RequestGoes, Moves, MemberInv, MemberTypeOK, RequestState, LoginOK

LEMMA GiveUpMoves ==
    ASSUME MemberInv, NEW r \in Requests, GiveUp(r), request[r].phase # "idle"
    PROVE  \/ Moves(r, Unasked) /\ ~Unasked.invited /\ InvitedOK(Unasked)
           \/ /\ Moves(r, [request[r] EXCEPT !.phase = "releasing"])
              /\ request[r].invited
              /\ [request[r] EXCEPT !.phase = "releasing"].invited
              /\ InvitedOK([request[r] EXCEPT !.phase = "releasing"])
  <1>1. CASE request[r].invited
    <2>1. Moves(r, [request[r] EXCEPT !.phase = "releasing"])
      BY <1>1, PhaseMoves DEF GiveUp, RequestPhases
    <2> QED BY <1>1, <2>1 DEF MemberInv, MemberTypeOK, RequestState, InvitedOK
  <1>2. CASE ~request[r].invited
    BY <1>2, AnswerMoves DEF GiveUp, Unasked
  <1> QED BY <1>1, <1>2
\* A request that neither takes the invite nor ends in a membership.
Modest(r) ==
    \E x \in RequestState : Moves(r, x) /\ InvitedOK(x) /\ (x.invited => request[r].invited)

LEMMA RequestMoves ==
    ASSUME MemberInv, InviteInv, NEW r \in Requests,
           \/ AskChange(r) \/ OpenTransaction(r) \/ CommitTransaction(r) \/ AbortTransaction(r)
           \/ ReadInvite(r) \/ ReadMembership(r) \/ ConsumeInvite(r)
           \/ ReleaseInvite(r) \/ ReadStanding(r) \/ ensureOwnerMembership(r) \/ RequestDies(r)
    PROVE  Modest(r)
  <1>0. /\ request \in [Requests -> RequestState] /\ role \in [Logins -> MemberRoles]
        /\ request[r] \in RequestState /\ InvitedOK(request[r]) /\ LoginOK(request[r])
        /\ invite.role \in OrgRoles
    BY DEF MemberInv, MemberTypeOK, InviteInv
  <1>1. ASSUME Answer(r) PROVE Modest(r)
    BY <1>1, AnswerMoves DEF Modest, Moves, Unasked
  <1>2. ASSUME GiveUp(r), request[r].phase # "idle" PROVE Modest(r)
    BY <1>2, GiveUpMoves DEF Modest, Moves
  <1>3. ASSUME NEW phase \in {"consuming", "claiming"}, RequestGoes(r, phase), request[r].phase = "accepting"
        PROVE  Modest(r)
    <2>1. Moves(r, [request[r] EXCEPT !.phase = phase])
      BY <1>3, PhaseMoves DEF RequestPhases
    <2>2. ~[request[r] EXCEPT !.phase = phase].invited /\ InvitedOK([request[r] EXCEPT !.phase = phase])
      BY <1>0, <1>3 DEF InvitedOK, RequestState
    <2> QED BY <2>1, <2>2 DEF Modest, Moves
  <1>4. CASE AskChange(r)
    <2>1. PICK l \in Logins, want \in AssignedRoles \cup {"none"} :
            request' = [request EXCEPT ![r].phase = "opening", ![r].login = l, ![r].want = want]
      BY <1>4 DEF AskChange
    <2> DEFINE x == [request[r] EXCEPT !.phase = "opening", !.login = l, !.want = want]
    <2>2. x \in RequestState /\ LoginOK(x) /\ InvitedOK(x) /\ x.invited = request[r].invited
      BY <1>0, MembershipAssumption DEF RequestState, RequestPhases, MemberRoles, LoginOK, InvitedOK
    <2>3. request' = [request EXCEPT ![r] = x]
      BY <1>0, <2>1
    <2> QED BY <2>2, <2>3 DEF Modest, Moves
  <1>5. CASE OpenTransaction(r)
    <2> DEFINE asked == request[r]
               q == [asked EXCEPT !.saw = IF asked.want = "owner" THEN "none" ELSE role[asked.login]]
               x == [q EXCEPT !.phase = "committing"]
    <2>1. asked.phase = "opening"
      BY <1>5 DEF OpenTransaction
    <2>2. (IF asked.want = "owner" THEN "none" ELSE role[asked.login]) \in MemberRoles
      BY <1>0, <2>1 DEF LoginOK, MemberRoles
    <2>3. x \in RequestState /\ LoginOK(x) /\ InvitedOK(x) /\ x.invited = request[r].invited
      BY <1>0, <2>1, <2>2 DEF RequestState, RequestPhases, LoginOK, InvitedOK
    <2>4. CASE request' = [request EXCEPT ![r] = x]
      BY <2>3, <2>4 DEF Modest, Moves
    <2>5. CASE GiveUp(r)
      BY <1>2, <2>1, <2>5
    <2> QED BY <1>5, <2>4, <2>5 DEF OpenTransaction
  <1>6. CASE CommitTransaction(r)
    BY <1>1, <1>2, <1>6 DEF CommitTransaction
  <1>7. CASE AbortTransaction(r)
    BY <1>2, <1>7 DEF AbortTransaction
  <1>8. CASE ReadInvite(r)
    <2>1. PICK l \in Logins : request' = [request EXCEPT
            ![r].phase = "accepting", ![r].login = l, ![r].want = invite.role]
      BY <1>8 DEF ReadInvite
    <2> DEFINE x == [request[r] EXCEPT !.phase = "accepting", !.login = l, !.want = invite.role]
    <2>2. ~request[r].invited
      BY <1>0, <1>8 DEF ReadInvite, InvitedOK
    <2>3. x \in RequestState /\ LoginOK(x) /\ InvitedOK(x) /\ x.invited = request[r].invited
      BY <1>0, <2>2 DEF RequestState, RequestPhases, MemberRoles, LoginOK, InvitedOK
    <2>4. request' = [request EXCEPT ![r] = x]
      BY <1>0, <2>1
    <2> QED BY <2>3, <2>4 DEF Modest, Moves
  <1>9. CASE ReadMembership(r)
    BY <1>3, <1>9 DEF ReadMembership
  <1>10. CASE ReadStanding(r)
    <2>1. PICK l \in Entitled : request' = [request EXCEPT ![r].phase = "seeding", ![r].login = l]
      BY <1>10 DEF ReadStanding
    <2> DEFINE x == [request[r] EXCEPT !.phase = "seeding", !.login = l]
    <2>2. ~request[r].invited
      BY <1>0, <1>10 DEF ReadStanding, InvitedOK
    <2>3. x \in RequestState /\ LoginOK(x) /\ InvitedOK(x) /\ x.invited = request[r].invited
      BY <1>0, <2>2, MembershipAssumption DEF RequestState, RequestPhases, LoginOK, InvitedOK
    <2>4. request' = [request EXCEPT ![r] = x]
      BY <1>0, <2>1
    <2> QED BY <2>3, <2>4 DEF Modest, Moves
  <1>11. CASE ConsumeInvite(r) \/ ReleaseInvite(r) \/ ensureOwnerMembership(r) \/ RequestDies(r)
    BY <1>1, <1>11 DEF ConsumeInvite, ReleaseInvite, ensureOwnerMembership, RequestDies
  <1> QED BY <1>4, <1>5, <1>6, <1>7, <1>8, <1>9, <1>10, <1>11

\* ClaimInvite takes it.
LEMMA ClaimMoves ==
    ASSUME MemberInv, InviteInv, NEW r \in Requests, ClaimInvite(r)
    PROVE  \/ Modest(r) /\ invite' = invite
           \/ /\ Redeemable /\ invite' = [invite EXCEPT !.status = "accepted"]
              /\ \E x \in RequestState : Moves(r, x) /\ InvitedOK(x)
  <1>0. request[r] \in RequestState /\ LoginOK(request[r]) /\ request[r].phase = "claiming"
    BY DEF MemberInv, MemberTypeOK, ClaimInvite
  <1>1. CASE Redeemable
    <2> DEFINE x == [request[r] EXCEPT !.phase = "opening", !.invited = TRUE]
    <2>1. x \in RequestState /\ LoginOK(x) /\ InvitedOK(x)
      BY <1>0 DEF RequestState, RequestPhases, LoginOK, InvitedOK
    <2>2. request' = [request EXCEPT ![r] = x] /\ invite' = [invite EXCEPT !.status = "accepted"]
      BY <1>1 DEF ClaimInvite, MemberInv, MemberTypeOK
    <2> QED BY <1>1, <2>1, <2>2 DEF Moves
  <1>2. CASE ~Redeemable
    BY <1>2, AnswerMoves DEF ClaimInvite, Modest, Moves, Unasked
  <1> QED BY <1>1, <1>2

-----------------------------------------------------------------------------
(* Types.                                                                    *)

LEMMA MemberInitInv ==
    MemberInit => MemberInv /\ InviteInv /\ HolderOK
  <1> SUFFICES ASSUME MemberInit PROVE MemberInv /\ InviteInv /\ HolderOK
    OBVIOUS
  <1>1. Unasked \in RequestState /\ LoginOK(Unasked) /\ InvitedOK(Unasked) /\ ~Unasked.invited
    BY DEF Unasked, RequestState, RequestPhases, MemberRoles, LoginOK, InvitedOK
  <1>2. \A r \in Requests : request[r] = Unasked
    BY DEF MemberInit
  <1>3. MemberTypeOK
    BY <1>1, MembershipAssumption DEF MemberInit, MemberTypeOK, MemberRoles
  <1>4. HolderOK
    BY <1>1, <1>2 DEF MemberInit, HolderOK
  <1> QED BY <1>1, <1>2, <1>3, <1>4 DEF MemberInv, InviteInv

\* The membership rows, the invite and the history.
LEMMA TablesStep ==
    ASSUME MemberInv, [MemberNext]_memberVars
    PROVE  /\ role' \in [Logins -> MemberRoles]
           /\ invite' \in [status : {"pending", "accepted", "revoked"}, role : OrgRoles]
           /\ granted' \subseteq Logins /\ unacked' \subseteq Logins
  <1>0. /\ role \in [Logins -> MemberRoles] /\ granted \subseteq Logins /\ unacked \subseteq Logins
        /\ invite \in [status : {"pending", "accepted", "revoked"}, role : OrgRoles]
        /\ \A r \in Requests : request[r] \in RequestState /\ LoginOK(request[r])
    BY DEF MemberInv, MemberTypeOK
  <1>1. role' \in [Logins -> MemberRoles]
    <2>1. ASSUME NEW r \in Requests, CommitTransaction(r) PROVE role' \in [Logins -> MemberRoles]
      BY <1>0, <2>1 DEF CommitTransaction, RequestState
    <2>2. ASSUME NEW r \in Requests, ensureOwnerMembership(r) PROVE role' \in [Logins -> MemberRoles]
      BY <1>0, <2>2 DEF ensureOwnerMembership, MemberRoles, OrgRoles
    <2> QED BY <1>0, <2>1, <2>2 DEF MemberNext, memberVars, AskChange, OpenTransaction, AbortTransaction, ReadInvite,
              ReadMembership, ConsumeInvite, ClaimInvite, ReleaseInvite, ReadStanding, RequestDies,
              revokeInvite
  <1>2. invite' \in [status : {"pending", "accepted", "revoked"}, role : OrgRoles]
    <2>1. invite' \in {invite, [invite EXCEPT !.status = "accepted"], [invite EXCEPT !.status = "pending"],
                       [invite EXCEPT !.status = "revoked"]}
      BY DEF MemberNext, memberVars, AskChange, OpenTransaction, CommitTransaction, AbortTransaction, ReadInvite,
             ReadMembership, ConsumeInvite, ClaimInvite, ReleaseInvite, ReadStanding, ensureOwnerMembership,
             RequestDies, revokeInvite
    <2> QED BY <1>0, <2>1
  <1>3. granted' \subseteq Logins /\ unacked' \subseteq Logins
    <2>1. ASSUME NEW r \in Requests, CommitTransaction(r)
          PROVE  granted' \subseteq Logins /\ unacked' \subseteq Logins
      BY <1>0, <2>1 DEF CommitTransaction, LoginOK
    <2> QED BY <1>0, <2>1 DEF MemberNext, memberVars, histories, AskChange, OpenTransaction, AbortTransaction,
              ReadInvite, ReadMembership, ConsumeInvite, ClaimInvite, ReleaseInvite, ReadStanding,
              ensureOwnerMembership, RequestDies, revokeInvite
  <1> QED BY <1>1, <1>2, <1>3

\* One request moves, or none.
LEMMA RequestsStep ==
    ASSUME MemberInv, InviteInv, [MemberNext]_memberVars
    PROVE  \/ \E r \in Requests, x \in RequestState : Moves(r, x) /\ InvitedOK(x)
           \/ request' = request
  BY RequestMoves, ClaimMoves DEF MemberNext, Modest, memberVars, revokeInvite

LEMMA MemberStep ==
    ASSUME MemberInv, InviteInv, [MemberNext]_memberVars
    PROVE  MemberInv' /\ InviteInv'
  <1>1. CASE request' = request
    BY <1>1, TablesStep DEF MemberInv, InviteInv, MemberTypeOK
  <1>2. ASSUME NEW r \in Requests, NEW x \in RequestState, Moves(r, x), InvitedOK(x)
        PROVE  MemberInv' /\ InviteInv'
    <2>1. request' \in [Requests -> RequestState]
      BY <1>2 DEF MemberInv, MemberTypeOK, Moves
    <2>2. \A s \in Requests : request'[s] = IF s = r THEN x ELSE request[s]
      BY <1>2 DEF MemberInv, MemberTypeOK, Moves
    <2>3. MemberTypeOK'
      BY <2>1, TablesStep DEF MemberTypeOK
    <2>4. \A s \in Requests : LoginOK(request'[s]) /\ InvitedOK(request'[s])
      BY <1>2, <2>2 DEF MemberInv, InviteInv, Moves
    <2> QED BY <2>3, <2>4 DEF MemberInv, InviteInv
  <1> QED BY <1>1, <1>2, RequestsStep

\* Rows, requests and the history keep their types; a request under way has somebody, and none
\* returns an invite that it does not hold.
THEOREM MemberInvHolds == MemberSpec => [](MemberInv /\ InviteInv)
  BY MemberInitInv, MemberStep, PTL DEF MemberSpec

THEOREM MemberTypeCorrect == MemberSpec => []MemberTypeOK
  <1>1. MemberInv => MemberTypeOK
    BY DEF MemberInv
  <1> QED BY <1>1, MemberInvHolds, PTL
-----------------------------------------------------------------------------
(* Owners.                                                                   *)

\* Who is counted as more than one is not alone.
LEMMA NotAlone ==
    ASSUME ~isLastOwner, NEW l
    PROVE  \E o \in Owners : o # l
  <1>1. SUFFICES ASSUME Owners \subseteq {l} PROVE FALSE
    OBVIOUS
  <1>2. Cardinality(Owners) <= Cardinality({l})
    BY <1>1, FS_Singleton, FS_Subset
  <1>3. Cardinality({l}) = 1
    BY FS_Singleton
  <1> QED BY <1>2, <1>3 DEF isLastOwner

LEMMA OwnersStep ==
    ASSUME MemberInv, orgHasOwner, [MemberNext]_memberVars
    PROVE  orgHasOwner'
  <1>0. role \in [Logins -> MemberRoles] /\ \A r \in Requests : LoginOK(request[r])
    BY DEF MemberInv, MemberTypeOK
  <1>1. ASSUME NEW o \in Logins, role'[o] = "owner" PROVE orgHasOwner'
    BY <1>1 DEF orgHasOwner, Owners
  <1>2. ASSUME NEW r \in Requests, CommitTransaction(r) PROVE orgHasOwner'
    <2> DEFINE q == request[r]
    <2>1. /\ q.login \in Logins /\ ReadsStand(q) /\ role' = [role EXCEPT ![q.login] = q.want]
      BY <1>0, <1>2 DEF CommitTransaction, LoginOK
    <2>2. CASE q.want = "owner"
      BY <1>0, <1>1, <2>1, <2>2
    <2>3. CASE q.want # "owner" /\ Counted(q)
      <3>1. PICK o \in Owners : o # q.login
        BY <2>1, <2>3, NotAlone DEF ReadsStand
      <3> QED BY <1>0, <1>1, <2>1, <3>1 DEF Owners
    <2>4. CASE q.want # "owner" /\ ~Counted(q)
      <3>1. role[q.login] # "owner"
        BY <2>1, <2>4 DEF ReadsStand, Counted
      <3>2. PICK o \in Owners : TRUE
        BY DEF orgHasOwner
      <3> QED BY <1>0, <1>1, <2>1, <3>1, <3>2 DEF Owners
    <2> QED BY <2>2, <2>3, <2>4
  <1>3. ASSUME NEW r \in Requests, ensureOwnerMembership(r) PROVE orgHasOwner'
    <2>1. PICK o \in Owners : TRUE
      BY DEF orgHasOwner
    <2> QED BY <1>0, <1>1, <1>3, <2>1 DEF ensureOwnerMembership, Owners
  <1>4. CASE role' = role
    BY <1>4 DEF orgHasOwner, Owners
  <1> QED BY <1>2, <1>3, <1>4 DEF MemberNext, memberVars, AskChange, OpenTransaction, AbortTransaction, ReadInvite,
            ReadMembership, ConsumeInvite, ClaimInvite, ReleaseInvite, ReadStanding, RequestDies,
            revokeInvite

\* For any people and requests, the last owner of an organization does not go.
THEOREM OwnersRemain == MemberSpec => OwnedOrgStaysOwned
  <1>1. MemberInv /\ [MemberNext]_memberVars => [orgHasOwner => orgHasOwner']_memberVars
    BY OwnersStep
  <1> QED BY <1>1, MemberInvHolds, PTL DEF MemberSpec, OwnedOrgStaysOwned

-----------------------------------------------------------------------------
(* The invite.                                                               *)

\* A request that holds nothing finds nothing granted unless it is accepted.
LEMMA HolderKept ==
    ASSUME MemberInv, HolderOK, NEW r \in Requests, Modest(r), UNCHANGED histories,
           \/ invite'.status = invite.status
           \/ invite.status = "pending" /\ invite'.status \in {"pending", "accepted"}
    PROVE  HolderOK'
  <1>1. PICK x \in RequestState : Moves(r, x) /\ (x.invited => request[r].invited)
    BY DEF Modest
  <1>2. \A s \in Requests : request'[s] = IF s = r THEN x ELSE request[s]
    BY <1>1 DEF MemberInv, MemberTypeOK, Moves
  <1>3. \A s \in Requests : request'[s].invited => request[s].invited
    BY <1>1, <1>2
  <1>4. granted' = granted /\ unacked' = unacked
    BY DEF histories
  <1> HIDE DEF Modest, Moves
  <1> QED BY <1>3, <1>4 DEF HolderOK

LEMMA HolderStep ==
    ASSUME MemberInv, InviteInv, HolderOK, [MemberNext]_memberVars
    PROVE  /\ HolderOK'
           /\ UNCHANGED histories \/ (granted \subseteq unacked /\ invite.status = "accepted")
           /\ invite.status = "revoked" => invite'.status = "revoked"
  <1>0. /\ request \in [Requests -> RequestState]
        /\ invite \in [status : {"pending", "accepted", "revoked"}, role : OrgRoles]
        /\ \A r \in Requests : InvitedOK(request[r])
    BY DEF MemberInv, MemberTypeOK, InviteInv
  <1> DEFINE Goal == /\ HolderOK'
                     /\ UNCHANGED histories \/ (granted \subseteq unacked /\ invite.status = "accepted")
                     /\ invite.status = "revoked" => invite'.status = "revoked"
  <1>1. ASSUME NEW r \in Requests,
               \/ AskChange(r) \/ OpenTransaction(r) \/ AbortTransaction(r) \/ ReadInvite(r)
               \/ ReadMembership(r) \/ ReadStanding(r) \/ ensureOwnerMembership(r) \/ RequestDies(r)
        PROVE  Goal
    <2>1. invite' = invite /\ UNCHANGED histories
      BY <1>1 DEF AskChange, OpenTransaction, AbortTransaction, ReadInvite, ReadMembership, ReadStanding,
             ensureOwnerMembership, RequestDies
    <2>2. Modest(r)
      BY <1>1, RequestMoves
    <2> QED BY <2>1, <2>2, HolderKept
  <1>2. ASSUME NEW r \in Requests, CommitTransaction(r) PROVE Goal
    <2>1. Modest(r) /\ invite' = invite
      BY <1>2, RequestMoves DEF CommitTransaction
    <2>2. CASE ~request[r].invited
      <3>1. UNCHANGED histories
        BY <1>2, <2>2 DEF CommitTransaction, histories
      <3> QED BY <2>1, <3>1, HolderKept
    <2>3. CASE request[r].invited
      <3>1. granted \subseteq unacked /\ invite.status = "accepted"
        BY <2>3 DEF HolderOK
      <3>2. \A s \in Requests : s # r => ~request[s].invited
        BY <2>3 DEF HolderOK
      <3>3. \A s \in Requests : s # r => request'[s] = request[s]
        BY <1>0, <1>2, <2>3 DEF CommitTransaction, Answer, GiveUp, RequestGoes
      <3>4. CASE Answer(r)
        <4>1. ~request'[r].invited
          BY <1>0, <3>4 DEF Answer, Unasked
        <4> QED BY <2>1, <3>1, <3>2, <3>3, <4>1 DEF HolderOK
      <3>5. CASE unacked' = unacked \cup {request[r].login}
        <4>1. granted' \subseteq unacked'
          BY <1>2, <2>3, <3>1, <3>5 DEF CommitTransaction
        <4> QED BY <2>1, <3>1, <3>2, <3>3, <4>1 DEF HolderOK
      <3> QED BY <1>2, <2>3, <3>4, <3>5 DEF CommitTransaction
    <2> QED BY <2>2, <2>3
  <1>3. ASSUME NEW r \in Requests, ConsumeInvite(r) PROVE Goal
    <2>1. Modest(r) /\ UNCHANGED histories
      BY <1>3, RequestMoves DEF ConsumeInvite
    <2>2. \/ invite' = invite
          \/ invite.status = "pending" /\ invite'.status = "accepted"
      BY <1>0, <1>3 DEF ConsumeInvite, Redeemable
    <2> QED BY <2>1, <2>2, HolderKept
  <1>4. ASSUME NEW r \in Requests, ReleaseInvite(r) PROVE Goal
    <2>1. Modest(r) /\ granted' = granted /\ unacked' = unacked /\ request[r].invited
          /\ request' = [request EXCEPT ![r] = Unasked]
      BY <1>0, <1>4, RequestMoves DEF ReleaseInvite, Answer, InvitedOK, histories
    <2>2. \A s \in Requests : ~request'[s].invited
      BY <1>0, <2>1 DEF HolderOK, Unasked
    <2>3. granted \subseteq unacked /\ invite.status = "accepted"
      BY <2>1 DEF HolderOK
    <2> QED BY <2>1, <2>2, <2>3 DEF HolderOK, histories
  <1>5. ASSUME NEW r \in Requests, ClaimInvite(r) PROVE Goal
    <2>1. granted' = granted /\ unacked' = unacked /\ UNCHANGED histories
      BY <1>5 DEF ClaimInvite, histories
    <2>2. CASE Modest(r) /\ invite' = invite
      BY <2>1, <2>2, HolderKept
    <2>3. ASSUME Redeemable, invite' = [invite EXCEPT !.status = "accepted"],
                 NEW x \in RequestState, Moves(r, x)
          PROVE  Goal
      <3>1. invite.status = "pending" /\ invite'.status = "accepted" /\ granted \subseteq unacked
            /\ \A s \in Requests : ~request[s].invited
        BY <1>0, <2>3 DEF Redeemable, HolderOK
      <3>2. \A s \in Requests : s # r => ~request'[s].invited
        BY <1>0, <2>3, <3>1 DEF Moves
      <3> QED BY <2>1, <3>1, <3>2 DEF HolderOK
    <2> QED BY <1>5, <2>2, <2>3, ClaimMoves
  <1>6. CASE revokeInvite
    <2>1. request' = request /\ granted' = granted /\ unacked' = unacked /\ UNCHANGED histories
      BY <1>6 DEF revokeInvite, histories
    <2>2. \/ invite'.status = invite.status
          \/ invite.status = "pending" /\ invite'.status = "revoked"
      BY <1>0, <1>6 DEF revokeInvite, Redeemable
    <2> QED BY <2>1, <2>2 DEF HolderOK
  <1>7. CASE UNCHANGED memberVars
    BY <1>7 DEF memberVars, histories, HolderOK
  <1> QED BY <1>1, <1>2, <1>3, <1>4, <1>5, <1>6, <1>7 DEF MemberNext

\* One request at most holds the invite, which has granted nothing that was acknowledged as long as
\* it is held or pending.
THEOREM HoldersAreAlone == MemberSpec => []HolderOK
  <1>1. MemberInv /\ InviteInv /\ HolderOK /\ [MemberNext]_memberVars => HolderOK'
    BY HolderStep
  <1> QED BY <1>1, MemberInitInv, MemberInvHolds, PTL DEF MemberSpec

\* ... so that it grants nothing after a membership that was acknowledged, none without a claim, and
\* none from a revocation on.
THEOREM InvitesAreSpentOnce == MemberSpec => InviteIsSpentOnce
  <1>1. MemberInv /\ InviteInv /\ HolderOK /\ [MemberNext]_memberVars =>
          [/\ UNCHANGED histories \/ (granted \subseteq unacked /\ invite.status = "accepted")
           /\ invite.status = "revoked" => invite'.status = "revoked"]_memberVars
    BY HolderStep
  <1> QED BY <1>1, HoldersAreAlone, MemberInvHolds, PTL DEF MemberSpec, InviteIsSpentOnce

-----------------------------------------------------------------------------
(* Deliveries.                                                               *)

\* Arrivals that have not given their claim up.
AtWork == {q \in Posts : post[q].phase \in {"working", "forgetting"}}

\* While the store answers, one arrival at most is at work; it has the claim and is the first under it.
OneAtWork ==
    ~unsure => /\ \A q, r \in AtWork : q = r
               /\ AtWork # {} => claim = "held" /\ processed = 0
               /\ processed <= 1

DeliveryInv == DeliveryTypeOK /\ OneAtWork

LEMMA DeliveryInitInv ==
    DeliveryInit => DeliveryInv
  <1> SUFFICES ASSUME DeliveryInit PROVE DeliveryInv
    OBVIOUS
  <1>1. AtWork = {}
    BY DEF DeliveryInit, AtWork
  <1>2. post \in [Posts -> [phase : PostPhases, box : Boxes]]
    BY DEF DeliveryInit, PostPhases
  <1>3. DeliveryTypeOK
    <2>1. seen \in [Boxes -> BOOLEAN] /\ unsure \in BOOLEAN
      BY Zenon DEF DeliveryInit
    <2>2. claim \in {"none", "held", "expired"} /\ processed \in 0..2
      BY DEF DeliveryInit
    <2> QED BY <1>2, <2>1, <2>2, Zenon DEF DeliveryTypeOK
  <1> QED BY <1>1, <1>3 DEF DeliveryInit, DeliveryInv, OneAtWork

\* Where an arrival goes, no other does.
LEMMA PostGone ==
    ASSUME DeliveryTypeOK, NEW q \in Posts, NEW phase \in PostPhases, PostGoes(q, phase)
    PROVE  /\ post' \in [Posts -> [phase : PostPhases, box : Boxes]]
           /\ \A r \in Posts : post'[r].phase = IF r = q THEN phase ELSE post[r].phase
           /\ phase \notin {"working", "forgetting"} => AtWork' = AtWork \ {q}
           /\ phase \in {"working", "forgetting"} => AtWork' = AtWork \cup {q}
  <1>0. post \in [Posts -> [phase : PostPhases, box : Boxes]]
    BY DEF DeliveryTypeOK
  <1>1. post' \in [Posts -> [phase : PostPhases, box : Boxes]]
    BY <1>0 DEF PostGoes
  <1>2. \A r \in Posts : post'[r].phase = IF r = q THEN phase ELSE post[r].phase
    BY <1>0 DEF PostGoes
  <1> QED BY <1>1, <1>2 DEF AtWork

\* Bounded or not, the row, the memories and the arrivals keep their types.
LEMMA DeliveryTypeStep ==
    ASSUME DeliveryTypeOK, [DeliveryNext]_deliveryVars
    PROVE  DeliveryTypeOK'
  <1>0. /\ seen \in [Boxes -> BOOLEAN] /\ post \in [Posts -> [phase : PostPhases, box : Boxes]]
        /\ claim \in {"none", "held", "expired"} /\ processed \in 0..2 /\ unsure \in BOOLEAN
    BY DEF DeliveryTypeOK
  <1>1. ASSUME NEW q \in Posts, Post(q) PROVE DeliveryTypeOK'
    <2>1. PICK b \in Boxes : /\ seen' = [seen EXCEPT ![b] = TRUE]
                             /\ post' = [post EXCEPT ![q].phase = "claiming", ![q].box = b]
      BY <1>1 DEF Post
    <2>2. [post[q] EXCEPT !.phase = "claiming", !.box = b] \in [phase : PostPhases, box : Boxes]
      BY <1>0 DEF PostPhases
    <2>3. post' = [post EXCEPT ![q] = [post[q] EXCEPT !.phase = "claiming", !.box = b]]
      BY <1>0, <2>1
    <2>4. post' \in [Posts -> [phase : PostPhases, box : Boxes]]
      BY <1>0, <2>2, <2>3, Zenon
    <2>5. seen' \in [Boxes -> BOOLEAN]
      BY <1>0, <2>1
    <2> QED BY <1>0, <1>1, <2>4, <2>5 DEF Post, DeliveryTypeOK
  <1>2. ASSUME NEW q \in Posts, claimWebhookDelivery(q) PROVE DeliveryTypeOK'
    <2>1. post' \in [Posts -> [phase : PostPhases, box : Boxes]]
      BY <1>2, PostGone DEF claimWebhookDelivery, PostPhases
    <2>2. seen' \in [Boxes -> BOOLEAN] /\ claim' \in {"none", "held", "expired"} /\ processed' \in 0..2
      BY <1>0, <1>2 DEF claimWebhookDelivery
    <2>3. unsure' \in BOOLEAN
      BY <1>0, <1>2, Zenon DEF claimWebhookDelivery
    <2> QED BY <2>1, <2>2, <2>3 DEF DeliveryTypeOK
  <1>3. ASSUME NEW q \in Posts, WorkDone(q) \/ abandonDelivery(q) \/ releaseWebhookDelivery(q) \/ RestEnds(q)
        PROVE  DeliveryTypeOK'
    <2>1. post' \in [Posts -> [phase : PostPhases, box : Boxes]]
      BY <1>3, PostGone DEF WorkDone, abandonDelivery, releaseWebhookDelivery, RestEnds, PostPhases
    <2>2. seen' \in [Boxes -> BOOLEAN]
      BY <1>0, <1>3 DEF WorkDone, abandonDelivery, releaseWebhookDelivery, RestEnds
    <2>3. claim' \in {"none", "held", "expired"} /\ processed' \in 0..2
      BY <1>0, <1>3 DEF WorkDone, abandonDelivery, releaseWebhookDelivery, RestEnds
    <2>4. unsure' = unsure
      BY <1>3 DEF WorkDone, abandonDelivery, releaseWebhookDelivery, RestEnds
    <2> QED BY <1>0, <2>1, <2>2, <2>3, <2>4 DEF DeliveryTypeOK
  <1>4. ASSUME NEW b \in Boxes, BoxDies(b) \/ MemoryFades(b) PROVE DeliveryTypeOK'
    <2>1. post' \in [Posts -> [phase : PostPhases, box : Boxes]]
      BY <1>0, <1>4 DEF BoxDies, MemoryFades, PostPhases
    <2> QED BY <1>0, <1>4, <2>1 DEF BoxDies, MemoryFades, DeliveryTypeOK
  <1>5. CASE ClaimRunsOut \/ SweepExpired \/ UNCHANGED deliveryVars
    BY <1>0, <1>5 DEF ClaimRunsOut, SweepExpired, deliveryVars, DeliveryTypeOK
  <1> QED BY <1>1, <1>2, <1>3, <1>4, <1>5 DEF DeliveryNext

\* Work begins when nobody is at work, and ends before its claim does.
LEMMA DeliveryStep ==
    ASSUME Bounded, DeliveryInv, [DeliveryNext]_deliveryVars
    PROVE  DeliveryInv'
  <1>0. DeliveryTypeOK /\ DeliveryTypeOK' /\ claim \in {"none", "held", "expired"} /\ processed \in 0..2
    BY DeliveryTypeStep DEF DeliveryInv, DeliveryTypeOK
  <1>1. ASSUME NEW q \in Posts, NEW phase \in PostPhases, PostGoes(q, phase)
        PROVE  /\ phase \notin {"working", "forgetting"} => AtWork' = AtWork \ {q}
               /\ phase \in {"working", "forgetting"} => AtWork' = AtWork \cup {q}
    BY <1>0, <1>1, PostGone
  <1>2. ASSUME NEW q \in Posts, Post(q) PROVE DeliveryInv'
    <2>1. PICK b \in Boxes : post' = [post EXCEPT ![q].phase = "claiming", ![q].box = b]
      BY <1>2 DEF Post
    <2>2. AtWork' = AtWork
      BY <1>0, <1>2, <2>1 DEF Post, AtWork, DeliveryTypeOK
    <2> QED BY <1>0, <1>2, <2>2 DEF Post, DeliveryInv, OneAtWork
  <1>3. ASSUME NEW q \in Posts, claimWebhookDelivery(q) PROVE DeliveryInv'
    <2>1. CASE Claimable /\ claim' = "held" /\ processed' = 0 /\ PostGoes(q, "working") /\ unsure' = unsure
      <3>1. ~unsure => AtWork = {}
        BY <2>1 DEF DeliveryInv, OneAtWork, Claimable
      <3>2. AtWork' = AtWork \cup {q}
        BY <1>1, <2>1 DEF PostPhases
      <3> QED BY <1>0, <2>1, <3>1, <3>2 DEF DeliveryInv, OneAtWork
    <2>2. CASE PostGoes(q, "idle") /\ UNCHANGED <<claim, processed, unsure>>
      <3>1. AtWork' \subseteq AtWork
        BY <1>1, <2>2 DEF PostPhases
      <3> QED BY <1>0, <2>2, <3>1 DEF DeliveryInv, OneAtWork
    <2>3. CASE unsure' = TRUE
      BY <1>0, <2>3 DEF DeliveryInv, OneAtWork
    <2> QED BY <1>3, <2>1, <2>2, <2>3 DEF claimWebhookDelivery
  <1>4. ASSUME NEW q \in Posts, WorkDone(q) PROVE DeliveryInv'
    <2>1. /\ q \in AtWork /\ AtWork' = AtWork \ {q} /\ UNCHANGED <<claim, unsure>>
          /\ processed' = (IF processed < 2 THEN processed + 1 ELSE 2)
      BY <1>1, <1>4 DEF WorkDone, AtWork, PostPhases
    <2>2. ~unsure => AtWork' = {} /\ processed' = 1
      BY <2>1 DEF DeliveryInv, OneAtWork
    <2> QED BY <1>0, <2>1, <2>2 DEF DeliveryInv, OneAtWork
  <1>5. ASSUME NEW q \in Posts, abandonDelivery(q) PROVE DeliveryInv'
    <2>1. q \in AtWork /\ AtWork' = AtWork \cup {q} /\ UNCHANGED <<claim, processed, unsure>>
      BY <1>1, <1>5 DEF abandonDelivery, AtWork, PostPhases
    <2> QED BY <1>0, <2>1 DEF DeliveryInv, OneAtWork
  <1>6. ASSUME NEW q \in Posts, releaseWebhookDelivery(q) PROVE DeliveryInv'
    <2>1. /\ q \in AtWork /\ AtWork' = AtWork \ {q} /\ UNCHANGED unsure
          /\ \/ claim' = "none" /\ processed' = 0
             \/ UNCHANGED <<claim, processed>>
      BY <1>1, <1>6 DEF releaseWebhookDelivery, AtWork, PostPhases
    <2>2. ~unsure => AtWork' = {}
      BY <2>1 DEF DeliveryInv, OneAtWork
    <2> QED BY <1>0, <2>1, <2>2 DEF DeliveryInv, OneAtWork
  <1>11. ASSUME NEW q \in Posts, RestEnds(q) PROVE DeliveryInv'
    <2>1. AtWork' \subseteq AtWork /\ UNCHANGED <<claim, processed, unsure>>
      BY <1>1, <1>11 DEF RestEnds, PostPhases
    <2> QED BY <1>0, <2>1 DEF DeliveryInv, OneAtWork
  <1>7. ASSUME NEW b \in Boxes, BoxDies(b) \/ MemoryFades(b) PROVE DeliveryInv'
    <2>1. \A q \in Posts : post'[q].phase \in {post[q].phase, "idle"}
      BY <1>0, <1>7 DEF BoxDies, MemoryFades, PostPhases, DeliveryTypeOK
    <2>2. AtWork' \subseteq AtWork
      BY <2>1 DEF AtWork
    <2> QED BY <1>0, <1>7, <2>2 DEF BoxDies, MemoryFades, DeliveryInv, OneAtWork
  <1>8. CASE ClaimRunsOut
    <2>1. AtWork = {} /\ AtWork' = AtWork
      BY <1>8 DEF ClaimRunsOut, AtWork
    <2> QED BY <1>0, <1>8, <2>1 DEF ClaimRunsOut, DeliveryInv, OneAtWork
  <1>9. CASE SweepExpired
    <2>1. AtWork' = AtWork
      BY <1>9 DEF SweepExpired, AtWork
    <2> QED BY <1>0, <1>9, <2>1 DEF SweepExpired, DeliveryInv, OneAtWork
  <1>10. CASE UNCHANGED deliveryVars
    BY <1>0, <1>10 DEF deliveryVars, DeliveryInv, OneAtWork, AtWork
  <1> QED BY <1>2, <1>3, <1>4, <1>5, <1>6, <1>7, <1>8, <1>9, <1>10, <1>11 DEF DeliveryNext

\* The memories, the row of the id and the arrivals keep their types, however long work lasts.
THEOREM DeliveryTypeCorrect == DeliverySpec => []DeliveryTypeOK
  <1>1. DeliveryInit => DeliveryTypeOK
    BY DeliveryInitInv DEF DeliveryInv
  <1> QED BY <1>1, DeliveryTypeStep, PTL DEF DeliverySpec

\* The inductive invariant: while the store answers, one arrival at most is at work and has not
\* abandoned the id, and then it is the first under its claim.
THEOREM DeliveryInvHolds == Bounded /\ DeliverySpec => []DeliveryInv
  <1>1. CASE Bounded
    <2>1. DeliveryInv /\ [DeliveryNext]_deliveryVars => DeliveryInv'
      BY <1>1, DeliveryStep
    <2> QED BY <2>1, DeliveryInitInv, PTL DEF DeliverySpec
  <1>2. CASE ~Bounded
    BY <1>2, PTL
  <1> QED BY <1>1, <1>2

\* For any instances and arrivals whose work ends before its claim: while the store answers, an id
\* is worked on once under a claim, although the release takes the row by its id alone and the
\* rest of an abandoned arrival's work goes on.
THEOREM DeliveriesAreProcessedOnce == Bounded /\ DeliverySpec => []ProcessedOnce
  <1>1. ASSUME DeliveryInv PROVE ProcessedOnce
    <2> DEFINE W == {q \in Posts : post[q].phase = "working"}
    <2>1. processed \in 0..2 /\ W \subseteq AtWork
      BY <1>1 DEF DeliveryInv, DeliveryTypeOK, AtWork
    <2>2. CASE W = {}
      <3>1. Cardinality(W) = 0
        BY <2>2, FS_EmptySet
      <3> QED BY <1>1, <2>1, <3>1 DEF DeliveryInv, OneAtWork, ProcessedOnce
    <2>3. CASE W # {} /\ ~unsure
      <3>1. PICK q \in W : W = {q}
        BY <1>1, <2>1, <2>3 DEF DeliveryInv, OneAtWork
      <3>2. Cardinality(W) = 1
        BY <3>1, FS_Singleton
      <3>3. processed = 0
        BY <1>1, <2>1, <2>3 DEF DeliveryInv, OneAtWork
      <3> QED BY <3>2, <3>3 DEF ProcessedOnce
    <2> QED BY <2>2, <2>3 DEF ProcessedOnce
  <1> QED BY <1>1, DeliveryInvHolds, PTL
-----------------------------------------------------------------------------
(* The allowance.                                                            *)

\* The hits never outnumber the allowance; what a payer has read was so too; a payer without a slot
\* has no hit of its own, and no timestamp is ahead of the clock.
PayerOK(p) ==
    /\ payer[p].stamp <= today
    /\ payer[p].phase \in {"idle", "charging"} => \A t \in Times : <<t, p>> \notin hits

SlotsOK(t) == t > today - Window => Cardinality(Holders(t)) <= Cardinality(Stamped(hits, t))

\* A hit is no younger than the row it stands in, so a row that may be purged has none that counts.
WrittenOK ==
    /\ updatedAt <= today
    /\ \A hit \in hits : hit[1] <= updatedAt

QuotaInv ==
    /\ QuotaTypeOK
    /\ Cardinality(hits) <= Allowance
    /\ WrittenOK
    /\ \A p \in Payers : PayerOK(p)
    /\ \A t \in Times : SlotsOK(t)

LEMMA HitsFinite ==
    ASSUME NEW bag \in HitBags
    PROVE  /\ IsFiniteSet(bag) /\ Cardinality(bag) \in Nat
           /\ \A now : IsFiniteSet(recent(bag, now)) /\ Cardinality(recent(bag, now)) <= Cardinality(bag)
           /\ \A t : IsFiniteSet(Stamped(bag, t)) /\ Cardinality(Stamped(bag, t)) \in Nat
  <1>1. IsFiniteSet(Times)
    BY QuotaAssumption, FS_Interval DEF Times
  <1>2. IsFiniteSet(Times \X Payers)
    BY <1>1, QuotaAssumption, FS_Product
  <1>3. IsFiniteSet(bag)
    BY <1>2, FS_Subset DEF HitBags
  <1>4. \A now : recent(bag, now) \subseteq bag
    BY DEF recent
  <1>5. \A t : Stamped(bag, t) \subseteq bag
    BY DEF Stamped
  <1> QED BY <1>3, <1>4, <1>5, FS_Subset, FS_CardinalityType

LEMMA HoldersFinite ==
    ASSUME NEW t
    PROVE  IsFiniteSet(Holders(t)) /\ Cardinality(Holders(t)) \in Nat
  <1>1. Holders(t) \subseteq Payers
    BY DEF Holders
  <1> QED BY <1>1, QuotaAssumption, FS_Subset, FS_CardinalityType

LEMMA QuotaInitInv ==
    QuotaInit => QuotaInv
  <1> SUFFICES ASSUME QuotaInit PROVE QuotaInv
    OBVIOUS
  <1>1. hits = {} /\ hits \in HitBags /\ 0 \in Times /\ today = 0
    BY QuotaAssumption DEF QuotaInit, NoHits, HitBags, Times
  <1>2. QuotaTypeOK
    BY <1>1 DEF QuotaInit, QuotaTypeOK, NoHits, PayerPhases
  <1>3. Cardinality(hits) = 0 /\ Allowance \in Nat
    BY <1>1, FS_EmptySet, QuotaAssumption
  <1>4. ASSUME NEW t \in Times PROVE SlotsOK(t)
    <2>1. Holders(t) = {} /\ Stamped(hits, t) = {}
      BY <1>1 DEF QuotaInit, Holders, Stamped
    <2> QED BY <2>1, FS_EmptySet DEF SlotsOK
  <1>5. ASSUME NEW p \in Payers PROVE PayerOK(p)
    BY <1>1 DEF QuotaInit, PayerOK
  <1>6. WrittenOK
    BY <1>1 DEF QuotaInit, WrittenOK
  <1> QED BY <1>2, <1>3, <1>4, <1>5, <1>6 DEF QuotaInv

\* What a step writes to its payer.
LEMMA PayerSet ==
    ASSUME QuotaTypeOK, NEW p \in Payers, NEW phase \in PayerPhases, NEW stamp \in Times, NEW saw \in HitBags,
           payer' = [payer EXCEPT ![p] = [phase |-> phase, stamp |-> stamp, saw |-> saw]]
    PROVE  /\ payer' \in [Payers -> [phase : PayerPhases, stamp : Times, saw : HitBags]]
           /\ \A q \in Payers \ {p} : payer'[q] = payer[q]
           /\ payer'[p].phase = phase /\ payer'[p].stamp = stamp /\ payer'[p].saw = saw
  BY DEF QuotaTypeOK

\* A step that stores nothing and takes no slot: p keeps its timestamp if it keeps its slot.
LEMMA StoreKept ==
    ASSUME QuotaInv, NEW p \in Payers, NEW phase \in PayerPhases, NEW stamp \in Times, NEW saw \in HitBags,
           payer' = [payer EXCEPT ![p] = [phase |-> phase, stamp |-> stamp, saw |-> saw]],
           UNCHANGED <<hits, updatedAt, today>>,
           stamp <= today,
           phase \in {"idle", "charging"} => payer[p].phase \in {"idle", "charging"},
           phase \in {"charged", "refunding"} =>
               payer[p].phase \in {"charged", "refunding"} /\ payer[p].stamp = stamp
    PROVE  QuotaInv'
  <1>1. /\ payer' \in [Payers -> [phase : PayerPhases, stamp : Times, saw : HitBags]]
        /\ \A q \in Payers \ {p} : payer'[q] = payer[q]
        /\ payer'[p].phase = phase /\ payer'[p].stamp = stamp
    BY PayerSet DEF QuotaInv
  <1>2. QuotaTypeOK' /\ Cardinality(hits') <= Allowance
    BY <1>1 DEF QuotaInv, QuotaTypeOK
  <1>3. ASSUME NEW q \in Payers PROVE PayerOK(q)'
    BY <1>1 DEF QuotaInv, PayerOK
  <1>4. ASSUME NEW t \in Times PROVE SlotsOK(t)'
    <2>1. Holders(t)' \subseteq Holders(t)
      BY <1>1 DEF Holders
    <2>2. Cardinality(Holders(t)') <= Cardinality(Holders(t)) /\ Cardinality(Holders(t)') \in Nat
      BY <2>1, HoldersFinite, FS_Subset, FS_CardinalityType
    <2>3. hits' = hits /\ today' = today /\ SlotsOK(t) /\ hits \in HitBags
      BY DEF QuotaInv, QuotaTypeOK
    <2>4. Cardinality(Stamped(hits, t)) \in Nat
      BY <2>3, HitsFinite
    <2>5. Stamped(hits, t)' = Stamped(hits, t)
      BY <2>3 DEF Stamped
    <2> QED BY <2>2, <2>3, <2>4, <2>5, HoldersFinite DEF SlotsOK
  <1>5. WrittenOK'
    BY DEF QuotaInv, WrittenOK
  <1> QED BY <1>2, <1>3, <1>4, <1>5 DEF QuotaInv

\* What PayerGoes writes.
LEMMA PayerMoves ==
    ASSUME QuotaTypeOK, NEW p \in Payers, NEW phase \in PayerPhases, PayerGoes(p, phase)
    PROVE  payer' = [payer EXCEPT ![p] = [phase |-> phase,
                                          stamp |-> IF phase = "done" THEN 0 ELSE payer[p].stamp,
                                          saw   |-> NoHits]]
  BY DEF PayerGoes

\* A charge that commits: its hit is new, and every counted timestamp is kept.
LEMMA ChargeStep ==
    ASSUME QuotaInv, NEW p \in Payers, CommitConsume(p), allowed(payer[p].saw, payer[p].stamp)
    PROVE  QuotaInv'
  <1>0. PICK now \in Times : now = payer[p].stamp
    BY DEF QuotaInv, QuotaTypeOK
  <1>1. /\ QuotaTypeOK /\ hits \in HitBags /\ today \in Times
        /\ payer[p].saw = hits /\ payer[p].phase = "charging" /\ now <= today /\ today' = today
        /\ updatedAt' = today
        /\ \A t \in Times : <<t, p>> \notin hits
    BY <1>0 DEF QuotaInv, QuotaTypeOK, PayerOK, CommitConsume, WindowStands
  <1>2. PICK kept \in HitBags : kept = recent(hits, now)
    BY <1>1 DEF recent, HitBags
  <1>3. /\ hits' = kept \cup {<<now, p>>} /\ <<now, p>> \notin kept
        /\ Cardinality(kept) < Allowance
    BY <1>0, <1>1, <1>2 DEF CommitConsume, Charged, allowed, recent
  <1>4. IsFiniteSet(kept) /\ Cardinality(kept) \in Nat
    BY HitsFinite
  <1>5. hits' \in HitBags /\ Cardinality(hits') <= Allowance
    <2>1. hits' \in HitBags
      BY <1>0, <1>2, <1>3 DEF HitBags
    <2>2. Cardinality(hits') = Cardinality(kept) + 1
      BY <1>3, <1>4, FS_AddElement
    <2> QED BY <1>3, <1>4, <2>1, <2>2, QuotaAssumption
  <1>6. /\ payer' \in [Payers -> [phase : PayerPhases, stamp : Times, saw : HitBags]]
        /\ \A q \in Payers \ {p} : payer'[q] = payer[q]
        /\ \/ payer'[p].phase = "charged" /\ payer'[p].stamp = now
           \/ payer'[p].phase = "done" /\ payer'[p].stamp = 0
    <2>1. NoHits \in HitBags /\ 0 \in Times /\ "charged" \in PayerPhases /\ "done" \in PayerPhases
      BY QuotaAssumption DEF NoHits, HitBags, Times, PayerPhases
    <2>2. CASE PayerGoes(p, "charged")
      <3>1. payer' = [payer EXCEPT ![p] = [phase |-> "charged", stamp |-> now, saw |-> NoHits]]
        BY <1>0, <1>1, <2>1, <2>2, PayerMoves
      <3> QED BY <1>1, <2>1, <3>1, PayerSet
    <2>3. CASE PayerGoes(p, "done")
      <3>1. payer' = [payer EXCEPT ![p] = [phase |-> "done", stamp |-> 0, saw |-> NoHits]]
        BY <1>0, <1>1, <2>1, <2>3, PayerMoves
      <3> QED BY <1>1, <2>1, <3>1, PayerSet
    <2> QED BY <2>2, <2>3 DEF CommitConsume
  <1>7. QuotaTypeOK'
    BY <1>1, <1>5, <1>6 DEF QuotaTypeOK
  <1>8. ASSUME NEW q \in Payers PROVE PayerOK(q)'
    <2>1. CASE q = p
      BY <1>1, <1>6, <2>1, QuotaAssumption DEF PayerOK, Times
    <2>2. CASE q # p
      <3>1. PayerOK(q) /\ payer'[q] = payer[q]
        BY <1>6, <2>2 DEF QuotaInv
      <3>2. \A t \in Times : <<t, q>> \in hits' => <<t, q>> \in hits
        BY <1>2, <1>3, <2>2 DEF recent
      <3> QED BY <1>1, <3>1, <3>2 DEF PayerOK
    <2> QED BY <2>1, <2>2
  <1>9. ASSUME NEW t \in Times, t > today - Window
        PROVE  Cardinality(Holders(t)') <= Cardinality(Stamped(hits', t))
    <2>1. Cardinality(Holders(t)) <= Cardinality(Stamped(hits, t))
      BY <1>9 DEF QuotaInv, SlotsOK
    <2>2. now \in Int /\ t \in Int /\ today \in Int /\ Window \in Int
      BY <1>1, QuotaAssumption DEF Times
    <2>3. ASSUME NEW hit \in Stamped(hits, t) PROVE hit \in Stamped(hits', t)
      <3>1. hit \in hits /\ hit[1] = t /\ t > now - Window
        BY <1>1, <1>9, <2>2, <2>3 DEF Stamped
      <3>2. hit \in kept
        BY <1>2, <3>1 DEF recent
      <3> QED BY <1>3, <3>1, <3>2 DEF Stamped
    <2>4. PICK before : before = Stamped(hits, t)
      OBVIOUS
    <2>5. PICK after : after = Stamped(hits', t)
      OBVIOUS
    <2>6. /\ IsFiniteSet(before) /\ IsFiniteSet(after) /\ before \subseteq after
          /\ Cardinality(before) \in Nat /\ Cardinality(after) \in Nat
          /\ Cardinality(before) <= Cardinality(after)
      <3>1. IsFiniteSet(before) /\ Cardinality(before) \in Nat
        BY <1>1, <2>4, HitsFinite
      <3>2. IsFiniteSet(after) /\ Cardinality(after) \in Nat
        BY <1>5, <2>5, HitsFinite
      <3>3. before \subseteq after
        BY <2>3, <2>4, <2>5
      <3> QED BY <3>1, <3>2, <3>3, FS_Subset
    <2>7. IsFiniteSet(Holders(t)) /\ Cardinality(Holders(t)) \in Nat
      BY HoldersFinite
    <2>8. CASE t = now /\ payer'[p].phase = "charged"
      <3>1. Holders(t)' = Holders(t) \cup {p} /\ p \notin Holders(t)
        BY <1>1, <1>6, <2>8 DEF Holders
      <3>2. Cardinality(Holders(t)') = Cardinality(Holders(t)) + 1
        BY <2>7, <3>1, FS_AddElement
      <3>3. PICK hit : hit = <<now, p>>
        OBVIOUS
      <3>4. hit \in after /\ hit \notin before
        BY <1>1, <1>3, <2>4, <2>5, <2>8, <3>3 DEF Stamped
      <3>5. before \cup {hit} \subseteq after
        BY <2>6, <3>4
      <3>6. Cardinality(before \cup {hit}) = Cardinality(before) + 1
        BY <2>6, <3>4, FS_AddElement
      <3>7. Cardinality(before \cup {hit}) <= Cardinality(after)
        BY <2>6, <3>5, FS_Subset
      <3> QED BY <2>1, <2>4, <2>5, <2>6, <2>7, <3>2, <3>6, <3>7
    <2>9. CASE ~(t = now /\ payer'[p].phase = "charged")
      <3>1. Holders(t)' = Holders(t)
        BY <1>1, <1>6, <2>9 DEF Holders
      <3> QED BY <2>1, <2>4, <2>5, <2>6, <2>7, <3>1
    <2> QED BY <2>8, <2>9
  <1>10. ASSUME NEW t \in Times PROVE SlotsOK(t)'
    <2>1. Stamped(hits, t)' = Stamped(hits', t)
      BY DEF Stamped
    <2> QED BY <1>1, <1>9, <2>1 DEF SlotsOK
  <1>11. WrittenOK'
    <2>1. /\ today \in Int /\ updatedAt \in Int /\ updatedAt <= today
          /\ \A hit \in hits : hit[1] <= updatedAt /\ hit[1] \in Int
      BY <1>1 DEF QuotaInv, QuotaTypeOK, WrittenOK, HitBags, Times
    <2>2. \A hit \in hits' : hit \in hits \/ hit[1] = now
      BY <1>2, <1>3 DEF recent
    <2>3. \A hit \in hits' : hit[1] <= today
      BY <1>1, <2>1, <2>2
    <2> QED BY <1>1, <2>1, <2>3 DEF WrittenOK
  <1> QED BY <1>5, <1>7, <1>8, <1>10, <1>11 DEF QuotaInv

\* A refund that commits: one hit of the timestamp goes, and with it one who holds a slot there.
LEMMA RefundStep ==
    ASSUME QuotaInv, NEW p \in Payers, CommitRefund(p)
    PROVE  QuotaInv'
  <1>0. PICK ts \in Times : ts = payer[p].stamp
    BY DEF QuotaInv, QuotaTypeOK
  <1>1. /\ QuotaTypeOK /\ hits \in HitBags /\ today \in Times
        /\ payer[p].phase = "refunding" /\ today' = today
        /\ updatedAt \in Times /\ updatedAt' \in {updatedAt, today}
        /\ hits' = removeHit(hits, ts) /\ PayerGoes(p, "done")
    BY <1>0 DEF QuotaInv, QuotaTypeOK, CommitRefund, WindowStands
  <1>2. hits' \subseteq hits
    BY <1>1 DEF removeHit
  <1>3. hits' \in HitBags /\ Cardinality(hits') <= Allowance
    <2>1. hits' \in HitBags
      BY <1>1, <1>2 DEF HitBags
    <2>2. Cardinality(hits') <= Cardinality(hits) /\ Cardinality(hits') \in Nat /\ Cardinality(hits) \in Nat
      BY <1>1, <1>2, <2>1, HitsFinite, FS_Subset
    <2> QED BY <2>1, <2>2, QuotaAssumption DEF QuotaInv
  <1>4. /\ payer' \in [Payers -> [phase : PayerPhases, stamp : Times, saw : HitBags]]
        /\ \A q \in Payers \ {p} : payer'[q] = payer[q]
        /\ payer'[p].phase = "done" /\ payer'[p].stamp = 0
    <2>1. NoHits \in HitBags /\ 0 \in Times /\ "done" \in PayerPhases
      BY QuotaAssumption DEF NoHits, HitBags, Times, PayerPhases
    <2>2. payer' = [payer EXCEPT ![p] = [phase |-> "done", stamp |-> 0, saw |-> NoHits]]
      BY <1>1, <2>1, PayerMoves
    <2> QED BY <1>1, <2>1, <2>2, PayerSet
  <1>5. QuotaTypeOK'
    BY <1>1, <1>3, <1>4 DEF QuotaTypeOK
  <1>6. ASSUME NEW q \in Payers PROVE PayerOK(q)'
    BY <1>1, <1>2, <1>4, QuotaAssumption DEF QuotaInv, PayerOK, Times
  <1>7. ASSUME NEW t \in Times, t > today - Window
        PROVE  Cardinality(Holders(t)') <= Cardinality(Stamped(hits', t))
    <2>1. Cardinality(Holders(t)) <= Cardinality(Stamped(hits, t))
      BY <1>7 DEF QuotaInv, SlotsOK
    <2>2. IsFiniteSet(Holders(t)) /\ Cardinality(Holders(t)) \in Nat
      BY HoldersFinite
    <2>3. IsFiniteSet(Stamped(hits, t)) /\ Cardinality(Stamped(hits, t)) \in Nat
      BY <1>1, HitsFinite
    <2>4. CASE t # ts
      <3>1. Stamped(hits', t) = Stamped(hits, t)
        <4>1. ASSUME NEW hit \in hits, hit[1] = t PROVE hit \in hits'
          <5>1. hit \notin Stamped(hits, ts)
            BY <2>4, <4>1 DEF Stamped
          <5>2. CASE Stamped(hits, ts) = {}
            BY <1>1, <5>2 DEF removeHit
          <5>3. CASE Stamped(hits, ts) # {}
            <6>1. PICK gone \in Stamped(hits, ts) : hits' = hits \ {gone}
              BY <1>1, <5>3 DEF removeHit
            <6> QED BY <5>1, <6>1
          <5> QED BY <5>2, <5>3
        <4> QED BY <1>2, <4>1 DEF Stamped
      <3>2. Holders(t)' = Holders(t)
        BY <1>0, <1>1, <1>4, <2>4 DEF Holders
      <3> QED BY <2>1, <3>1, <3>2
    <2>5. CASE t = ts
      <3>1. p \in Holders(t) /\ Holders(t)' = Holders(t) \ {p}
        BY <1>0, <1>1, <1>4, <2>5 DEF Holders
      <3>2. Cardinality(Holders(t)') = Cardinality(Holders(t)) - 1
        BY <2>2, <3>1, FS_RemoveElement
      <3>3. CASE Stamped(hits, ts) = {}
        <4>1. Stamped(hits', t) = Stamped(hits, t)
          BY <1>1, <2>5, <3>3 DEF removeHit
        <4> QED BY <2>1, <2>2, <2>3, <3>2, <4>1
      <3>4. CASE Stamped(hits, ts) # {}
        <4>1. PICK gone \in Stamped(hits, ts) : hits' = hits \ {gone}
          BY <1>1, <3>4 DEF removeHit
        <4>2. Stamped(hits', t) = Stamped(hits, t) \ {gone} /\ gone \in Stamped(hits, t)
          BY <2>5, <4>1 DEF Stamped
        <4>3. Cardinality(Stamped(hits', t)) = Cardinality(Stamped(hits, t)) - 1
          BY <2>3, <4>2, FS_RemoveElement
        <4> QED BY <2>1, <2>2, <2>3, <3>2, <4>3
      <3> QED BY <3>3, <3>4
    <2> QED BY <2>4, <2>5
  <1>8. ASSUME NEW t \in Times PROVE SlotsOK(t)'
    <2>1. Stamped(hits, t)' = Stamped(hits', t)
      BY DEF Stamped
    <2> QED BY <1>1, <1>7, <2>1 DEF SlotsOK
  <1>9. WrittenOK'
    <2>1. /\ today \in Int /\ updatedAt \in Int /\ updatedAt <= today
          /\ \A hit \in hits : hit[1] <= updatedAt /\ hit[1] \in Int
      BY <1>1 DEF QuotaInv, WrittenOK, HitBags, Times
    <2>2. \A hit \in hits' : hit[1] <= updatedAt'
      BY <1>1, <1>2, <2>1
    <2> QED BY <1>1, <2>1, <2>2 DEF WrittenOK
  <1> QED BY <1>3, <1>5, <1>6, <1>8, <1>9 DEF QuotaInv

\* A purge: whatever it deletes was written, and so charged, a window ago.
LEMMA PurgeStep ==
    ASSUME QuotaInv, PurgeRow
    PROVE  QuotaInv'
  <1>1. /\ hits \in HitBags /\ today \in Int /\ updatedAt \in Int /\ Window \in Int
        /\ hits' = {} /\ updatedAt < today - Window /\ UNCHANGED <<updatedAt, payer, today>>
        /\ \A hit \in hits : hit[1] <= updatedAt /\ hit[1] \in Int
    BY QuotaAssumption DEF QuotaInv, QuotaTypeOK, WrittenOK, PurgeRow, NoHits, HitBags, Times
  <1>2. QuotaTypeOK' /\ WrittenOK'
    BY <1>1 DEF QuotaInv, QuotaTypeOK, WrittenOK, HitBags
  <1>3. Cardinality(hits') <= Allowance
    BY <1>1, FS_EmptySet, QuotaAssumption
  <1>4. ASSUME NEW p \in Payers PROVE PayerOK(p)'
    BY <1>1 DEF QuotaInv, PayerOK
  <1>5. ASSUME NEW t \in Times PROVE SlotsOK(t)'
    <2>1. CASE t > today - Window
      <3>1. t \in Int
        BY DEF Times
      <3>2. Stamped(hits, t) = {}
        BY <1>1, <2>1, <3>1 DEF Stamped
      <3>3. Cardinality(Holders(t)) <= 0
        BY <2>1, <3>2, FS_EmptySet DEF QuotaInv, SlotsOK
      <3>4. Holders(t)' = Holders(t) /\ Stamped(hits, t)' = {}
        BY <1>1 DEF Holders, Stamped
      <3> QED BY <3>3, <3>4, FS_EmptySet DEF SlotsOK
    <2>2. CASE ~(t > today - Window)
      BY <1>1, <2>2 DEF SlotsOK
    <2> QED BY <2>1, <2>2
  <1> QED BY <1>2, <1>3, <1>4, <1>5 DEF QuotaInv

LEMMA QuotaStep ==
    ASSUME QuotaInv, [QuotaNext]_quotaVars
    PROVE  QuotaInv'
  <1>0. /\ hits \in HitBags /\ today \in Times /\ QuotaTypeOK
        /\ NoHits \in HitBags /\ 0 \in Times /\ \A t \in Times : 0 <= t
        /\ {"charging", "charged", "refunding", "done"} \subseteq PayerPhases
    BY QuotaAssumption DEF QuotaInv, QuotaTypeOK, NoHits, HitBags, Times, PayerPhases
  <1>1. ASSUME NEW p \in Payers PROVE payer[p] \in [phase : PayerPhases, stamp : Times, saw : HitBags]
                                      /\ payer[p].stamp <= today
    BY <1>0, <1>1 DEF QuotaInv, QuotaTypeOK, PayerOK
  <1>2. ASSUME NEW p \in Payers, Consume(p) PROVE QuotaInv'
    <2>1. today <= today
      BY <1>0 DEF Times
    <2> QED BY <1>0, <1>2, <2>1, StoreKept DEF Consume
  <1>3. ASSUME NEW p \in Payers, CommitConsume(p) PROVE QuotaInv'
    <2>1. CASE allowed(payer[p].saw, payer[p].stamp)
      BY <1>3, <2>1, ChargeStep
    <2>2. CASE ~allowed(payer[p].saw, payer[p].stamp)
      <3>1. payer' = [payer EXCEPT ![p] = [phase |-> "done", stamp |-> 0, saw |-> NoHits]]
        BY <1>0, <1>3, <2>2, PayerMoves DEF CommitConsume
      <3>2. UNCHANGED <<hits, updatedAt, today>>
        BY <1>3, <2>2 DEF CommitConsume
      <3> QED BY <1>0, <3>1, <3>2, StoreKept
    <2> QED BY <2>1, <2>2
  <1>4. ASSUME NEW p \in Payers, AskRefund(p) PROVE QuotaInv'
    <2>3. PICK stamp \in Times : stamp = payer[p].stamp /\ stamp <= today
      BY <1>1
    <2>4. payer' = [payer EXCEPT ![p] = [phase |-> "refunding", stamp |-> stamp, saw |-> hits]]
      BY <1>4, <2>3 DEF AskRefund
    <2>5. "refunding" \in PayerPhases /\ payer[p].phase = "charged" /\ UNCHANGED <<hits, updatedAt, today>>
      BY <1>0, <1>4 DEF AskRefund
    <2> QED BY <1>0, <2>3, <2>4, <2>5, StoreKept
  <1>5. ASSUME NEW p \in Payers, CommitRefund(p) PROVE QuotaInv'
    BY <1>5, RefundStep
  <1>6. ASSUME NEW p \in Payers, RetryTransaction(p) PROVE QuotaInv'
    <2>1. [payer[p] EXCEPT !.saw = hits]
            = [phase |-> payer[p].phase, stamp |-> payer[p].stamp, saw |-> hits]
      BY <1>1
    <2>2. payer' = [payer EXCEPT ![p] = [phase |-> payer[p].phase, stamp |-> payer[p].stamp, saw |-> hits]]
      BY <1>0, <1>6, <2>1 DEF RetryTransaction, QuotaTypeOK
    <2> QED BY <1>0, <1>1, <1>6, <2>2, StoreKept DEF RetryTransaction
  <1>7. ASSUME NEW p \in Payers, StoreFails(p) PROVE QuotaInv'
    <2>1. payer' = [payer EXCEPT ![p] = [phase |-> "done", stamp |-> 0, saw |-> NoHits]]
      BY <1>0, <1>7, PayerMoves DEF StoreFails
    <2> QED BY <1>0, <1>7, <2>1, StoreKept DEF StoreFails
  <1>8. CASE QuotaTick
    <2>1. today' \in Times /\ today' = today + 1 /\ UNCHANGED <<hits, updatedAt, payer>>
      BY <1>0, <1>8, QuotaAssumption DEF QuotaTick, Times
    <2>2. ASSUME NEW p \in Payers PROVE PayerOK(p)'
      <3>1. payer[p].stamp \in Int /\ today \in Int
        BY <1>0, <1>1 DEF Times
      <3>2. PayerOK(p) /\ payer' = payer /\ hits' = hits /\ today' = today + 1
        BY <2>1 DEF QuotaInv
      <3>3. payer[p].stamp <= today => payer[p].stamp <= today + 1
        BY <3>1
      <3> QED BY <3>2, <3>3 DEF PayerOK
    <2>3. ASSUME NEW t \in Times PROVE SlotsOK(t)'
      <3>1. t \in Int /\ today \in Int /\ Window \in Int
        BY <1>0, QuotaAssumption DEF Times
      <3>2. Holders(t)' = Holders(t) /\ Stamped(hits, t)' = Stamped(hits, t)
        BY <2>1 DEF Holders, Stamped
      <3> QED BY <2>1, <3>1, <3>2 DEF QuotaInv, SlotsOK
    <2>4. WrittenOK'
      <3>1. updatedAt \in Int /\ today \in Int
        BY <1>0 DEF QuotaInv, QuotaTypeOK, Times
      <3> QED BY <2>1, <3>1 DEF QuotaInv, WrittenOK
    <2> QED BY <2>1, <2>2, <2>3, <2>4 DEF QuotaInv, QuotaTypeOK
  <1>9. CASE PurgeRow
    BY <1>9, PurgeStep
  <1>10. CASE UNCHANGED quotaVars
    <2>1. UNCHANGED <<hits, updatedAt, payer, today>>
      BY <1>10 DEF quotaVars
    <2>2. \A t \in Times : Holders(t)' = Holders(t) /\ Stamped(hits, t)' = Stamped(hits, t)
      BY <2>1 DEF Holders, Stamped
    <2> QED BY <2>1, <2>2 DEF QuotaInv, QuotaTypeOK, PayerOK, SlotsOK, WrittenOK
  <1> QED BY <1>2, <1>3, <1>4, <1>5, <1>6, <1>7, <1>8, <1>9, <1>10 DEF QuotaNext

\* The inductive invariant: no more hits than the allowance, at every live timestamp a hit for each
\* who holds a slot there, and none for a payer that has not been charged.
THEOREM QuotaInvHolds == QuotaSpec => []QuotaInv
  BY QuotaInitInv, QuotaStep, PTL DEF QuotaSpec

\* The bucket, its payers and the clock keep their types.
THEOREM QuotaTypeCorrect == QuotaSpec => []QuotaTypeOK
  <1>1. QuotaInv => QuotaTypeOK
    BY DEF QuotaInv
  <1> QED BY <1>1, QuotaInvHolds, PTL

\* For any payers, allowance and window: a slot that was charged and not given back stays counted
\* while its window lasts, and what is counted stays within the allowance.
THEOREM AllowanceHeld == QuotaSpec => []AllowanceHolds
  <1>1. ASSUME QuotaInv PROVE AllowanceHolds
    <2>1. hits \in HitBags /\ Cardinality(hits) <= Allowance
      BY <1>1 DEF QuotaInv, QuotaTypeOK
    <2>2. /\ Cardinality(hits) \in Nat /\ IsFiniteSet(hits)
          /\ IsFiniteSet(recent(hits, today)) /\ Cardinality(recent(hits, today)) <= Cardinality(hits)
      BY <2>1, HitsFinite
    <2>3. Cardinality(recent(hits, today)) \in Nat
      BY <2>2, FS_CardinalityType
    <2>4. Cardinality(recent(hits, today)) <= Allowance
      BY <2>1, <2>2, <2>3, QuotaAssumption
    <2> QED BY <1>1, <2>4 DEF QuotaInv, SlotsOK, AllowanceHolds
  <1> QED BY <1>1, QuotaInvHolds, PTL
=============================================================================
