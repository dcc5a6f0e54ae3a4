------------------------------ MODULE Membership ------------------------------
(***************************************************************************)
(* Who belongs to a workspace: onboarding, invitations, the team router,   *)
(* transfers of ownership and deletions (core-service contexts/onboarding, *)
(* connectors/sync/fact-analytics.ts, user-profile and settings use cases, *)
(* api-gateway make-team-router.ts), for one workspace from its creation   *)
(* to its end.                                                             *)
(*                                                                         *)
(* A call reads the caller's role, then the target's, then writes, in      *)
(* transactions of their own; in a READ COMMITTED transaction that reads   *)
(* and writes, others commit between the two.                              *)
(***************************************************************************)
EXTENDS FiniteSets

CONSTANTS
    Call,        \* calls under way at once
    User, Invitation,
    Given,       \* the roles invited to and changed to: ADMIN is given to nobody
    None,        \* no role, no invitation, nobody
    Gone         \* the workspace has been deleted

Role == {"OWNER", "MANAGER", "VIEWER"}

\* An invitation row; fresh until expires_at has passed.
Invite == [to : User, by : User, role : Given, status : {"PENDING", "ACCEPTED", "REVOKED"}, fresh : BOOLEAN]

Step == {"idle", "claimed", "role", "remove", "invite", "heir", "transfer", "accept", "rejoin", "delete"}

ASSUME MembershipAssumption ==
    /\ Given \subseteq Role \ {"OWNER"}
    /\ None \notin User \cup Invitation \cup Invite \cup Role
    /\ Gone \notin User \cup {None}

VARIABLES
    creator,     \* created_by_id of the workspace; None before it exists
    users,       \* the users table
    role,        \* workspace_members
    invites,     \* invitations
    step,        \* what a call is about to do
    who,         \* its caller
    claim,       \* the caller's role, as the call has read it
    target,      \* the user or invitation it is about
    hit          \* an OWNER has been demoted, removed, or left with the account

tables == <<creator, users, role, invites>>
call == <<step, who, claim, target>>
vars == <<tables, call, hit>>

TypeOK ==
    /\ creator \in User \cup {None, Gone} /\ users \subseteq User
    /\ role \in [User -> Role \cup {None}]
    /\ invites \in [Invitation -> Invite \cup {None}]
    /\ step \in [Call -> Step]
    /\ who \in [Call -> User \cup {None}]
    /\ claim \in [Call -> Role \cup {None}]
    /\ target \in [Call -> User \cup Invitation \cup {None}]
    /\ hit \in BOOLEAN

Init ==
    /\ creator = None /\ users = {}
    /\ role = [u \in User |-> None]
    /\ invites = [i \in Invitation |-> None]
    /\ step = [c \in Call |-> "idle"]
    /\ who = [c \in Call |-> None]
    /\ claim = [c \in Call |-> None]
    /\ target = [c \in Call |-> None]
    /\ hit = FALSE

Open == creator \in User
Member(u) == role[u] # None

\* The call goes on as u, with the role cl, about x.
Goes(c, s, u, cl, x) ==
    /\ step' = [step EXCEPT ![c] = s]
    /\ who' = [who EXCEPT ![c] = u]
    /\ claim' = [claim EXCEPT ![c] = cl]
    /\ target' = [target EXCEPT ![c] = x]

Ends(c) == Goes(c, "idle", None, None, None)

-----------------------------------------------------------------------------
\* ensureUser
EnsureUser(u) ==
    /\ users' = users \cup {u}
    /\ UNCHANGED <<creator, role, invites, call, hit>>

\* completeOnboarding: user, workspace and membership in one transaction.
CompleteOnboarding(u) ==
    /\ creator = None
    /\ creator' = u /\ users' = users \cup {u}
    /\ role' = [role EXCEPT ![u] = "OWNER"]
    /\ UNCHANGED <<invites, call, hit>>

\* resolveMembership, at the start of every call that needs a workspace.
Claim(c, u) ==
    /\ step[c] = "idle" /\ Member(u)
    /\ Goes(c, "claimed", u, role[u], None)
    /\ UNCHANGED <<tables, hit>>

\* The claim does not suffice, the call only reads, or its write is refused.
Reply(c) == step[c] = "claimed" /\ Ends(c) /\ UNCHANGED <<tables, hit>>

AsManager(c) == step[c] = "claimed" /\ claim[c] \in {"OWNER", "MANAGER"}
AsOwner(c) == step[c] = "claimed" /\ claim[c] = "OWNER"

\* An owner is touched by owners only.
MayTouch(c, u) == Member(u) /\ (role[u] = "OWNER" => claim[c] = "OWNER")

\* changeRole, removeMember: the target is looked up.
CheckTarget(c, u) ==
    /\ AsManager(c) /\ MayTouch(c, u)
    /\ \E s \in {"role", "remove"} : Goes(c, s, None, claim[c], u)
    /\ UNCHANGED <<tables, hit>>

\* An owner's row is changed by somebody.
Hits(u) == hit' = (hit \/ role[u] = "OWNER")

\* changeTeamMemberRole; without a row nothing happens.
ChangeRole(c, r) ==
    /\ step[c] = "role"
    /\ role' = [role EXCEPT ![target[c]] = IF @ = None THEN None ELSE r]
    /\ Hits(target[c])
    /\ Ends(c)
    /\ UNCHANGED <<creator, users, invites>>

\* removeTeamMember
RemoveMember(c) ==
    /\ step[c] = "remove"
    /\ role' = [role EXCEPT ![target[c]] = None]
    /\ Hits(target[c])
    /\ Ends(c)
    /\ UNCHANGED <<creator, users, invites>>

Pending(i) == invites[i] # None /\ invites[i].status = "PENDING"

\* inviteTeamMember: one that is pending, expired or not, is returned ..
InviteLook(c, u) ==
    /\ AsManager(c)
    /\ IF \E i \in Invitation : Pending(i) /\ invites[i].to = u THEN Ends(c) ELSE Goes(c, "invite", who[c], None, u)
    /\ UNCHANGED <<tables, hit>>

\* .. or a new one inserted; its foreign keys need the workspace and the inviter.
InviteInsert(c, i, r) ==
    /\ step[c] = "invite" /\ invites[i] = None
    /\ invites' = IF Open /\ who[c] \in users
                  THEN [invites EXCEPT ![i] = [to |-> target[c], by |-> who[c], role |-> r,
                                               status |-> "PENDING", fresh |-> TRUE]]
                  ELSE invites
    /\ Ends(c)
    /\ UNCHANGED <<creator, users, role, hit>>

\* Bound: no row is left for a further invitation; the call fails.
InviteFails(c) ==
    /\ step[c] = "invite" /\ \A i \in Invitation : invites[i] # None
    /\ Ends(c)
    /\ UNCHANGED <<tables, hit>>

\* A bug: whatever its status.
AnyInvite(i) == invites[i] # None

Revocable(i) == Pending(i)

\* revokeTeamInvite
RevokeInvite(c, i) ==
    /\ AsManager(c) /\ Revocable(i)
    /\ invites' = [invites EXCEPT ![i].status = "REVOKED"]
    /\ Ends(c)
    /\ UNCHANGED <<creator, users, role, hit>>

\* expires_at passes.
Expire(i) ==
    /\ Pending(i)
    /\ invites' = [invites EXCEPT ![i].fresh = FALSE]
    /\ UNCHANGED <<creator, users, role, call, hit>>

\* acceptInvitation, the lookup.  Of one that is refused nothing stays, not even
\* EXPIRED: what it wrote is rolled back.
AcceptLook(c, u, i) ==
    /\ step[c] = "idle" /\ invites[i] # None
    /\ \/ /\ Member(u)
          /\ Goes(c, "rejoin", u, None, i)
       \/ /\ ~Member(u) /\ Pending(i) /\ invites[i].fresh
          /\ Goes(c, "accept", u, None, i)
    /\ users' = users \cup {u}
    /\ UNCHANGED <<creator, role, invites, hit>>

Accepted(i) == [invites EXCEPT ![i] = IF @ = None THEN None ELSE [@ EXCEPT !.status = "ACCEPTED"]]

\* Whoever is a member already only marks it.
Rejoin(c) ==
    /\ step[c] = "rejoin"
    /\ invites' = Accepted(target[c])
    /\ Ends(c)
    /\ UNCHANGED <<creator, users, role, hit>>

\* A bug: the foreign key on users is not there.
NoUserNeeded(c) == Open /\ ~Member(who[c])

\* The insert meets the unique key and the foreign keys.
Joins(c) == Open /\ who[c] \in users /\ ~Member(who[c])

\* acceptInvitation, the second transaction: both writes or none.
Accept(c) ==
    /\ step[c] = "accept"
    /\ IF Joins(c) THEN /\ role' = [role EXCEPT ![who[c]] = invites[target[c]].role]
                        /\ invites' = Accepted(target[c])
                   ELSE UNCHANGED <<role, invites>>
    /\ Ends(c)
    /\ UNCHANGED <<creator, users, hit>>

\* transferTeamOwnership: the caller's role is read again ..
TransferLook(c, u) ==
    /\ AsOwner(c) /\ u # who[c] /\ role[who[c]] = "OWNER"
    /\ Goes(c, "heir", who[c], None, u)
    /\ UNCHANGED <<tables, hit>>

\* .. and then the new owner's.
HeirLook(c) ==
    /\ step[c] = "heir"
    /\ IF Member(target[c]) THEN Goes(c, "transfer", who[c], None, target[c]) ELSE Ends(c)
    /\ UNCHANGED <<tables, hit>>

\* A bug: nobody asks whether the promotion met a row.
PromotesAnyway(c) == TRUE

\* The promotion meets exactly one row, or everything is rolled back.
Promotes(c) == Member(target[c])

\* Promote, then demote the caller, who may have left meanwhile.
Transfer(c) ==
    /\ step[c] = "transfer"
    /\ role' = IF Promotes(c)
               THEN [u \in User |-> IF role[u] = None THEN None
                                    ELSE IF u = target[c] THEN "OWNER"
                                    ELSE IF u = who[c] THEN "MANAGER" ELSE role[u]]
               ELSE role
    /\ Ends(c)
    /\ UNCHANGED <<creator, users, invites, hit>>

NoInvites == [i \in Invitation |-> None]
NoMembers == [u \in User |-> None]

\* deleteWorkspace; members and invitations go with it.
DeleteWorkspace(c) ==
    /\ AsOwner(c) /\ Open
    /\ creator' = Gone /\ role' = NoMembers /\ invites' = NoInvites
    /\ Ends(c)
    /\ UNCHANGED <<users, hit>>

\* deleteAccount, its read: an owner among others is refused.
DeleteLook(c, u) ==
    /\ step[c] = "idle" /\ u \in users
    /\ role[u] = "OWNER" => \A v \in User \ {u} : ~Member(v)
    /\ Goes(c, "delete", u, role[u], None)
    /\ UNCHANGED <<tables, hit>>

\* An owner's workspace goes first.  Without it the user cannot go who created the
\* workspace or has invited somebody: the foreign keys have no ON DELETE.
DeleteAccount(c) ==
    /\ step[c] = "delete"
    /\ LET u == who[c]
           owned == claim[c] = "OWNER" /\ Open
           kept == ~owned /\ (creator = u \/ \E i \in Invitation : invites[i] # None /\ invites[i].by = u)
       IN  /\ creator' = IF owned THEN Gone ELSE creator
           /\ users' = IF kept THEN users ELSE users \ {u}
           /\ invites' = IF owned THEN NoInvites ELSE invites
           /\ role' = IF owned THEN NoMembers ELSE IF kept THEN role ELSE [role EXCEPT ![u] = None]
           /\ hit' = (hit \/ (~owned /\ ~kept /\ role[u] = "OWNER"))
    /\ Ends(c)

\* Rows outside of these tables keep the user or the workspace: those of audit_log the
\* one, requests of erasure the other.  The transaction is rolled back.
DeleteRefused(c) == step[c] = "delete" /\ Ends(c) /\ UNCHANGED <<tables, hit>>

Next ==
    \/ \E u \in User : EnsureUser(u) \/ CompleteOnboarding(u)
    \/ \E i \in Invitation : Expire(i)
    \/ \E c \in Call, u \in User :
          \/ Claim(c, u) \/ CheckTarget(c, u) \/ InviteLook(c, u)
          \/ TransferLook(c, u) \/ DeleteLook(c, u)
          \/ \E i \in Invitation : AcceptLook(c, u, i)
    \/ \E c \in Call, i \in Invitation, r \in Given : InviteInsert(c, i, r)
    \/ \E c \in Call, i \in Invitation : RevokeInvite(c, i)
    \/ \E c \in Call, r \in Given : ChangeRole(c, r)
    \/ \E c \in Call :
          \/ Reply(c) \/ RemoveMember(c) \/ InviteFails(c) \/ Rejoin(c) \/ Accept(c)
          \/ HeirLook(c) \/ Transfer(c)
          \/ DeleteWorkspace(c) \/ DeleteAccount(c) \/ DeleteRefused(c)

Spec == Init /\ [][Next]_vars

-----------------------------------------------------------------------------
\* Safety: rows refer to rows, however the calls overlap: members and invitations
\* to an open workspace, and all of them to users that are there.
NoOrphans ==
    /\ Open => creator \in users
    /\ \A u \in User : Member(u) => Open /\ u \in users
    /\ \A i \in Invitation : invites[i] # None => Open /\ invites[i].by \in users

\* Safety: whoever belongs to the workspace created it, or has an accepted
\* invitation to show: no later call takes the acceptance back.
MembersAdmitted ==
    \A u \in User : Member(u) =>
        u = creator \/ \E i \in Invitation : invites[i] # None /\ invites[i].status = "ACCEPTED"

\* Safety: as long as nobody demotes, removes or deletes an owner, the workspace has
\* one: transfers of ownership alone, in any number and overlap, never lose it.
OwnerUnlessHit == Open /\ ~hit => \E u \in User : role[u] = "OWNER"

\* What the router promises: a MANAGER never changes an OWNER.  It fails where the
\* target is promoted between the check and the write.
ManagersTouchNoOwner ==
    [][\A c \in Call : claim[c] = "MANAGER" /\ step[c] \in {"role", "remove"} /\ step'[c] = "idle"
          => role[target[c]] # "OWNER"]_vars
=============================================================================
