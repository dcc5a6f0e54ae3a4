--------------------------- MODULE MembershipProofs ---------------------------
(***************************************************************************)
(* Theorems about Membership, for any calls, users, invitations and roles. *)
(***************************************************************************)
EXTENDS Membership, TLAPS

USE MembershipAssumption DEF Role, Step

\* What a call under way has found: its caller, its target, and, if it is about an
\* invitation, one that stays in its table as long as the workspace does.
AimedAt(c) ==
    /\ step[c] \in {"claimed", "invite", "heir", "transfer", "accept", "rejoin", "delete"} => who[c] \in User
    /\ step[c] \in {"role", "remove", "invite", "heir", "transfer"} => target[c] \in User
    /\ step[c] \in {"accept", "rejoin"} =>
          /\ target[c] \in Invitation /\ creator # None
          /\ Open => invites[target[c]] # None

Aimed == \A c \in Call : AimedAt(c)

Ind == TypeOK /\ Aimed /\ NoOrphans

\* The step a call takes touches nothing of the other calls.
LEMMA Going ==
    ASSUME TypeOK, NEW c \in Call, NEW s \in Step, NEW u \in User \cup {None},
           NEW cl \in Role \cup {None}, NEW x \in User \cup Invitation \cup {None},
           Goes(c, s, u, cl, x)
    PROVE  /\ step' \in [Call -> Step] /\ who' \in [Call -> User \cup {None}]
           /\ claim' \in [Call -> Role \cup {None}]
           /\ target' \in [Call -> User \cup Invitation \cup {None}]
           /\ step'[c] = s /\ who'[c] = u /\ claim'[c] = cl /\ target'[c] = x
           /\ \A d \in Call \ {c} : /\ step'[d] = step[d] /\ who'[d] = who[d]
                                    /\ target'[d] = target[d]
  BY DEF TypeOK, Goes

LEMMA Ending ==
    ASSUME TypeOK, NEW c \in Call, Ends(c)
    PROVE  /\ step' \in [Call -> Step] /\ who' \in [Call -> User \cup {None}]
           /\ claim' \in [Call -> Role \cup {None}]
           /\ target' \in [Call -> User \cup Invitation \cup {None}]
           /\ step'[c] = "idle"
           /\ \A d \in Call \ {c} : /\ step'[d] = step[d] /\ who'[d] = who[d]
                                    /\ target'[d] = target[d]
  BY Going DEF Ends

\* A call that goes on: it is aimed if its new step is, and the tables did not change
\* under it.
LEMMA AimedGoing ==
    ASSUME TypeOK, Aimed, UNCHANGED <<creator, invites>>, NEW c \in Call, NEW s \in Step,
           NEW u \in User \cup {None}, NEW cl \in Role \cup {None},
           NEW x \in User \cup Invitation \cup {None}, Goes(c, s, u, cl, x),
           s \in {"claimed", "invite", "heir", "transfer", "accept", "rejoin", "delete"} => u \in User,
           s \in {"role", "remove", "invite", "heir", "transfer"} => x \in User,
           s \in {"accept", "rejoin"} => x \in Invitation /\ creator # None /\ invites[x] # None
    PROVE  Aimed'
<1> SUFFICES ASSUME NEW d \in Call PROVE AimedAt(d)'
  BY DEF Aimed
<1>1. CASE d = c
  BY <1>1, Going DEF AimedAt, Open
<1>2. CASE d # c
  <2>1. step'[d] = step[d] /\ who'[d] = who[d] /\ target'[d] = target[d]
    BY <1>2, Going
  <2>2. AimedAt(d)
    BY DEF Aimed
  <2> QED
    BY <2>1, <2>2 DEF AimedAt, Open
<1> QED
  BY <1>1, <1>2

\* A call that ends: the others stay aimed if no workspace appears and no invitation
\* of an open one disappears.
LEMMA AimedEnding ==
    ASSUME TypeOK, Aimed, NEW c \in Call, Ends(c),
           creator # None => creator' # None,
           Open' => Open \/ creator = None,
           \A i \in Invitation : Open' /\ invites[i] # None => invites'[i] # None
    PROVE  Aimed'
<1> SUFFICES ASSUME NEW d \in Call PROVE AimedAt(d)'
  BY DEF Aimed
<1>1. CASE d = c
  BY <1>1, Ending DEF AimedAt
<1>2. CASE d # c
  BY <1>2, Ending DEF Aimed, AimedAt, Open, TypeOK
<1> QED
  BY <1>1, <1>2

\* A call that only reads.
LEMMA Reading ==
    ASSUME Ind, NEW c \in Call,
           \/ \E u \in User : Claim(c, u) \/ CheckTarget(c, u) \/ InviteLook(c, u)
                               \/ TransferLook(c, u) \/ DeleteLook(c, u)
           \/ Reply(c) \/ InviteFails(c) \/ HeirLook(c) \/ DeleteRefused(c)
    PROVE  Ind'
<1> USE DEF Ind
<1>1. UNCHANGED <<creator, users, role, invites, hit>>
  BY DEF Claim, CheckTarget, InviteLook, TransferLook, DeleteLook, Reply, InviteFails, HeirLook,
         DeleteRefused, tables
<1>2. \A u \in User : role[u] \in Role \cup {None} /\ claim[c] \in Role \cup {None}
  BY DEF TypeOK
<1>3. ASSUME NEW s \in Step, NEW w \in User \cup {None}, NEW cl \in Role \cup {None},
             NEW x \in User \cup Invitation \cup {None}, Goes(c, s, w, cl, x),
             s \in {"claimed", "invite", "heir", "transfer", "delete"} => w \in User,
             s \in {"role", "remove", "invite", "heir", "transfer"} => x \in User,
             s \notin {"accept", "rejoin"}
      PROVE  TypeOK' /\ Aimed'
  <2>1. TypeOK'
    <3>1. /\ step' \in [Call -> Step] /\ who' \in [Call -> User \cup {None}]
          /\ claim' \in [Call -> Role \cup {None}]
          /\ target' \in [Call -> User \cup Invitation \cup {None}]
      BY <1>3, Going
    <3> QED
      BY <1>1, <3>1 DEF TypeOK
  <2>2. Aimed'
    BY <1>1, <1>3, AimedGoing
  <2> QED
    BY <2>1, <2>2
<1>4. TypeOK' /\ Aimed'
  <2>1. ASSUME NEW u \in User, Claim(c, u) PROVE TypeOK' /\ Aimed'
    BY <2>1, <1>2, <1>3 DEF Claim
  <2>2. ASSUME NEW u \in User, CheckTarget(c, u) PROVE TypeOK' /\ Aimed'
    BY <2>2, <1>2, <1>3 DEF CheckTarget
  <2>3. ASSUME NEW u \in User, InviteLook(c, u) PROVE TypeOK' /\ Aimed'
    <3>1. who[c] \in User
      BY <2>3 DEF InviteLook, AsManager, Aimed, AimedAt
    <3> QED
      BY <2>3, <3>1, <1>3 DEF InviteLook, Ends
  <2>4. ASSUME NEW u \in User, TransferLook(c, u) PROVE TypeOK' /\ Aimed'
    <3>1. who[c] \in User
      BY <2>4 DEF TransferLook, AsOwner, Aimed, AimedAt
    <3> QED
      BY <2>4, <3>1, <1>3 DEF TransferLook
  <2>5. ASSUME NEW u \in User, DeleteLook(c, u) PROVE TypeOK' /\ Aimed'
    BY <2>5, <1>2, <1>3 DEF DeleteLook
  <2>6. CASE HeirLook(c)
    <3>1. who[c] \in User /\ target[c] \in User
      BY <2>6 DEF HeirLook, Aimed, AimedAt
    <3> QED
      BY <2>6, <3>1, <1>3 DEF HeirLook, Ends
  <2>7. CASE Reply(c) \/ InviteFails(c) \/ DeleteRefused(c)
    BY <2>7, <1>3 DEF Reply, InviteFails, DeleteRefused, Ends
  <2> QED
    BY <2>1, <2>2, <2>3, <2>4, <2>5, <2>6, <2>7
<1>5. NoOrphans'
  BY <1>1 DEF NoOrphans, Open, Member
<1> QED
  BY <1>4, <1>5

\* The lookup of acceptInvitation: the invitation it finds is one of an open workspace.
LEMMA LookingUp ==
    ASSUME Ind, NEW c \in Call, NEW u \in User, NEW i \in Invitation, AcceptLook(c, u, i)
    PROVE  Ind'
<1> USE DEF Ind
<1>1. PICK s \in {"accept", "rejoin"} : Goes(c, s, u, None, i)
  BY DEF AcceptLook
<1>2. UNCHANGED <<creator, role, invites, hit>> /\ users' = users \cup {u}
  BY DEF AcceptLook
<1>3. TypeOK'
  BY <1>1, <1>2, Going DEF TypeOK
<1>4. creator # None /\ invites[i] # None
  BY DEF AcceptLook, NoOrphans, Open
<1>5. Aimed'
  BY <1>1, <1>2, <1>4, AimedGoing
<1>6. NoOrphans'
  BY <1>2 DEF NoOrphans, Open, Member
<1> QED
  BY <1>3, <1>5, <1>6

\* Whatever a call writes, its end leaves the control well typed.
LEMMA EndingTypes ==
    ASSUME TypeOK, NEW c \in Call, Ends(c),
           creator' \in User \cup {None, Gone}, users' \subseteq User,
           role' \in [User -> Role \cup {None}],
           invites' \in [Invitation -> Invite \cup {None}], hit' \in BOOLEAN
    PROVE  TypeOK'
  BY Ending DEF TypeOK

\* A call that writes invitations and ends.
LEMMA WritingInvites ==
    ASSUME Ind, NEW c \in Call,
           \/ \E i \in Invitation, r \in Given : InviteInsert(c, i, r)
           \/ \E i \in Invitation : RevokeInvite(c, i)
           \/ Rejoin(c)
    PROVE  Ind'
<1> USE DEF Ind
<1>1. Ends(c) /\ UNCHANGED <<creator, users, role, hit>>
  BY DEF InviteInsert, RevokeInvite, Rejoin
<1> DEFINE Kept ==
      /\ invites' \in [Invitation -> Invite \cup {None}]
      /\ \A j \in Invitation : invites[j] # None => invites'[j] # None /\ invites'[j].by = invites[j].by
      /\ \A j \in Invitation : invites'[j] # None => invites[j] # None \/ (Open /\ invites'[j].by \in users)
<1>2. Kept
  <2>1. ASSUME NEW i \in Invitation, NEW r \in Given, InviteInsert(c, i, r) PROVE Kept
    <3>1. who[c] \in User /\ target[c] \in User
      BY <2>1 DEF InviteInsert, Aimed, AimedAt
    <3>2. [to |-> target[c], by |-> who[c], role |-> r, status |-> "PENDING", fresh |-> TRUE] \in Invite
      BY <3>1 DEF Invite
    <3> QED
      BY <2>1, <3>2 DEF InviteInsert, TypeOK
  <2>2. ASSUME NEW i \in Invitation, RevokeInvite(c, i) PROVE Kept
    <3>1. invites[i] \in Invite
      BY <2>2 DEF RevokeInvite, Revocable, Pending, TypeOK
    <3>2. /\ [invites[i] EXCEPT !.status = "REVOKED"] \in Invite
          /\ [invites[i] EXCEPT !.status = "REVOKED"].by = invites[i].by
      BY <3>1 DEF Invite
    <3> QED
      BY <2>2, <3>1, <3>2 DEF RevokeInvite, TypeOK
  <2>3. CASE Rejoin(c)
    <3>1. target[c] \in Invitation
      BY <2>3 DEF Rejoin, Aimed, AimedAt
    <3>2. invites[target[c]] # None =>
            /\ [invites[target[c]] EXCEPT !.status = "ACCEPTED"] \in Invite
            /\ [invites[target[c]] EXCEPT !.status = "ACCEPTED"].by = invites[target[c]].by
      BY <3>1 DEF Invite, TypeOK
    <3> QED
      BY <2>3, <3>1, <3>2 DEF Rejoin, Accepted, TypeOK
  <2> QED
    BY <2>1, <2>2, <2>3
<1>3. TypeOK'
  BY <1>1, <1>2, EndingTypes DEF TypeOK
<1>4. Aimed'
  BY <1>1, <1>2, AimedEnding DEF Open
<1>5. NoOrphans'
  BY <1>1, <1>2 DEF NoOrphans, Open, Member
<1> QED
  BY <1>3, <1>4, <1>5

\* A call that writes the members there are, and ends: nobody is added.
LEMMA WritingRoles ==
    ASSUME Ind, NEW c \in Call,
           (\E r \in Given : ChangeRole(c, r)) \/ RemoveMember(c) \/ Transfer(c)
    PROVE  Ind'
<1> USE DEF Ind
<1>1. Ends(c) /\ UNCHANGED <<creator, users, invites>> /\ hit' \in BOOLEAN
  BY DEF ChangeRole, RemoveMember, Transfer, Hits, TypeOK
<1>2. /\ role' \in [User -> Role \cup {None}]
      /\ \A u \in User : role'[u] # None => role[u] # None
  <2>1. target[c] \in User
    BY DEF ChangeRole, RemoveMember, Transfer, Aimed, AimedAt
  <2>2. CASE \E r \in Given : ChangeRole(c, r)
    BY <2>1, <2>2 DEF ChangeRole, TypeOK
  <2>3. CASE RemoveMember(c)
    BY <2>1, <2>3 DEF RemoveMember, TypeOK
  <2>4. CASE Transfer(c)
    BY <2>1, <2>4 DEF Transfer, Promotes, TypeOK
  <2> QED
    BY <2>2, <2>3, <2>4
<1>3. TypeOK'
  BY <1>1, <1>2, EndingTypes DEF TypeOK
<1>4. Aimed'
  BY <1>1, AimedEnding DEF Open
<1>5. NoOrphans'
  BY <1>1, <1>2 DEF NoOrphans, Open, Member
<1> QED
  BY <1>3, <1>4, <1>5

\* What the second transaction of acceptInvitation does when its foreign keys hold.
LEMMA Joining ==
    ASSUME Ind, NEW c \in Call, Accept(c), Joins(c)
    PROVE  /\ who[c] \in User /\ target[c] \in Invitation /\ invites[target[c]] \in Invite
           /\ role' = [role EXCEPT ![who[c]] = invites[target[c]].role]
           /\ role'[who[c]] \in Given
           /\ invites' \in [Invitation -> Invite \cup {None}]
           /\ invites'[target[c]] # None /\ invites'[target[c]].status = "ACCEPTED"
           /\ invites'[target[c]].by = invites[target[c]].by
           /\ \A i \in Invitation \ {target[c]} : invites'[i] = invites[i]
<1>1. who[c] \in User /\ target[c] \in Invitation /\ invites[target[c]] # None
  BY DEF Ind, Aimed, AimedAt, Accept, Joins
<1>2. invites[target[c]] \in Invite
  BY <1>1 DEF Ind, TypeOK
<1>3. /\ [invites[target[c]] EXCEPT !.status = "ACCEPTED"] \in Invite
      /\ [invites[target[c]] EXCEPT !.status = "ACCEPTED"].by = invites[target[c]].by
      /\ [invites[target[c]] EXCEPT !.status = "ACCEPTED"].status = "ACCEPTED"
      /\ invites[target[c]].role \in Given
  BY <1>2 DEF Invite
<1>4. /\ invites' = Accepted(target[c])
      /\ role' = [role EXCEPT ![who[c]] = invites[target[c]].role]
  BY DEF Accept
<1> QED
  BY <1>1, <1>2, <1>3, <1>4 DEF Ind, TypeOK, Accepted

LEMMA Accepting ==
    ASSUME Ind, NEW c \in Call, Accept(c)
    PROVE  Ind'
<1> USE DEF Ind
<1>1. Ends(c) /\ UNCHANGED <<creator, users, hit>>
  BY DEF Accept
<1>2. CASE Joins(c)
  <2>1. role' \in [User -> Role \cup {None}]
    <3>1. /\ role' = [role EXCEPT ![who[c]] = invites[target[c]].role]
          /\ who[c] \in User /\ invites[target[c]] \in Invite
      BY <1>2, Joining
    <3>2. invites[target[c]].role \in Role
      BY <3>1 DEF Invite
    <3> QED
      BY <3>1, <3>2 DEF TypeOK
  <2>2. TypeOK'
    BY <1>1, <1>2, <2>1, Joining, EndingTypes DEF TypeOK
  <2>3. Aimed'
    BY <1>1, <1>2, Joining, AimedEnding DEF Open
  <2>4. Open /\ who[c] \in users
    BY <1>2 DEF Joins
  <2>5. NoOrphans'
    BY <1>1, <1>2, <2>4, Joining DEF NoOrphans, Open, Member, TypeOK
  <2> QED
    BY <2>2, <2>3, <2>5
<1>3. CASE ~Joins(c)
  <2>1. UNCHANGED <<role, invites>>
    BY <1>3 DEF Accept
  <2>2. TypeOK'
    BY <1>1, <2>1, EndingTypes DEF TypeOK
  <2>3. Aimed'
    BY <1>1, <2>1, AimedEnding DEF Open
  <2>4. NoOrphans'
    BY <1>1, <2>1 DEF NoOrphans, Open, Member
  <2> QED
    BY <2>2, <2>3, <2>4
<1> QED
  BY <1>2, <1>3

\* The workspace, an account, or both go.
LEMMA Deleting ==
    ASSUME Ind, NEW c \in Call, DeleteWorkspace(c) \/ DeleteAccount(c)
    PROVE  Ind'
<1> USE DEF Ind
<1>1. CASE DeleteWorkspace(c)
  <2>1. TypeOK'
    BY <1>1, EndingTypes DEF DeleteWorkspace, NoMembers, NoInvites, TypeOK
  <2>2. Aimed'
    BY <1>1, AimedEnding DEF DeleteWorkspace, Open, TypeOK
  <2>3. NoOrphans'
    BY <1>1 DEF DeleteWorkspace, NoMembers, NoInvites, NoOrphans, Open, Member
  <2> QED
    BY <2>1, <2>2, <2>3
<1>2. CASE DeleteAccount(c)
  <2>1. who[c] \in User /\ Ends(c)
    BY <1>2 DEF DeleteAccount, Aimed, AimedAt
  <2>2. CASE claim[c] = "OWNER" /\ Open
    <3>1. /\ creator' = Gone /\ users' = users \ {who[c]}
          /\ invites' = NoInvites /\ role' = NoMembers /\ hit' = hit
      BY <1>2, <2>2 DEF DeleteAccount, TypeOK
    <3>2. TypeOK'
      BY <2>1, <3>1, EndingTypes DEF NoMembers, NoInvites, TypeOK
    <3>3. Aimed'
      BY <2>1, <3>1, AimedEnding DEF Open, TypeOK
    <3>4. NoOrphans'
      BY <3>1 DEF NoMembers, NoInvites, NoOrphans, Open, Member
    <3> QED
      BY <3>2, <3>3, <3>4
  <2>3. CASE /\ ~(claim[c] = "OWNER" /\ Open)
             /\ creator = who[c] \/ \E i \in Invitation : invites[i] # None /\ invites[i].by = who[c]
    <3>1. UNCHANGED tables /\ hit' \in BOOLEAN
      BY <1>2, <2>3 DEF DeleteAccount, tables, TypeOK
    <3>2. TypeOK'
      BY <2>1, <3>1, EndingTypes DEF tables, TypeOK
    <3>3. Aimed'
      BY <2>1, <3>1, AimedEnding DEF tables, Open
    <3>4. NoOrphans'
      BY <3>1 DEF tables, NoOrphans, Open, Member
    <3> QED
      BY <3>2, <3>3, <3>4
  <2>4. CASE /\ ~(claim[c] = "OWNER" /\ Open)
             /\ ~(creator = who[c] \/ \E i \in Invitation : invites[i] # None /\ invites[i].by = who[c])
    <3>1. /\ UNCHANGED <<creator, invites>> /\ users' = users \ {who[c]}
          /\ role' = [role EXCEPT ![who[c]] = None] /\ hit' \in BOOLEAN
      BY <1>2, <2>4 DEF DeleteAccount, TypeOK
    <3>2. TypeOK'
      BY <2>1, <3>1, EndingTypes DEF TypeOK
    <3>3. Aimed'
      BY <2>1, <3>1, AimedEnding DEF Open
    <3>4. NoOrphans'
      BY <2>1, <2>4, <3>1 DEF NoOrphans, Open, Member, TypeOK
    <3> QED
      BY <3>2, <3>3, <3>4
  <2> QED
    BY <2>2, <2>3, <2>4
<1> QED
  BY <1>1, <1>2

\* Steps outside of the calls.
LEMMA Surroundings ==
    ASSUME Ind, \/ \E u \in User : EnsureUser(u) \/ CompleteOnboarding(u)
                \/ \E i \in Invitation : Expire(i)
                \/ UNCHANGED vars
    PROVE  Ind'
<1> USE DEF Ind
<1>1. ASSUME NEW u \in User, EnsureUser(u) PROVE Ind'
  BY <1>1 DEF EnsureUser, TypeOK, Aimed, AimedAt, NoOrphans, Open, Member, call
<1>2. ASSUME NEW u \in User, CompleteOnboarding(u) PROVE Ind'
  <2>1. TypeOK'
    BY <1>2 DEF CompleteOnboarding, TypeOK, call
  <2>2. Aimed'
    BY <1>2 DEF CompleteOnboarding, Aimed, AimedAt, call
  <2>3. NoOrphans'
    BY <1>2 DEF CompleteOnboarding, NoOrphans, Open, Member, TypeOK
  <2> QED
    BY <2>1, <2>2, <2>3
<1>3. ASSUME NEW i \in Invitation, Expire(i) PROVE Ind'
  <2>1. invites[i] \in Invite /\ invites[i] # None
    BY <1>3 DEF Expire, Pending, TypeOK
  <2>2. /\ [invites[i] EXCEPT !.fresh = FALSE] \in Invite
        /\ [invites[i] EXCEPT !.fresh = FALSE].by = invites[i].by
    BY <2>1 DEF Invite
  <2>3. /\ invites' \in [Invitation -> Invite \cup {None}]
        /\ \A j \in Invitation : /\ invites'[j] # None <=> invites[j] # None
                                 /\ invites[j] # None => invites'[j].by = invites[j].by
    BY <1>3, <2>1, <2>2 DEF Expire, TypeOK
  <2>4. UNCHANGED <<creator, users, role, step, who, claim, target, hit>>
    BY <1>3 DEF Expire, call
  <2>5. TypeOK' /\ Aimed'
    BY <2>3, <2>4 DEF TypeOK, Aimed, AimedAt, Open
  <2>6. NoOrphans'
    BY <2>3, <2>4 DEF NoOrphans, Open, Member
  <2> QED
    BY <2>5, <2>6
<1>4. CASE UNCHANGED vars
  BY <1>4 DEF vars, tables, call, TypeOK, Aimed, AimedAt, NoOrphans, Open, Member
<1> QED
  BY <1>1, <1>2, <1>3, <1>4

LEMMA NextInd == Ind /\ [Next]_vars => Ind'
<1> SUFFICES ASSUME Ind, [Next]_vars PROVE Ind'
  OBVIOUS
<1>1. CASE \/ \E u \in User : EnsureUser(u) \/ CompleteOnboarding(u)
           \/ \E i \in Invitation : Expire(i)
           \/ UNCHANGED vars
  BY <1>1, Surroundings
<1>2. ASSUME NEW c \in Call, NEW u \in User,
             Claim(c, u) \/ CheckTarget(c, u) \/ InviteLook(c, u) \/ TransferLook(c, u) \/ DeleteLook(c, u)
      PROVE  Ind'
  BY <1>2, Reading
<1>3. ASSUME NEW c \in Call, NEW u \in User, NEW i \in Invitation, AcceptLook(c, u, i) PROVE Ind'
  BY <1>3, LookingUp
<1>4. ASSUME NEW c \in Call, NEW i \in Invitation, NEW r \in Given, InviteInsert(c, i, r) PROVE Ind'
  BY <1>4, WritingInvites
<1>5. ASSUME NEW c \in Call, NEW i \in Invitation, RevokeInvite(c, i) PROVE Ind'
  BY <1>5, WritingInvites
<1>6. ASSUME NEW c \in Call, NEW r \in Given, ChangeRole(c, r) PROVE Ind'
  BY <1>6, WritingRoles
<1>7. ASSUME NEW c \in Call,
             Reply(c) \/ RemoveMember(c) \/ InviteFails(c) \/ Rejoin(c) \/ Accept(c)
               \/ HeirLook(c) \/ Transfer(c)
               \/ DeleteWorkspace(c) \/ DeleteAccount(c) \/ DeleteRefused(c)
      PROVE  Ind'
  BY <1>7, Reading, WritingInvites, WritingRoles, Accepting, Deleting
<1> QED
  BY <1>1, <1>2, <1>3, <1>4, <1>5, <1>6, <1>7 DEF Next

LEMMA SpecInd == Spec => []Ind
<1>1. Init => Ind
  BY DEF Init, Ind, TypeOK, Aimed, AimedAt, NoOrphans, Open, Member
<1> QED
  BY <1>1, NextInd, PTL DEF Spec

-----------------------------------------------------------------------------
\* Type correctness, for any number of calls, users and invitations (TypeOK).
THEOREM TypeCorrect == Spec => []TypeOK
<1>1. Ind => TypeOK
  BY DEF Ind
<1> QED
  BY <1>1, SpecInd, PTL

\* Members and invitations refer to an open workspace and to users that are there,
\* whatever the calls of completeOnboarding, acceptInvitation, inviteTeamMember,
\* deleteWorkspace and deleteAccount do to each other (NoOrphans).
THEOREM NoDangling == Spec => []NoOrphans
<1>1. Ind => NoOrphans
  BY DEF Ind
<1> QED
  BY <1>1, SpecInd, PTL

-----------------------------------------------------------------------------
Shown(i) == invites[i] # None /\ invites[i].status = "ACCEPTED"

\* An acceptance is never taken back while the workspace lasts.
LEMMA ShownStays ==
    ASSUME Ind, [Next]_vars, Open', Open, NEW i \in Invitation, Shown(i)
    PROVE  Shown(i)'
<1>1. /\ [invites[i] EXCEPT !.status = "ACCEPTED"] \in Invite
      /\ [invites[i] EXCEPT !.status = "ACCEPTED"].status = "ACCEPTED"
  BY DEF Ind, TypeOK, Shown, Invite
<1>2. CASE UNCHANGED invites
  BY <1>2 DEF Shown
<1>3. ASSUME NEW j \in Invitation, Expire(j) \/ \E c \in Call : RevokeInvite(c, j) PROVE Shown(i)'
  BY <1>3 DEF Expire, RevokeInvite, Revocable, Pending, Shown, Ind, TypeOK
<1>4. ASSUME NEW c \in Call, NEW j \in Invitation, NEW r \in Given, InviteInsert(c, j, r) PROVE Shown(i)'
  BY <1>4 DEF InviteInsert, Shown, Ind, TypeOK
<1>5. ASSUME NEW c \in Call, Rejoin(c) PROVE Shown(i)'
  <2>1. target[c] \in Invitation /\ invites' = Accepted(target[c])
    BY <1>5 DEF Rejoin, Ind, Aimed, AimedAt
  <2> QED
    BY <2>1, <1>1 DEF Accepted, Shown, Ind, TypeOK
<1>6. ASSUME NEW c \in Call, Accept(c) PROVE Shown(i)'
  <2>1. CASE Joins(c)
    BY <1>6, <2>1, Joining DEF Shown
  <2>2. CASE ~Joins(c)
    BY <1>6, <2>2 DEF Accept, Shown
  <2> QED
    BY <2>1, <2>2
<1>7. ASSUME NEW c \in Call, DeleteWorkspace(c) \/ DeleteAccount(c) PROVE UNCHANGED invites
  BY <1>7 DEF DeleteWorkspace, DeleteAccount, Open
<1>8. ASSUME NEW c \in Call,
             \/ \E u \in User : \/ Claim(c, u) \/ CheckTarget(c, u) \/ InviteLook(c, u)
                                 \/ TransferLook(c, u) \/ DeleteLook(c, u)
                                 \/ \E j \in Invitation : AcceptLook(c, u, j)
             \/ \E r \in Given : ChangeRole(c, r)
             \/ Reply(c) \/ InviteFails(c) \/ RemoveMember(c) \/ HeirLook(c) \/ Transfer(c)
             \/ DeleteRefused(c)
      PROVE  UNCHANGED invites
  BY <1>8 DEF Claim, CheckTarget, InviteLook, TransferLook, DeleteLook, Reply, InviteFails,
              RemoveMember, HeirLook, Transfer, AcceptLook, ChangeRole, DeleteRefused, tables
<1>9. ASSUME NEW u \in User, EnsureUser(u) \/ CompleteOnboarding(u) PROVE UNCHANGED invites
  BY <1>9 DEF EnsureUser, CompleteOnboarding
<1>10. UNCHANGED vars => UNCHANGED invites
  BY DEF vars, tables
<1> QED
  BY <1>2, <1>3, <1>4, <1>5, <1>6, <1>7, <1>8, <1>9, <1>10 DEF Next

\* Who becomes a member: the creator, or somebody with an invitation to show.
LEMMA Newcomers ==
    ASSUME Ind, [Next]_vars, NEW u \in User, ~Member(u), Member(u)'
    PROVE  creator' = u \/ \E i \in Invitation : Shown(i)'
<1>1. ASSUME NEW c \in Call, Accept(c) PROVE \E i \in Invitation : Shown(i)'
  <2>1. Joins(c)
    BY <1>1 DEF Accept, Member
  <2> QED
    BY <1>1, <2>1, Joining DEF Shown
<1>2. ASSUME NEW v \in User, CompleteOnboarding(v) PROVE creator' = u
  BY <1>2 DEF CompleteOnboarding, Member, Ind, TypeOK
<1>3. ASSUME NEW c \in Call,
             (\E r \in Given : ChangeRole(c, r)) \/ RemoveMember(c) \/ Transfer(c)
      PROVE  FALSE
  <2>1. target[c] \in User
    BY <1>3 DEF ChangeRole, RemoveMember, Transfer, Ind, Aimed, AimedAt
  <2> QED
    BY <1>3, <2>1 DEF ChangeRole, RemoveMember, Transfer, Member, Ind, TypeOK
<1>4. ASSUME NEW c \in Call, DeleteWorkspace(c) \/ DeleteAccount(c) PROVE FALSE
  BY <1>4 DEF DeleteWorkspace, DeleteAccount, NoMembers, Member, Ind, TypeOK
<1>5. ASSUME NEW c \in Call, NEW v \in User,
             \/ Claim(c, v) \/ CheckTarget(c, v) \/ InviteLook(c, v) \/ TransferLook(c, v) \/ DeleteLook(c, v)
             \/ Reply(c) \/ InviteFails(c) \/ HeirLook(c) \/ DeleteRefused(c) \/ Rejoin(c) \/ EnsureUser(v)
             \/ \E i \in Invitation : AcceptLook(c, v, i) \/ RevokeInvite(c, i) \/ Expire(i)
             \/ \E i \in Invitation, r \in Given : InviteInsert(c, i, r)
      PROVE  UNCHANGED role
  BY <1>5 DEF Claim, CheckTarget, InviteLook, TransferLook, DeleteLook, Reply, InviteFails, Rejoin,
              HeirLook, DeleteRefused, EnsureUser, AcceptLook, RevokeInvite, Expire, InviteInsert, tables
<1>6. ASSUME NEW v \in User, EnsureUser(v) PROVE UNCHANGED role
  BY <1>6 DEF EnsureUser
<1>7. ASSUME NEW i \in Invitation, Expire(i) PROVE UNCHANGED role
  BY <1>7 DEF Expire
<1>8. ~UNCHANGED role /\ ~UNCHANGED vars
  BY DEF vars, tables, Member
<1> QED
  BY <1>1, <1>2, <1>3, <1>4, <1>5, <1>6, <1>7, <1>8 DEF Next

\* The workspace keeps its creator until it is deleted.
LEMMA CreatorStays ==
    ASSUME [Next]_vars, Open'
    PROVE  creator' = creator \/ \E u \in User : CompleteOnboarding(u)
<1>1. ASSUME NEW c \in Call, DeleteWorkspace(c) \/ DeleteAccount(c) PROVE creator' = creator
  BY <1>1 DEF DeleteWorkspace, DeleteAccount, Open
<1> QED
  BY <1>1
  DEF Next, vars, tables, EnsureUser, Expire, Claim, CheckTarget, InviteLook, TransferLook, DeleteLook,
      AcceptLook, InviteInsert, RevokeInvite, ChangeRole, Reply, RemoveMember, InviteFails, Rejoin,
      HeirLook, Accept, Transfer, DeleteRefused

\* Nobody belongs to a workspace they did not create without an accepted invitation in
\* its table, however acceptInvitation, revokeTeamInvite and the others overlap
\* (MembersAdmitted).
THEOREM Admission == Spec => []MembersAdmitted
<1>1. Init => MembersAdmitted
  BY DEF Init, MembersAdmitted, Member
<1>2. Ind /\ Ind' /\ MembersAdmitted /\ [Next]_vars => MembersAdmitted'
  <2> SUFFICES ASSUME Ind, Ind', MembersAdmitted, [Next]_vars, NEW u \in User, Member(u)'
               PROVE  creator' = u \/ \E i \in Invitation : Shown(i)'
    BY DEF MembersAdmitted, Shown
  <2>1. CASE ~Member(u)
    BY <2>1, Newcomers
  <2>2. CASE Member(u)
    <3>1. Open /\ Open'
      BY <2>2 DEF Ind, NoOrphans
    <3>2. u = creator \/ \E i \in Invitation : Shown(i)
      BY <2>2 DEF MembersAdmitted, Shown
    <3> QED
      BY <3>1, <3>2, ShownStays, CreatorStays DEF CompleteOnboarding, Open
  <2> QED
    BY <2>1, <2>2
<1> QED
  BY <1>1, <1>2, SpecInd, PTL DEF Spec

-----------------------------------------------------------------------------
\* As long as nobody has demoted, removed or deleted an owner, an open workspace has
\* one: transferTeamOwnership, any number of times and at once, never loses it
\* (OwnerUnlessHit).
THEOREM Ownership == Spec => []OwnerUnlessHit
<1>1. Init => OwnerUnlessHit
  BY DEF Init, OwnerUnlessHit, Open
<1>2. Ind /\ OwnerUnlessHit /\ [Next]_vars => OwnerUnlessHit'
  <2> SUFFICES ASSUME Ind, OwnerUnlessHit, [Next]_vars, Open', ~hit'
               PROVE  \E u \in User : role'[u] = "OWNER"
    BY DEF OwnerUnlessHit, Open
  <2>1. CASE \E v \in User : CompleteOnboarding(v)
    BY <2>1 DEF CompleteOnboarding, Ind, TypeOK
  <2>2. CASE \E c \in Call : DeleteWorkspace(c)
    BY <2>2 DEF DeleteWorkspace, Open
  <2>3. CASE ~\E v \in User : CompleteOnboarding(v)
    <3>1. Open
      BY <2>3, CreatorStays DEF Open
    <3>2. ~hit
      BY DEF Next, vars, tables, Hits, EnsureUser, Expire, Claim, CheckTarget, InviteLook, TransferLook,
             DeleteLook, AcceptLook, InviteInsert, RevokeInvite, ChangeRole, Reply, RemoveMember,
             InviteFails, Rejoin, Accept, HeirLook, Transfer, DeleteWorkspace, DeleteAccount,
             DeleteRefused, CompleteOnboarding
    <3>3. PICK u \in User : role[u] = "OWNER"
      BY <3>1, <3>2 DEF OwnerUnlessHit
    <3>4. ASSUME NEW c \in Call, (\E r \in Given : ChangeRole(c, r)) \/ RemoveMember(c)
          PROVE  role'[u] = "OWNER"
      <4>1. target[c] \in User
        BY <3>4 DEF ChangeRole, RemoveMember, Ind, Aimed, AimedAt
      <4>2. role[target[c]] # "OWNER"
        BY <3>4 DEF ChangeRole, RemoveMember, Hits
      <4> QED
        BY <3>3, <3>4, <4>1, <4>2 DEF ChangeRole, RemoveMember, Ind, TypeOK
    <3>5. ASSUME NEW c \in Call, Transfer(c) PROVE \E v \in User : role'[v] = "OWNER"
      <4>1. target[c] \in User
        BY <3>5 DEF Transfer, Ind, Aimed, AimedAt
      <4>2. CASE Promotes(c)
        BY <3>5, <4>1, <4>2 DEF Transfer, Promotes, Member
      <4>3. CASE ~Promotes(c)
        BY <3>3, <3>5, <4>3 DEF Transfer
      <4> QED
        BY <4>2, <4>3
    <3>6. ASSUME NEW c \in Call, Accept(c) PROVE role'[u] = "OWNER"
      <4>1. CASE Joins(c)
        BY <3>3, <3>6, <4>1, Joining DEF Joins, Member, Ind, TypeOK
      <4>2. CASE ~Joins(c)
        BY <3>3, <3>6, <4>2 DEF Accept
      <4> QED
        BY <4>1, <4>2
    <3>7. ASSUME NEW c \in Call, DeleteAccount(c) PROVE role'[u] = "OWNER"
      <4>1. who[c] \in User
        BY <3>7 DEF DeleteAccount, Ind, Aimed, AimedAt
      <4>2. ~(claim[c] = "OWNER" /\ Open)
        BY <3>7 DEF DeleteAccount, Open
      <4>3. role' = role \/ (role' = [role EXCEPT ![who[c]] = None] /\ role[who[c]] # "OWNER")
        BY <3>7, <4>2 DEF DeleteAccount
      <4> QED
        BY <3>3, <4>1, <4>3 DEF Ind, TypeOK
    <3> QED
      BY <2>2, <2>3, <3>3, <3>4, <3>5, <3>6, <3>7
      DEF Next, vars, tables, EnsureUser, Expire, Claim, CheckTarget, InviteLook, TransferLook,
          DeleteLook, AcceptLook, InviteInsert, RevokeInvite, Reply, InviteFails, Rejoin,
          HeirLook, DeleteRefused
  <2> QED
    BY <2>1, <2>3
<1> QED
  BY <1>1, <1>2, SpecInd, PTL DEF Spec
=============================================================================
