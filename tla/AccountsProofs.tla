--------------------------- MODULE AccountsProofs ---------------------------
(***************************************************************************)
(* Setup is claimed once, invitations make their members and grant no more *)
(* than their senders hold, for any number of users, invitations and       *)
(* requests in flight.                                                     *)
(*                                                                         *)
(* A handler checks in one statement and writes in a later one.  The proof *)
(* rests on what stays true between the two: a member stays what it is,    *)
(* and a row keeps its email, role and sender.                             *)
(***************************************************************************)
EXTENDS Accounts, FiniteSetTheorems, TLAPS

Members == [role : Roles \cup {"none"}, via : Invitations \cup {"claim", "none"}]
Rows == [email : Users \cup {NoUser}, role : Roles \cup {"none"}, by : Users \cup {NoUser},
         expires : Nat, accepted : BOOLEAN, revoked : BOOLEAN]
Calls == [op : {"none", "claim", "invite", "accept", "revoke"},
          step : {"none", "check", "insert", "member", "pending", "batch", "update"},
          user : Users \cup {NoUser}, email : Users \cup {NoUser},
          role : Roles \cup {"none"}, id : Invitations \cup {"none"}, at : Nat]

\* Every row and every request has its type.
TypeOK ==
    /\ memberships \in [Users -> Members]
    /\ invitations \in [Invitations -> Rows]
    /\ request \in [Requests -> Calls]
    /\ now \in Nat

\* There is at most one claimant, an owner, and one if there is any member.
ClaimantsAgree ==
    \A u, v \in Users : memberships[u].via = "claim" /\ memberships[v].via = "claim" => u = v
ClaimantOwns == \A u \in Users : memberships[u].via = "claim" => RoleOf(u) = "owner"
MembersFollowClaim ==
    (\E u \in Users : IsMember(u)) => \E u \in Users : memberships[u].via = "claim"

\* What a sender may send at the check, it may send ever after.
Grants(u, role) ==
    /\ u \in Users /\ role \in Roles /\ RoleOf(u) \in {"owner", "admin"}
    /\ role = "owner" => RoleOf(u) = "owner"
SendersGrant ==
    \A i \in Invitations : Exists(i) => Grants(invitations[i].by, invitations[i].role)

\* A membership and the invitation that made it refer to each other.
MembersAreInvited ==
    \A u \in Users : \A i \in Invitations : memberships[u].via = i =>
        /\ invitations[i].accepted /\ invitations[i].email = u
        /\ RoleOf(u) = invitations[i].role
AcceptedHaveMember ==
    \A i \in Invitations : invitations[i].accepted =>
        /\ ~invitations[i].revoked /\ Exists(i) /\ invitations[i].email \in Users
        /\ memberships[invitations[i].email].via = i
MemberIsMade ==
    \A u \in Users :
        /\ memberships[u].via = "none" <=> ~IsMember(u)
        /\ RoleOf(u) = "none" <=> ~IsMember(u)

RowInv ==
    /\ ClaimantsAgree /\ ClaimantOwns /\ MembersFollowClaim /\ SendersGrant
    /\ MembersAreInvited /\ AcceptedHaveMember /\ MemberIsMade

\* What a request in flight has learned from its checks still holds: its sender
\* may send, its row exists, and an acceptance is by the one who was invited.
Sound(q) ==
    /\ q.op = "claim" => q.user \in Users
    /\ q.op = "invite" => Grants(q.user, q.role) /\ q.email \in Users
    /\ q.op \in {"accept", "revoke"} => q.id \in Invitations /\ Exists(q.id)
    /\ q.op = "accept" => q.user \in Users
    /\ q.op = "accept" /\ q.step = "batch" => invitations[q.id].email = q.user
RequestsAreSound == \A c \in Requests : Sound(request[c])

\* No step takes a membership away or turns a row into another.
Kept ==
    /\ \A u \in Users : IsMember(u) => memberships'[u] = memberships[u]
    /\ \A i \in Invitations : Exists(i) =>
         /\ invitations'[i] # NoInvitation
         /\ invitations'[i].email = invitations[i].email
         /\ invitations'[i].role = invitations[i].role
         /\ invitations'[i].by = invitations[i].by

IInv == TypeOK /\ RowInv /\ RequestsAreSound

-----------------------------------------------------------------------------
(* Types *)

\* What a request becomes has its type.
LEMMA CallTypes ==
  ASSUME TypeOK, NEW c \in Requests
  PROVE  /\ Idle \in Calls
         /\ Ends(c) => request' \in [Requests -> Calls]
         /\ \A step \in {"insert", "pending", "batch", "update"} :
              Goes(c, step) \/ GoesNow(c, step) => request' \in [Requests -> Calls]
         /\ \A call \in Calls : Begins(c, call) => request' \in [Requests -> Calls]
<1>1. Idle \in Calls
  BY DEF Idle, Calls, Roles
<1>2. \A step \in {"insert", "pending", "batch", "update"} :
        /\ [request[c] EXCEPT !.step = step] \in Calls
        /\ [request[c] EXCEPT !.step = step, !.at = now] \in Calls
  BY DEF TypeOK, Calls
<1> QED
  BY <1>1, <1>2 DEF TypeOK, Ends, Goes, GoesNow, Begins

\* The types survive every step; an acceptance takes the role of a row that exists.
LEMMA TypeStep == ASSUME TypeOK, RequestsAreSound, Next PROVE TypeOK'
<1> USE AccountsAssumption
<1>1. ASSUME NEW c \in Requests, Claiming(c) PROVE TypeOK'
  <2>1. ASSUME NEW u \in Users, ClaimBegins(c, u) PROVE TypeOK'
    BY <2>1, CallTypes DEF ClaimBegins, TypeOK, Calls, Idle
  <2>2. CASE ClaimChecks(c)
    BY <2>2, CallTypes DEF ClaimChecks, Passes, TypeOK
  <2>3. CASE ClaimInserts(c)
    <3>1. memberships' \in [Users -> Members]
      BY <2>3 DEF ClaimInserts, TypeOK, Members, Roles
    <3> QED
      BY <2>3, <3>1, CallTypes DEF ClaimInserts, TypeOK
  <2> QED
    BY <1>1, <2>1, <2>2, <2>3 DEF Claiming
<1>2. ASSUME NEW c \in Requests, Inviting(c) PROVE TypeOK'
  <2>1. ASSUME NEW u \in Users, NEW email \in Users, NEW role \in InvitedRoles,
               InviteBegins(c, u, email, role)
        PROVE  TypeOK'
    BY <2>1, CallTypes DEF InviteBegins, TypeOK, Calls, Idle, Roles
  <2>2. CASE InviteChecksMember(c)
    BY <2>2, CallTypes DEF InviteChecksMember, Passes, TypeOK
  <2>3. CASE InviteChecksPending(c)
    BY <2>3, CallTypes DEF InviteChecksPending, PassesNow, TypeOK
  <2>4. CASE InviteInserts(c)
    <3>1. invitations' \in [Invitations -> Rows]
      BY <2>4 DEF InviteInserts, TypeOK, Rows, Calls
    <3> QED
      BY <2>4, <3>1, CallTypes DEF InviteInserts, TypeOK
  <2> QED
    BY <1>2, <2>1, <2>2, <2>3, <2>4 DEF Inviting
<1>3. ASSUME NEW c \in Requests, Accepting(c) PROVE TypeOK'
  <2>1. ASSUME NEW u \in Users, NEW i \in Invitations, AcceptBegins(c, u, i) PROVE TypeOK'
    BY <2>1, CallTypes DEF AcceptBegins, TypeOK, Calls, Idle
  <2>2. CASE AcceptChecks(c)
    BY <2>2, CallTypes DEF AcceptChecks, PassesNow, TypeOK
  <2>3. CASE AcceptCommits(c)
    <3>1. \A row \in Rows : [row EXCEPT !.accepted = TRUE] \in Rows
      BY DEF Rows
    <3>2. invitations' \in [Invitations -> Rows]
      BY <2>3, <3>1 DEF AcceptCommits, TypeOK
    <3>3. request[c].id \in Invitations /\ invitations[request[c].id].role \in Roles \cup {"none"}
      BY <2>3 DEF AcceptCommits, At, RequestsAreSound, Sound, TypeOK, Rows
    <3>4. memberships' \in [Users -> Members]
      BY <2>3, <3>3 DEF AcceptCommits, TypeOK, Members, Rows, Calls
    <3> QED
      BY <2>3, <3>2, <3>4, CallTypes DEF AcceptCommits, TypeOK
  <2> QED
    BY <1>3, <2>1, <2>2, <2>3 DEF Accepting
<1>4. ASSUME NEW c \in Requests, Revoking(c) PROVE TypeOK'
  <2>1. ASSUME NEW u \in Users, NEW i \in Invitations, RevokeBegins(c, u, i) PROVE TypeOK'
    BY <2>1, CallTypes DEF RevokeBegins, TypeOK, Calls, Idle
  <2>2. CASE RevokeChecks(c)
    BY <2>2, CallTypes DEF RevokeChecks, Passes, TypeOK
  <2>3. CASE RevokeUpdates(c)
    <3>1. \A row \in Rows : [row EXCEPT !.revoked = TRUE] \in Rows
      BY DEF Rows
    <3>2. invitations' \in [Invitations -> Rows]
      BY <2>3, <3>1 DEF RevokeUpdates, TypeOK
    <3> QED
      BY <2>3, <3>2, CallTypes DEF RevokeUpdates, TypeOK
  <2> QED
    BY <1>4, <2>1, <2>2, <2>3 DEF Revoking
<1>5. ASSUME NEW c \in Requests, Cut(c) PROVE TypeOK'
  BY <1>5, CallTypes DEF Cut, TypeOK
<1>6. CASE Tick
  BY <1>6 DEF Tick, TypeOK
<1> QED
  BY <1>1, <1>2, <1>3, <1>4, <1>5, <1>6 DEF Next

-----------------------------------------------------------------------------
(* Rows.  Only four statements write. *)

Writes(c) == ClaimInserts(c) \/ InviteInserts(c) \/ AcceptCommits(c) \/ RevokeUpdates(c)

\* Every other step leaves the rows alone.
LEMMA WritesOrNot ==
  ASSUME Next
  PROVE  UNCHANGED <<memberships, invitations>> \/ \E c \in Requests : Writes(c)
<1>1. ASSUME NEW c \in Requests, Claiming(c) PROVE UNCHANGED <<memberships, invitations>> \/ Writes(c)
  BY <1>1 DEF Claiming, ClaimBegins, ClaimChecks, Writes
<1>2. ASSUME NEW c \in Requests, Inviting(c) PROVE UNCHANGED <<memberships, invitations>> \/ Writes(c)
  BY <1>2 DEF Inviting, InviteBegins, InviteChecksMember, InviteChecksPending, Writes
<1>3. ASSUME NEW c \in Requests, Accepting(c) PROVE UNCHANGED <<memberships, invitations>> \/ Writes(c)
  BY <1>3 DEF Accepting, AcceptBegins, AcceptChecks, Writes
<1>4. ASSUME NEW c \in Requests, Revoking(c) PROVE UNCHANGED <<memberships, invitations>> \/ Writes(c)
  BY <1>4 DEF Revoking, RevokeBegins, RevokeChecks, Writes
<1> QED
  BY <1>1, <1>2, <1>3, <1>4 DEF Next, Cut, Tick

\* The statements leave members and rows what they are.
LEMMA KeptStep == ASSUME TypeOK, Next PROVE Kept
<1> USE DEF TypeOK, Kept, IsMember, Exists
<1>1. CASE UNCHANGED <<memberships, invitations>>
  BY <1>1
<1>2. ASSUME NEW c \in Requests, ClaimInserts(c) PROVE Kept
  BY <1>2 DEF ClaimInserts, MayInsertOwner, MayInsertMember
<1>3. ASSUME NEW c \in Requests, InviteInserts(c) PROVE Kept
  BY <1>3 DEF InviteInserts
<1>4. ASSUME NEW c \in Requests, AcceptCommits(c) PROVE Kept
  BY <1>4 DEF AcceptCommits, MayInsertMember, Rows, NoInvitation
<1>5. ASSUME NEW c \in Requests, RevokeUpdates(c) PROVE Kept
  BY <1>5 DEF RevokeUpdates, Rows, NoInvitation
<1> QED
  BY <1>1, <1>2, <1>3, <1>4, <1>5, WritesOrNot DEF Writes

\* The insert of the first owner: nobody is an owner, so nobody is a claimant,
\* so nobody is a member.
LEMMA ClaimKeepsRows ==
  ASSUME TypeOK, RowInv, RequestsAreSound, NEW c \in Requests, ClaimInserts(c)
  PROVE  RowInv'
<1> USE DEF TypeOK, RowInv
<1> DEFINE u == request[c].user
<1>1. CASE ~MayInsertOwner(u)
  <2>1. UNCHANGED <<memberships, invitations>>
    BY <1>1 DEF ClaimInserts
  <2> QED
    BY <2>1 DEF ClaimantsAgree, ClaimantOwns, MembersFollowClaim, SendersGrant, MembersAreInvited,
                AcceptedHaveMember, MemberIsMade, RoleOf, IsMember, Exists, Grants
<1>2. CASE MayInsertOwner(u)
  <2>1. /\ u \in Users /\ invitations' = invitations
        /\ memberships' = [memberships EXCEPT ![u] = [role |-> "owner", via |-> "claim"]]
    BY <1>2 DEF ClaimInserts, RequestsAreSound, Sound, At
  <2>2. \A v \in Users : memberships[v] = NoMember
    BY <1>2 DEF MayInsertOwner, OwnerExists, ClaimantOwns, MembersFollowClaim, IsMember
  <2>3. \A i \in Invitations : ~Exists(i) /\ ~invitations[i].accepted
    BY <2>2 DEF SendersGrant, Grants, RoleOf, NoMember, Exists, NoInvitation
  <2>4. \A v \in Users : memberships'[v] = IF v = u THEN [role |-> "owner", via |-> "claim"] ELSE NoMember
    BY <2>1, <2>2
  <2>5. ClaimantsAgree' /\ ClaimantOwns' /\ MembersFollowClaim' /\ MemberIsMade'
    BY <2>1, <2>4 DEF ClaimantsAgree, ClaimantOwns, MembersFollowClaim, MemberIsMade, RoleOf, IsMember, NoMember
  <2>6. SendersGrant' /\ AcceptedHaveMember'
    BY <2>1, <2>3 DEF SendersGrant, AcceptedHaveMember, Exists
  <2>7. MembersAreInvited'
    BY <2>4, AccountsAssumption DEF MembersAreInvited, NoMember
  <2> QED
    BY <2>5, <2>6, <2>7
<1> QED
  BY <1>1, <1>2

\* The insert of an invitation: its sender could send it at the check, and can.
LEMMA InviteKeepsRows ==
  ASSUME TypeOK, RowInv, RequestsAreSound, NEW c \in Requests, InviteInserts(c)
  PROVE  RowInv'
<1> USE DEF TypeOK, RowInv
<1>1. PICK i \in Invitations :
        /\ ~Exists(i)
        /\ invitations' = [invitations EXCEPT ![i] =
             [email |-> request[c].email, role |-> request[c].role, by |-> request[c].user,
              expires |-> request[c].at + InviteTTL, accepted |-> FALSE, revoked |-> FALSE]]
  BY DEF InviteInserts
<1>2. memberships' = memberships /\ Grants(request[c].user, request[c].role)
  BY DEF InviteInserts, RequestsAreSound, Sound, At
<1>3. /\ invitations'[i].by = request[c].user /\ invitations'[i].role = request[c].role
      /\ ~invitations'[i].accepted /\ ~invitations[i].accepted
      /\ \A j \in Invitations \ {i} : invitations'[j] = invitations[j]
  BY <1>1 DEF Exists, NoInvitation
<1>4. ClaimantsAgree' /\ ClaimantOwns' /\ MembersFollowClaim' /\ MemberIsMade'
  BY <1>2 DEF ClaimantsAgree, ClaimantOwns, MembersFollowClaim, MemberIsMade, RoleOf, IsMember
<1>5. SendersGrant'
  BY <1>2, <1>3 DEF SendersGrant, Grants, RoleOf, Exists
<1>6. MembersAreInvited' /\ AcceptedHaveMember'
  BY <1>2, <1>3 DEF MembersAreInvited, AcceptedHaveMember, RoleOf, Exists
<1> QED
  BY <1>4, <1>5, <1>6

\* The batch of an acceptance: the row was sent by a member, so there is a
\* claimant, and it made nobody yet.
LEMMA AcceptKeepsRows ==
  ASSUME TypeOK, RowInv, RequestsAreSound, NEW c \in Requests, AcceptCommits(c)
  PROVE  RowInv'
<1> USE DEF TypeOK, RowInv
<1> DEFINE u == request[c].user
           i == request[c].id
<1>1. CASE ~(StillPending(i, request[c].at) /\ MayInsertMember(u))
  <2>1. UNCHANGED <<memberships, invitations>>
    BY <1>1 DEF AcceptCommits
  <2> QED
    BY <2>1 DEF ClaimantsAgree, ClaimantOwns, MembersFollowClaim, SendersGrant, MembersAreInvited,
                AcceptedHaveMember, MemberIsMade, RoleOf, IsMember, Exists, Grants
<1>2. CASE StillPending(i, request[c].at) /\ MayInsertMember(u)
  <2>1. /\ u \in Users /\ i \in Invitations /\ invitations[i].email = u
        /\ memberships' = [memberships EXCEPT ![u] = [role |-> invitations[i].role, via |-> i]]
        /\ invitations' = [invitations EXCEPT ![i].accepted = TRUE]
    BY <1>2 DEF AcceptCommits, RequestsAreSound, Sound, At
  <2>2. /\ ~IsMember(u) /\ Exists(i) /\ ~invitations[i].accepted /\ ~invitations[i].revoked
        /\ Grants(invitations[i].by, invitations[i].role)
    BY <1>2, <2>1 DEF StillPending, PendingAt, MayInsertMember, SendersGrant
  <2>3. i # "claim" /\ i # "none"
    BY <2>1, AccountsAssumption
  <2>4. /\ memberships'[u] = [role |-> invitations[i].role, via |-> i]
        /\ \A v \in Users \ {u} : memberships'[v] = memberships[v]
    BY <2>1
  <2>5. /\ invitations'[i] = [invitations[i] EXCEPT !.accepted = TRUE]
        /\ \A j \in Invitations \ {i} : invitations'[j] = invitations[j]
    BY <2>1
  <2>6. /\ invitations'[i].accepted /\ invitations'[i].email = u /\ ~invitations'[i].revoked
        /\ invitations'[i].role = invitations[i].role /\ invitations'[i].by = invitations[i].by
        /\ invitations'[i] # NoInvitation
    BY <2>1, <2>2, <2>5 DEF Rows, NoInvitation
  <2>7. \A v \in Users : memberships'[v].via = "claim" <=> memberships[v].via = "claim"
    BY <2>1, <2>2, <2>3, <2>4 DEF IsMember, NoMember
  <2>8. ClaimantsAgree' /\ ClaimantOwns'
    BY <2>2, <2>3, <2>4, <2>7 DEF ClaimantsAgree, ClaimantOwns, RoleOf
  <2>9. MembersFollowClaim'
    <3>1. \E v \in Users : IsMember(v)
      BY <2>2 DEF Grants, RoleOf, IsMember, NoMember
    <3> QED
      BY <3>1, <2>7 DEF MembersFollowClaim
  <2>10. MemberIsMade'
    <3>1. invitations[i].role # "none"
      BY <2>2 DEF Grants, Roles
    <3> QED
      BY <2>3, <2>4, <3>1 DEF MemberIsMade, IsMember, NoMember, RoleOf
  <2>11. SendersGrant'
    <3>1. \A v \in Users : RoleOf(v) \in {"owner", "admin"} => memberships'[v] = memberships[v]
      BY <2>2, <2>4 DEF IsMember, NoMember, RoleOf
    <3>2. \A j \in Invitations : Exists(j)' =>
            /\ Exists(j) /\ invitations'[j].by = invitations[j].by
            /\ invitations'[j].role = invitations[j].role
      BY <2>2, <2>5, <2>6 DEF Exists
    <3> QED
      BY <3>1, <3>2 DEF SendersGrant, Grants, RoleOf
  <2>12. AcceptedHaveMember'
    <3>1. \A j \in Invitations \ {i} : invitations[j].accepted => invitations[j].email # u
      BY <2>2, AccountsAssumption DEF AcceptedHaveMember, IsMember, NoMember
    <3> QED
      BY <2>1, <2>4, <2>5, <2>6, <3>1 DEF AcceptedHaveMember, Exists
  <2>13. MembersAreInvited'
    <3>1. \A v \in Users \ {u} : memberships[v].via # i
      BY <2>2, <2>1 DEF MembersAreInvited
    <3> QED
      BY <2>1, <2>4, <2>5, <2>6, <3>1 DEF MembersAreInvited, RoleOf
  <2> QED
    BY <2>8, <2>9, <2>10, <2>11, <2>12, <2>13
<1> QED
  BY <1>1, <1>2

\* The update of a revocation: the row was not accepted.
LEMMA RevokeKeepsRows ==
  ASSUME TypeOK, RowInv, RequestsAreSound, NEW c \in Requests, RevokeUpdates(c)
  PROVE  RowInv'
<1> USE DEF TypeOK, RowInv
<1> DEFINE i == request[c].id
<1>1. memberships' = memberships /\ i \in Invitations /\ Exists(i)
  BY DEF RevokeUpdates, RequestsAreSound, Sound, At
<1>2. \A j \in Invitations :
        /\ invitations'[j].email = invitations[j].email
        /\ invitations'[j].role = invitations[j].role
        /\ invitations'[j].by = invitations[j].by
        /\ invitations'[j].accepted = invitations[j].accepted
        /\ invitations[j].accepted => invitations'[j] = invitations[j]
        /\ Exists(j) <=> Exists(j)'
  BY <1>1 DEF RevokeUpdates, MayRevoke, Rows, Exists, NoInvitation
<1>3. ClaimantsAgree' /\ ClaimantOwns' /\ MembersFollowClaim' /\ MemberIsMade'
  BY <1>1 DEF ClaimantsAgree, ClaimantOwns, MembersFollowClaim, MemberIsMade, RoleOf, IsMember
<1>4. SendersGrant'
  BY <1>1, <1>2 DEF SendersGrant, Grants, RoleOf
<1>5. MembersAreInvited' /\ AcceptedHaveMember'
  BY <1>1, <1>2 DEF MembersAreInvited, AcceptedHaveMember, RoleOf
<1> QED
  BY <1>3, <1>4, <1>5

LEMMA RowStep == ASSUME TypeOK, RowInv, RequestsAreSound, Next PROVE RowInv'
<1>1. CASE UNCHANGED <<memberships, invitations>>
  BY <1>1 DEF RowInv, ClaimantsAgree, ClaimantOwns, MembersFollowClaim, SendersGrant, MembersAreInvited,
              AcceptedHaveMember, MemberIsMade, RoleOf, IsMember, Exists, Grants
<1> QED
  BY <1>1, WritesOrNot, ClaimKeepsRows, InviteKeepsRows, AcceptKeepsRows, RevokeKeepsRows DEF Writes

-----------------------------------------------------------------------------
(* Requests *)

\* What was learned stays so, since no member and no row changes.
LEMMA SoundKept == ASSUME TypeOK, Kept PROVE \A q \in Calls : Sound(q) => Sound(q)'
  BY DEF TypeOK, Kept, Sound, Calls, Grants, RoleOf, IsMember, NoMember, Exists, Members

\* One request moves at a time; the others know what they knew.
LEMMA OthersStaySound ==
  ASSUME TypeOK, RequestsAreSound, Kept, NEW c \in Requests, NEW q \in Calls,
         request' = [request EXCEPT ![c] = q], Sound(q)
  PROVE  RequestsAreSound'
<1>1. \A d \in Requests : request'[d] \in Calls /\ Sound(request'[d])
  BY DEF TypeOK, RequestsAreSound
<1> QED
  BY <1>1, SoundKept DEF RequestsAreSound

\* A request that ends knows nothing, one that goes on knows no less.
LEMMA EndsSound ==
  ASSUME TypeOK, RequestsAreSound, Kept, NEW c \in Requests, Ends(c)
  PROVE  RequestsAreSound'
<1>1. Sound(Idle)
  BY DEF Sound, Idle
<1> QED
  BY <1>1, CallTypes, OthersStaySound DEF Ends

LEMMA GoesSound ==
  ASSUME TypeOK, RequestsAreSound, Kept, NEW c \in Requests,
         NEW step \in {"insert", "pending", "batch", "update"}, Goes(c, step) \/ GoesNow(c, step),
         step = "batch" => request[c].op = "accept" /\ invitations[request[c].id].email = request[c].user
  PROVE  RequestsAreSound'
<1>1. request[c] \in Calls /\ Sound(request[c])
  BY DEF TypeOK, RequestsAreSound
<1> DEFINE q == [request[c] EXCEPT !.step = step, !.at = request'[c].at]
<1>5. request'[c].at \in Nat
  BY CallTypes DEF Calls
<1>2. /\ q \in Calls /\ q.op = request[c].op /\ q.user = request[c].user
      /\ q.email = request[c].email /\ q.role = request[c].role /\ q.id = request[c].id
      /\ q.step = step
  BY <1>1, <1>5 DEF Calls
<1>3. Sound(q)
  BY <1>1, <1>2 DEF Sound
<1>4. request' = [request EXCEPT ![c] = q]
  BY <1>1 DEF Goes, GoesNow, TypeOK, Calls
<1> HIDE DEF q
<1> QED
  BY <1>2, <1>3, <1>4, OthersStaySound

\* Every handler learns what its next statement relies on.
LEMMA SoundStep == ASSUME TypeOK, RowInv, RequestsAreSound, Next PROVE RequestsAreSound'
<1>0. Kept
  BY KeptStep
<1> USE <1>0, AccountsAssumption DEF At
<1>1. ASSUME NEW c \in Requests, Claiming(c) PROVE RequestsAreSound'
  <2>1. ASSUME NEW u \in Users, ClaimBegins(c, u) PROVE RequestsAreSound'
    <3> DEFINE q == [Idle EXCEPT !.op = "claim", !.step = "check", !.user = u]
    <3>1. q \in Calls /\ Sound(q)
      BY DEF Calls, Idle, Sound
    <3>2. request' = [request EXCEPT ![c] = q]
      BY <2>1 DEF ClaimBegins, Begins
    <3> HIDE DEF q
    <3> QED
      BY <3>1, <3>2, OthersStaySound
  <2>2. CASE ClaimChecks(c)
    BY <2>2, EndsSound, GoesSound DEF ClaimChecks, Passes
  <2>3. CASE ClaimInserts(c)
    BY <2>3, EndsSound DEF ClaimInserts
  <2> QED
    BY <1>1, <2>1, <2>2, <2>3 DEF Claiming
<1>2. ASSUME NEW c \in Requests, Inviting(c) PROVE RequestsAreSound'
  <2>1. ASSUME NEW u \in Users, NEW email \in Users, NEW role \in InvitedRoles,
               InviteBegins(c, u, email, role)
        PROVE  RequestsAreSound'
    <3> DEFINE q == [Idle EXCEPT !.op = "invite", !.step = "member", !.user = u,
                                 !.email = email, !.role = role]
    <3>1. Grants(u, role)
      <4>1. RoleOf(u) \in Roles
        BY <2>1 DEF InviteBegins, Authorized, RowInv, MemberIsMade, RoleOf, TypeOK, Members
      <4> QED
        BY <2>1, <4>1 DEF InviteBegins, CanInviteRole, Can, Policy, Actions, Grants, Roles
    <3>2. q \in Calls
      BY DEF Calls, Idle, Roles
    <3>3. Sound(q)
      BY <3>1 DEF Idle, Sound
    <3>4. request' = [request EXCEPT ![c] = q]
      BY <2>1 DEF InviteBegins, Begins
    <3> HIDE DEF q
    <3> QED
      BY <3>2, <3>3, <3>4, OthersStaySound
  <2>2. CASE InviteChecksMember(c)
    BY <2>2, EndsSound, GoesSound DEF InviteChecksMember, Passes
  <2>3. CASE InviteChecksPending(c)
    BY <2>3, EndsSound, GoesSound DEF InviteChecksPending, PassesNow
  <2>4. CASE InviteInserts(c)
    BY <2>4, EndsSound DEF InviteInserts
  <2> QED
    BY <1>2, <2>1, <2>2, <2>3, <2>4 DEF Inviting
<1>3. ASSUME NEW c \in Requests, Accepting(c) PROVE RequestsAreSound'
  <2>1. ASSUME NEW u \in Users, NEW i \in Invitations, AcceptBegins(c, u, i)
        PROVE  RequestsAreSound'
    <3> DEFINE q == [Idle EXCEPT !.op = "accept", !.step = "check", !.user = u, !.id = i]
    <3>1. q \in Calls
      BY DEF Calls, Idle
    <3>2. Sound(q)
      BY <2>1 DEF AcceptBegins, Idle, Sound
    <3>3. request' = [request EXCEPT ![c] = q]
      BY <2>1 DEF AcceptBegins, Begins
    <3> HIDE DEF q
    <3> QED
      BY <3>1, <3>2, <3>3, OthersStaySound
  <2>2. CASE AcceptChecks(c)
    BY <2>2, EndsSound, GoesSound DEF AcceptChecks, PassesNow
  <2>3. CASE AcceptCommits(c)
    BY <2>3, EndsSound DEF AcceptCommits
  <2> QED
    BY <1>3, <2>1, <2>2, <2>3 DEF Accepting
<1>4. ASSUME NEW c \in Requests, Revoking(c) PROVE RequestsAreSound'
  <2>1. ASSUME NEW u \in Users, NEW i \in Invitations, RevokeBegins(c, u, i)
        PROVE  RequestsAreSound'
    <3> DEFINE q == [Idle EXCEPT !.op = "revoke", !.step = "check", !.user = u, !.id = i]
    <3>1. q \in Calls
      BY DEF Calls, Idle
    <3>2. Sound(q)
      BY <2>1 DEF RevokeBegins, Idle, Sound
    <3>3. request' = [request EXCEPT ![c] = q]
      BY <2>1 DEF RevokeBegins, Begins
    <3> HIDE DEF q
    <3> QED
      BY <3>1, <3>2, <3>3, OthersStaySound
  <2>2. CASE RevokeChecks(c)
    BY <2>2, EndsSound, GoesSound DEF RevokeChecks, Passes
  <2>3. CASE RevokeUpdates(c)
    BY <2>3, EndsSound DEF RevokeUpdates
  <2> QED
    BY <1>4, <2>1, <2>2, <2>3 DEF Revoking
<1>5. ASSUME NEW c \in Requests, Cut(c) PROVE RequestsAreSound'
  BY <1>5, EndsSound DEF Cut
<1>6. CASE Tick
  <2>1. \A d \in Requests : request'[d] = request[d] /\ request[d] \in Calls
    BY <1>6 DEF Tick, TypeOK
  <2> QED
    BY <2>1, SoundKept DEF RequestsAreSound
<1> QED
  BY <1>1, <1>2, <1>3, <1>4, <1>5, <1>6 DEF Next

-----------------------------------------------------------------------------
(* Theorems *)

\* The inductive invariant: types, what the rows promise each other, and what
\* the requests in flight know of them.
THEOREM AccountsInvariant == Spec => []IInv
<1>1. Init => IInv
  <2> SUFFICES ASSUME Init PROVE IInv
    OBVIOUS
  <2>1. TypeOK
    BY DEF Init, TypeOK, Members, Rows, Calls, NoMember, NoInvitation, Idle, Roles
  <2>2. RowInv
    <3>1. (\A u \in Users : memberships[u] = NoMember) /\ \A i \in Invitations : invitations[i] = NoInvitation
      BY DEF Init
    <3>2. ClaimantsAgree /\ ClaimantOwns /\ MembersFollowClaim /\ MemberIsMade
      BY <3>1 DEF ClaimantsAgree, ClaimantOwns, MembersFollowClaim, MemberIsMade, RoleOf, IsMember, NoMember
    <3>3. SendersGrant /\ AcceptedHaveMember
      <4>1. \A i \in Invitations : ~Exists(i)
        BY <3>1 DEF Exists
      <4>2. \A i \in Invitations : ~invitations[i].accepted
        BY <3>1 DEF NoInvitation
      <4> QED
        BY <4>1, <4>2 DEF SendersGrant, AcceptedHaveMember
    <3>4. MembersAreInvited
      BY <3>1, AccountsAssumption DEF MembersAreInvited, NoMember
    <3> QED
      BY <3>2, <3>3, <3>4 DEF RowInv
  <2>3. RequestsAreSound
    BY DEF Init, RequestsAreSound, Sound, Idle
  <2> QED
    BY <2>1, <2>2, <2>3 DEF IInv
<1>2. IInv /\ [Next]_vars => IInv'
  <2> SUFFICES ASSUME IInv, [Next]_vars PROVE IInv'
    OBVIOUS
  <2>1. CASE Next
    BY <2>1, TypeStep, RowStep, SoundStep DEF IInv
  <2>2. CASE UNCHANGED vars
    BY <2>2 DEF vars, IInv, TypeOK, RowInv, ClaimantsAgree, ClaimantOwns, MembersFollowClaim, SendersGrant,
                MembersAreInvited, AcceptedHaveMember, MemberIsMade, RoleOf, IsMember, Exists, Grants,
                RequestsAreSound, Sound
  <2> QED
    BY <2>1, <2>2
<1> QED
  BY <1>1, <1>2, PTL DEF Spec

\* However many setup claims and other requests race, at most one user is owner
\* by the setup token, and one is if there is any member.
THEOREM SetupIsClaimedOnce == Spec => []OneSetupClaim
<1>1. IInv => OneSetupClaim
  <2> SUFFICES ASSUME IInv PROVE OneSetupClaim
    OBVIOUS
  <2>1. CASE Claimants = {}
    <3>1. Cardinality(Claimants) = 0
      BY <2>1, FS_EmptySet
    <3>2. ~\E u \in Users : IsMember(u)
      BY <2>1 DEF IInv, RowInv, MembersFollowClaim, Claimants
    <3> QED
      BY <3>1, <3>2 DEF OneSetupClaim
  <2>2. CASE Claimants # {}
    <3>1. PICK u \in Users : Claimants = {u}
      BY <2>2 DEF IInv, RowInv, ClaimantsAgree, Claimants
    <3>2. Cardinality(Claimants) = 1
      BY <3>1, FS_Singleton
    <3> QED
      BY <3>2 DEF OneSetupClaim
  <2> QED
    BY <2>1, <2>2
<1> QED
  BY <1>1, AccountsInvariant, PTL

\* Acceptances, revocations and retries of them, in any order, leave an
\* invitation with the one member it was sent to, in its role, or with none.
THEOREM InvitationsMakeTheirMembers == Spec => []InvitationMakesItsMember
<1>1. IInv => InvitationMakesItsMember
  <2> SUFFICES ASSUME IInv PROVE InvitationMakesItsMember
    OBVIOUS
  <2>1. ASSUME NEW i \in Invitations, invitations[i].accepted
        PROVE  MadeBy(i) = {invitations[i].email} /\ ~invitations[i].revoked
    BY <2>1 DEF IInv, RowInv, AcceptedHaveMember, MembersAreInvited, MadeBy
  <2>2. ASSUME NEW i \in Invitations, ~invitations[i].accepted
        PROVE  MadeBy(i) = {}
    BY <2>2 DEF IInv, RowInv, MembersAreInvited, MadeBy
  <2>3. ASSUME NEW u \in Users, memberships[u].via \in Invitations
        PROVE  RoleOf(u) = invitations[memberships[u].via].role
    BY <2>3 DEF IInv, RowInv, MembersAreInvited
  <2> QED
    BY <2>1, <2>2, <2>3 DEF InvitationMakesItsMember
<1> QED
  BY <1>1, AccountsInvariant, PTL

\* No chain of invitations raises a role: who is an owner claimed the setup
\* token or was invited by an owner, and members sent every invitation.
THEOREM NoRoleIsRaised == Spec => []RolesAreGranted
<1>1. IInv => RolesAreGranted
  <2> SUFFICES ASSUME IInv PROVE RolesAreGranted
    OBVIOUS
  <2>1. \A i \in Invitations : Exists(i) => RoleOf(invitations[i].by) \in {"owner", "admin"}
    BY DEF IInv, RowInv, SendersGrant, Grants
  <2>2. ASSUME NEW u \in Users, RoleOf(u) = "owner", memberships[u].via # "claim"
        PROVE  RoleOf(invitations[memberships[u].via].by) = "owner"
    <3>1. memberships[u].via \in Invitations
      BY <2>2 DEF IInv, TypeOK, Members, RowInv, MemberIsMade, IsMember, NoMember, RoleOf
    <3> QED
      BY <2>2, <3>1 DEF IInv, RowInv, MembersAreInvited, AcceptedHaveMember, SendersGrant, Grants
  <2> QED
    BY <2>1, <2>2 DEF RolesAreGranted
<1> QED
  BY <1>1, AccountsInvariant, PTL
====
