------------------------------ MODULE Accounts ------------------------------
(***************************************************************************)
(* Who may do what: the setup claim of the first owner, the invitations,   *)
(* and the memberships they make.  Every request is a Worker's, so its     *)
(* reads and writes of D1 mix with those of the other requests; only one   *)
(* statement, or one batch, is atomic.                                     *)
(*                                                                         *)
(* Better Auth is external: a signed-in user and its email are one here    *)
(* (emails are unique), and an invitation's token is the invitation.       *)
(***************************************************************************)
EXTENDS Integers, FiniteSets

CONSTANTS
    Users,         \* signed-in users, each with its normalized email
    NoUser,
    Invitations,   \* ids of the rows that handleCreateInvitation inserts
    Requests,      \* requests, which the Workers carry out concurrently
    InvitedRoles,  \* the roles that invitations are sent for
    InviteTTL,     \* INVITATION_TTL_DAYS
    MaxTime        \* bound: the clock

ASSUME AccountsAssumption ==
    /\ NoUser \notin Users
    /\ {"claim", "none"} \cap Invitations = {}
    /\ InvitedRoles \subseteq {"owner", "admin", "developer", "viewer"}
    /\ InviteTTL \in Nat \ {0} /\ MaxTime \in Nat

VARIABLES
    memberships,  \* the row of each user: its role, and what made it
    invitations,  \* the row of each invitation
    request,      \* the handler that carries out each request, and its step
    now

vars == <<memberships, invitations, request, now>>

-----------------------------------------------------------------------------
(* The policy: can, canInviteRole *)

Roles == {"owner", "admin", "developer", "viewer"}
Actions == {"members:invite", "members:invite-owner", "members:manage", "sessions:create",
            "sessions:read", "sessions:control", "runs:approve", "preview:start"}
Policy ==
    [owner |-> Actions,
     admin |-> Actions \ {"members:invite-owner"},
     developer |-> {"sessions:create", "sessions:read", "sessions:control", "runs:approve",
                    "preview:start"},
     viewer |-> {"sessions:read"}]
Can(role, action) == action \in Policy[role]

CanInviteRole(inviter, role) ==
    Can(inviter, "members:invite") /\ (role = "owner" => Can(inviter, "members:invite-owner"))

-----------------------------------------------------------------------------
(* Rows *)

NoMember == [role |-> "none", via |-> "none"]
IsMember(u) == memberships[u] # NoMember
RoleOf(u) == memberships[u].role
OwnerExists == \E u \in Users : RoleOf(u) = "owner"

\* requireAuthContext.
Authorized(u, action) == IsMember(u) /\ Can(RoleOf(u), action)

NoInvitation == [email |-> NoUser, role |-> "none", by |-> NoUser, expires |-> 0,
                 accepted |-> FALSE, revoked |-> FALSE]
Exists(i) == invitations[i] # NoInvitation

\* inviteStatus = "pending", which is also the condition of the statements.
PendingAt(i, t) ==
    /\ Exists(i) /\ invitations[i].expires > t
    /\ ~invitations[i].accepted /\ ~invitations[i].revoked
Pending(i) == PendingAt(i, now)

\* Requests: each is one call of a handler; args that a handler has no use for
\* have the value they had.  `at` is the handler's `const now`, read once at its
\* check and bound by the statements that come later.
Idle == [op |-> "none", step |-> "none", user |-> NoUser, email |-> NoUser, role |-> "none",
         id |-> "none", at |-> 0]
Begins(c, call) == request[c] = Idle /\ request' = [request EXCEPT ![c] = call]
At(c, op, step) == request[c].op = op /\ request[c].step = step
Goes(c, step) == request' = [request EXCEPT ![c].step = step]
Ends(c) == request' = [request EXCEPT ![c] = Idle]
Passes(c, test, step) == IF test THEN Goes(c, step) ELSE Ends(c)
GoesNow(c, step) == request' = [request EXCEPT ![c] = [@ EXCEPT !.step = step, !.at = now]]
PassesNow(c, test, step) == IF test THEN GoesNow(c, step) ELSE Ends(c)

-----------------------------------------------------------------------------
(* handleSetupClaim *)

ClaimBegins(c, u) ==
    /\ Begins(c, [Idle EXCEPT !.op = "claim", !.step = "check", !.user = u])
    /\ UNCHANGED <<memberships, invitations, now>>

\* The check that answers most late claims; the token is verified behind it.
ClaimChecks(c) ==
    /\ At(c, "claim", "check")
    /\ Passes(c, ~OwnerExists, "insert")
    /\ UNCHANGED <<memberships, invitations, now>>

\* createOwnerMembershipInsert: inserts where there is no owner; the primary key
\* refuses a user who already is a member.
MayInsertMember(u) == ~IsMember(u)
MayInsertOwner(u) == ~OwnerExists /\ MayInsertMember(u)
ClaimInserts(c) ==
    LET u == request[c].user
    IN  /\ At(c, "claim", "insert")
        /\ memberships' = IF MayInsertOwner(u)
                            THEN [memberships EXCEPT ![u] = [role |-> "owner", via |-> "claim"]]
                            ELSE memberships
        /\ Ends(c)
        /\ UNCHANGED <<invitations, now>>

-----------------------------------------------------------------------------
(* handleCreateInvitation *)

InviteBegins(c, u, email, role) ==
    /\ email # u
    /\ Authorized(u, "members:invite") /\ CanInviteRole(RoleOf(u), role)
    /\ Begins(c, [Idle EXCEPT !.op = "invite", !.step = "member", !.user = u,
                              !.email = email, !.role = role])
    /\ UNCHANGED <<memberships, invitations, now>>

\* membershipByEmailSelect.
InviteChecksMember(c) ==
    /\ At(c, "invite", "member")
    /\ Passes(c, ~IsMember(request[c].email), "pending")
    /\ UNCHANGED <<memberships, invitations, now>>

\* pendingInviteByEmailSelect.
IsInvited(email) == \E i \in Invitations : Pending(i) /\ invitations[i].email = email
InviteChecksPending(c) ==
    /\ At(c, "invite", "pending")
    /\ PassesNow(c, ~IsInvited(request[c].email), "insert")
    /\ UNCHANGED <<memberships, invitations, now>>

InviteInserts(c) ==
    /\ At(c, "invite", "insert")
    /\ \E i \in Invitations :
         /\ ~Exists(i)
         /\ invitations' = [invitations EXCEPT ![i] =
              [email |-> request[c].email, role |-> request[c].role, by |-> request[c].user,
               expires |-> request[c].at + InviteTTL, accepted |-> FALSE, revoked |-> FALSE]]
    /\ Ends(c)
    /\ UNCHANGED <<memberships, now>>

-----------------------------------------------------------------------------
(* handleAcceptInvite *)

AcceptBegins(c, u, i) ==
    /\ Exists(i) /\ ~IsMember(u)
    /\ Begins(c, [Idle EXCEPT !.op = "accept", !.step = "check", !.user = u, !.id = i])
    /\ UNCHANGED <<memberships, invitations, now>>

AcceptChecks(c) ==
    LET i == request[c].id
    IN  /\ At(c, "accept", "check")
        /\ PassesNow(c, Pending(i) /\ invitations[i].email = request[c].user, "batch")
        /\ UNCHANGED <<memberships, invitations, now>>

\* One batch: the membership from the row if it is still pending, by the time of
\* the check, and the acceptance of the row.  A primary key that exists aborts
\* both.
WasPending(i, t) == Exists(i)
StillPending(i, t) == PendingAt(i, t)
AcceptCommits(c) ==
    LET i == request[c].id
        u == request[c].user
        commits == StillPending(i, request[c].at) /\ MayInsertMember(u)
    IN  /\ At(c, "accept", "batch")
        /\ memberships' = IF commits
              THEN [memberships EXCEPT ![u] = [role |-> invitations[i].role, via |-> i]]
              ELSE memberships
        /\ invitations' = IF commits THEN [invitations EXCEPT ![i].accepted = TRUE] ELSE invitations
        /\ Ends(c)
        /\ UNCHANGED <<now>>

-----------------------------------------------------------------------------
(* handleRevokeInvitation *)

RevokeBegins(c, u, i) ==
    /\ Authorized(u, "members:invite") /\ Exists(i)
    /\ Begins(c, [Idle EXCEPT !.op = "revoke", !.step = "check", !.user = u, !.id = i])
    /\ UNCHANGED <<memberships, invitations, now>>

RevokeChecks(c) ==
    /\ At(c, "revoke", "check")
    /\ Passes(c, Pending(request[c].id), "update")
    /\ UNCHANGED <<memberships, invitations, now>>

\* revokeInvitationUpdate, which does not look at the expiry.
MayRevoke(i) == ~invitations[i].accepted /\ ~invitations[i].revoked
RevokeUpdates(c) ==
    LET i == request[c].id
    IN  /\ At(c, "revoke", "update")
        /\ invitations' = IF MayRevoke(i) THEN [invitations EXCEPT ![i].revoked = TRUE] ELSE invitations
        /\ Ends(c)
        /\ UNCHANGED <<memberships, now>>

Tick ==
    /\ now < MaxTime /\ now' = now + 1
    /\ UNCHANGED <<memberships, invitations, request>>

\* A request is cut off between two awaits.
Cut(c) ==
    /\ request[c] # Idle /\ Ends(c)
    /\ UNCHANGED <<memberships, invitations, now>>

-----------------------------------------------------------------------------
Init ==
    /\ memberships = [u \in Users |-> NoMember]
    /\ invitations = [i \in Invitations |-> NoInvitation]
    /\ request = [c \in Requests |-> Idle]
    /\ now = 0

Claiming(c) == (\E u \in Users : ClaimBegins(c, u)) \/ ClaimChecks(c) \/ ClaimInserts(c)
Inviting(c) ==
    \/ \E u, email \in Users, role \in InvitedRoles : InviteBegins(c, u, email, role)
    \/ InviteChecksMember(c) \/ InviteChecksPending(c) \/ InviteInserts(c)
Accepting(c) ==
    (\E u \in Users, i \in Invitations : AcceptBegins(c, u, i)) \/ AcceptChecks(c) \/ AcceptCommits(c)
Revoking(c) ==
    (\E u \in Users, i \in Invitations : RevokeBegins(c, u, i)) \/ RevokeChecks(c) \/ RevokeUpdates(c)

Next ==
    \/ \E c \in Requests :
         Claiming(c) \/ Inviting(c) \/ Accepting(c) \/ Revoking(c) \/ Cut(c)
    \/ Tick

Spec == Init /\ [][Next]_vars

-----------------------------------------------------------------------------
(* Properties *)

\* However many claims race, one user becomes owner by the setup token, and
\* nobody is a member before ("concurrent D1 requests must not be able to
\* observe no owner and both promote themselves", memberships.ts).
Claimants == {u \in Users : memberships[u].via = "claim"}
OneSetupClaim ==
    /\ Cardinality(Claimants) =< 1
    /\ (\E u \in Users : IsMember(u)) => Cardinality(Claimants) = 1

\* An invitation makes one member, with its role and for its email, or it is
\* revoked, and never both; every other member is the claimant.
MadeBy(i) == {u \in Users : memberships[u].via = i}
InvitationMakesItsMember ==
    /\ \A i \in Invitations :
         /\ invitations[i].accepted => MadeBy(i) = {invitations[i].email} /\ ~invitations[i].revoked
         /\ ~invitations[i].accepted => MadeBy(i) = {}
    /\ \A u \in Users : memberships[u].via \in Invitations =>
         RoleOf(u) = invitations[memberships[u].via].role

\* No chain of invitations raises a role, although the role of the inviter is
\* read long before the row is inserted: an owner is the claimant or was invited
\* by an owner, and every invitation is by a member who may send it.
RolesAreGranted ==
    /\ \A i \in Invitations : Exists(i) => RoleOf(invitations[i].by) \in {"owner", "admin"}
    /\ \A u \in Users : RoleOf(u) = "owner" =>
         \/ memberships[u].via = "claim"
         \/ RoleOf(invitations[memberships[u].via].by) = "owner"
=============================================================================
