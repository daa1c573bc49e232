SPECIFICATION Spec
CONSTANTS
    Users = {u1, u2, u3}
    NoUser = NoUser
    Invitations = {i1, i2}
    Requests = {c1, c2}
    InvitedRoles = {"owner", "admin"}
    InviteTTL = 1
    MaxTime = 2
INVARIANTS OneSetupClaim InvitationMakesItsMember
SYMMETRY Interchangeable
CHECK_DEADLOCK FALSE
