\* Invites, accepts, revocations and removals that overlap.
CONSTANTS
    None = None
    ann = ann
    bob = bob
    eve = eve
    Users = {ann, bob, eve}
    Admins = {}
    Owner <- AnnOwns
    Servers = {s1}
    Invites = {i1, i2}
    Requests = {r1, r2, r3, r4}
    MaxOpen = 3
SPECIFICATION Spec
SYMMETRY Symmetry
INVARIANTS
    IndInv
    OneOpenInvite
    MemberWasInvited
    RowsBelongToServers
    NoCircularWait
CHECK_DEADLOCK FALSE
