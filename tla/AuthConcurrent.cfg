\* Registrations, rotations and logouts that overlap.
CONSTANTS
    None = None
    Users = {u1, u2}
    Names = {a}
    Tokens = {k1, k2, k3, k4}
    Requests = {r1, r2, r3, r4, r5}
    MaxOpen = 2
SPECIFICATION Spec
SYMMETRY Symmetry
INVARIANTS
    IndInv
    OneAccountPerEmail
    FanOutBounded
    FanOutInv
    LoginSurvives
CHECK_DEADLOCK FALSE
