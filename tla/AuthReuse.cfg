\* The exchange of a revoked token: what is left of its UPDATE.
CONSTANTS
    None = None
    Users = {u1, u2}
    Names = {a}
    Tokens = {k1, k2, k3}
    Requests = {r1, r2, r3, r4}
    MaxOpen = 2
SPECIFICATION Spec
SYMMETRY Symmetry
INVARIANTS
    ReuseRevokesAll
CHECK_DEADLOCK FALSE
