SPECIFICATION Spec
CONSTANTS
    Users = {u1, u2}
    Invites = {i1}
    Links = {l1, l2}
    Requests = {r1, r2}
    Nobody = Nobody
SYMMETRY NameSymmetry
INVARIANTS TypeOK OneAccountPerInvite OneOpenLink SessionsFollowPassword
PROPERTIES AdminRemains
CHECK_DEADLOCK FALSE
