SPECIFICATION Spec
CONSTANTS
    NULL = NULL
    User = {u1}
    Org = {o1, o2}
    Founded = {o2}
    Token = {k1, k2, k3}
    Request = {r1, r2}
    NewStatus = {"invited", "active"}
INVARIANTS
    SessionsTypeOK
    OneCredentialPerSession
PROPERTIES
    SessionsAreBatons
SYMMETRY mc_Symmetry
