SPECIFICATION Spec
CONSTANTS
    NULL = NULL
    DefaultManagerLimit = 1
    Person = {p0, p1, p2}
    Founder = p0
    Request = {r1, r2}
    Granted = {"owner", "admin", "member"}
    Subscription <- mc_Subscription
    DepartmentCap = 5
SYMMETRY mc_Symmetry
INVARIANTS
    OrganisationTypeOK
    OwnerStands
    AdminsComeFromTheOwner
    DepartmentsNearLimit
