SPECIFICATION Spec
CONSTANTS
    Null = Null
    a1 = a1  a2 = a2  a3 = a3
    f1 = f1
    root = root
    Ids = {root, u1, u2}
    Admins = {root}
    Addresses = {a1, a2}
    Lower <- MCLower
    FacebookIds = {f1}
    FacebookEmail <- MCFacebookEmail
    Orgs = {o1}
    FirstInvites <- MCFirstInvites
    Granted = {"OrgOwner", "OrgMember", "NoRole"}
    Rows = {m1, m2}
    Invites = {i1, i2}
    Requests = {r1, r2}
SYMMETRY Symmetry
CHECK_DEADLOCK FALSE
INVARIANTS
    LookUpsAreUnique
    OwnersAreAppointed
    InvitesTellTheTruth
