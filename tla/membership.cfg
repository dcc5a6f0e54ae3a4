SPECIFICATION Spec
CONSTANTS
    c1 = c1
    c2 = c2
    i1 = i1
    Call = {c1, c2}
    User = {u, v, w}
    Invitation = {i1}
    Given = {"MANAGER", "VIEWER"}
    None = None
    Gone = Gone
SYMMETRY Symmetric
INVARIANT NoOrphans
INVARIANT MembersAdmitted
INVARIANT OwnerUnlessHit
