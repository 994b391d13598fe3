CONSTANTS
    User = {u1, u2, u3}
    Job = {j1, j2}
    NoUser = NoUser
SYMMETRY MCSymmetry
SPECIFICATION WorkspaceSpec
INVARIANTS
    WorkspaceKeepsOwner
CHECK_DEADLOCK FALSE
