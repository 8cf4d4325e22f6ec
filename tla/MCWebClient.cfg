CONSTANTS
    None = None
    Environments = {1, 2}
    Snapshots <- MCSnapshots
    Texts = {1}
    Users <- MCUsers
    Calls = {c1, c2}
SPECIFICATION Spec
CHECK_DEADLOCK FALSE
SYMMETRY MCSymmetry
INVARIANT ShownBelongsTogether
INVARIANT SignedOutIsBlank
INVARIANT NeverStuck
PROPERTY NoSilentChange
