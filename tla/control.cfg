SPECIFICATION Spec
CONSTANTS
    Calls = {c1, c2, c3}
    Kinds = {"confirm", "revoke", "repair", "reconcile", "retry",
             "attempt_prepare", "attempt", "release", "charge"}
    Faults = {"prepare", "store", "unclear", "late", "anchorWrite",
              "anchorSync"}
    MaxRestarts = 1
    None = None
INVARIANTS AnchorRestorable AnswersHold TrustedNotRevoked
SYMMETRY Symmetry
CHECK_DEADLOCK FALSE
