CONSTANTS
    Texts = {"t1"}
    Width = 2
    JunkKeys = {}
    BareHeaders = TRUE
SPECIFICATION Spec
INVARIANT NoPanic
