CONSTANTS
    Texts = {"t1"}
    Width = 2
    JunkKeys = {"queueId"}
    BareHeaders = FALSE
SPECIFICATION Spec
INVARIANT NoPanic
