CONSTANTS
    Texts = {"t1"}
    Width = 2
    JunkKeys = {}
    BareHeaders = FALSE
SPECIFICATION Spec
INVARIANTS NoPanic
PROPERTIES RoundTrip
