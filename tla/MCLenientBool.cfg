CONSTANTS
    Texts = {"t1"}
    Width = 2
    JunkKeys = {"setZeroIfNotFound"}
    BareHeaders = FALSE
SPECIFICATION Spec
PROPERTY StrictDecode
