CONSTANTS
    Width = 6
    Build = "debug"
SPECIFICATION Spec
INVARIANT NoArithmeticPanic
