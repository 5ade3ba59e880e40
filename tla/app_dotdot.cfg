CONSTANTS
    a1 = a1
    a2 = a2
    a3 = a3
    unknown = unknown
    ia = ia
    AppNames <- MCAppNames
    Conf <- MCConf
    Names <- MCNames
    Chars <- MCChars
    MaxLen = 4
    IARedirect = ia

SPECIFICATION Spec

INVARIANTS
    DotDotNeverServed

CHECK_DEADLOCK FALSE
