SPECIFICATION FormatSpec
CONSTANTS
    Caller = {g1, g2}
    x = x
    y = y
    v1 = v1
    v2 = v2
    lit = lit
    said = said
    k1 = k1
    VarName = {x, y}
    Value = {v1, v2}
    Literal = {lit, said}
    Key = {k1}
    Specs <- MCSpecs
    AllVars <- MCVars
    Histories <- MCHistories
    MaxFormats = 1
    MaxWrites = 2
    Nil = Nil
CHECK_DEADLOCK FALSE
INVARIANTS FailsWholly EachItsOwnLayout RequestsIsolated
PROPERTY ImplementsCalls
