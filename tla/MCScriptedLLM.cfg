SPECIFICATION Spec
CONSTANTS
    Goroutine = {g1, g2}
    Model = {m1, m2, m3}
    r1 = r1
    r2 = r2
    t1 = t1
    Response = {r1, r2}
    Name = {"scripted", "test", "openai", "gpt-4o"}
    Text = {t1}
    Tools = {tools1}
    NoTools = NoTools
    NoModel = NoModel
    Nobody = Nobody
    ErrScriptExhausted = ErrScriptExhausted
    OptionLists <- MCOptionLists
    TextLists <- MCTextLists
    Methods = {"Generate", "WithTools", "WithSchema"}
    MaxCalls = 3
SYMMETRY Symmetry
INVARIANTS TypeOK MutualExclusion EveryTurnOnce TurnsInOrder DerivedResumes DerivedKeepsFields
PROPERTIES OnlyTurnsMoveCursor
