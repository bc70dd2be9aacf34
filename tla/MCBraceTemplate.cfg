SPECIFICATION FairSpec
CONSTANTS
    Char <- MCChar
    Open = "{"
    Close = "}"
    Space = {" "}
    Sources <- MCSources
    AllVars <- MCVars
    MaxLen = 7
    Nil = Nil
CHECK_DEADLOCK FALSE
INVARIANTS AcceptsGrammar SpellsSource NormalForm FilledOnce
PROPERTY Ends
