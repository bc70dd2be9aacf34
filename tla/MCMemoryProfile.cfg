SPECIFICATION Spec
CONSTANTS
    Holder = {mine, stored}
    Addr = {a1, a2}
    saved = saved
    user = user
    Source = {saved}
    Category = {user}
    OwnKey = {color}
    OwnValue = {blue}
    Foreign <- MCForeign
    ScopeName = {n1}
    Empty = Empty
    Nil = Nil
SYMMETRY Symmetry
PROPERTY ImplementsProfiles
