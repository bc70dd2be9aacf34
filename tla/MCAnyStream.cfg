SPECIFICATION SpecAny
CONSTANTS
    Index = {0, 1}
    c1 = c1
    c2 = c2
    id1 = id1
    id2 = id2
    n1 = n1
    n2 = n2
    u1 = u1
    u2 = u2
    stop = stop
    Chunk = {c1, c2}
    ID = {id1, id2}
    Name = {n1, n2}
    Usage = {u1, u2}
    FinishReason = {stop}
    Empty = Empty
    Nil = Nil
    Errors <- MCErrors
    Events <- MCEvents
    MaxEvents = 4
CHECK_DEADLOCK FALSE
INVARIANTS TypeOK JoinedByIndex OrderedByFirstEvent ReturnedResponse
PROPERTIES NothingTakenBack
