SPECIFICATION FairStream
CONSTANTS
    Index = {0, 1, 2}
    c1 = c1
    c2 = c2
    id1 = id1
    id2 = id2
    id3 = id3
    n1 = n1
    n2 = n2
    u1 = u1
    stop = stop
    Chunk = {c1, c2}
    ID = {id1, id2, id3}
    Name = {n1, n2}
    Usage = {u1}
    FinishReason = {stop}
    Empty = Empty
    Nil = Nil
    Errors <- MCErrors
    Plans <- MCPlans
    Thinking = 1
CHECK_DEADLOCK FALSE
INVARIANTS RoundTrip TruncationVisible DeliveredSoFar
PROPERTIES Returns
