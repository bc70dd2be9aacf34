SPECIFICATION FairScripted
CONSTANTS
    Index = {0}
    c1 = c1
    n1 = n1
    u1 = u1
    stop = stop
    toolCalls = toolCalls
    Chunk = {c1}
    ID = {}
    Name = {n1}
    Usage = {u1}
    FinishReason = {stop, toolCalls}
    Empty = Empty
    Nil = Nil
    Errors = {}
    Scripted <- MCScripted
    Consumer = consumer
    Other = {other1, other2}
    MaxOther = 3
CHECK_DEADLOCK FALSE
INVARIANT EquivalentResponse
