SPECIFICATION Spec
CONSTANTS
    d1 = d1  d2 = d2  own = own  other = other
    Datagrams = {d1, d2}
    Size <- MCSize
    From <- MCFrom
    BufLen = 2
    Workers = 2
    Conns = {own, other}
    OwnConns = {own}
    Line <- MCLine
    PipeCap = 1
    LogCap = 1
INVARIANTS EchoSound LagBounded LineEchoed
PROPERTIES Served Progress
CHECK_DEADLOCK FALSE
