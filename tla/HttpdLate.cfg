SPECIFICATION Spec
CONSTANTS
    Conns = {c1}
    Reqs = {r1}
    Pullers = {p1}
    Main = main
    Stoppers = {main}
    Cap = 1
    MaxConnections = 1
    HandlerLimit = TRUE
    Timed = {r1}
    NoConn = NoConn
    NoReq = NoReq
INVARIANTS
    LateIsGone
CHECK_DEADLOCK FALSE
