SPECIFICATION Spec
CONSTANTS
    Conns = {c1}
    Reqs = {r1, r2}
    Pullers = {p1, p2}
    Main = main
    Stoppers = {p1, p2}
    Cap = 1
    MaxConnections = 1
    HandlerLimit = FALSE
    Timed = {r1, r2}
    NoConn = NoConn
    NoReq = NoReq
SYMMETRY Symmetry
INVARIANTS
    JoinedWakes
CHECK_DEADLOCK FALSE
