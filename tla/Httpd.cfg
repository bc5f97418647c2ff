SPECIFICATION FairSpec
CONSTANTS
    Conns = {c1}
    Reqs = {r1, r2}
    Pullers = {p1}
    Main = main
    Stoppers = {main}
    Cap = 1
    MaxConnections = 1
    HandlerLimit = TRUE
    Timed = {r1}
    NoConn = NoConn
    NoReq = NoReq
INVARIANTS
    TypeOK LimitsHold NoLostSlot AnswersAgree ParkedIsServed
PROPERTIES
    StopReturns
CHECK_DEADLOCK FALSE
