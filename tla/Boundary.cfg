\* Two parameters, a library loaded twice, results of up to two elements.
SPECIFICATION Spec
CONSTANTS
    Scalars = {"i64", "f32"}
    MaxParams = 2
    MaxGeneration = 2
    MaxLen = 2
    MaxLost = 1
INVARIANT TypeOK
INVARIANT SidesAgree
INVARIANT OnlyWrittenIsRead
INVARIANT GivenBackAsAllocated
INVARIANT NothingLeaks
CHECK_DEADLOCK FALSE
