SPECIFICATION FairSpec
CONSTANTS
    Senders = {s1, s2}
    Receivers = {r1, r2}
    Requested = 2
    MaxSends = 3
INVARIANTS FifoExactlyOnce ValuesAccountedFor ClosedMeansDrained NoLostWakeup
PROPERTIES CloseReleasesEveryone
