SPECIFICATION FairServer
CONSTANTS
    Producers = {w1, w2}
    MaxPosts = 2
    IoThreads = {t1}
    Sessions = {s1, s2}
    NoTask = NoTask
    Pipelining = {s1}
    MaxRequests = 2
\* The process has ended, or its clients have.
CHECK_DEADLOCK FALSE
INVARIANTS
    AnswersInOrder
    OnePending
    TokenHonoured
    ServedByLiveObjects
    InOrder
PROPERTIES
    Answered
    Delivered
    ServerStops
