\* Two elections: each tick is longer than the timeout, so that the second one finds
\* the cluster stuck since the first, or since a leader or the votes of a crashed
\* server were lost again.  Clients ask nothing; heartbeats are sent.
CONSTANTS
    NServers = 3
    Command = {x}
    HeartbeatInterval = 0
    ElectionTimeout = 1
    Delta = {2}
    OverflowChecks = TRUE
    UsizeMax = 9
    None = None
    MaxTime = 4
    MaxLog = 0
    MaxCrashes = 1
    MaxDuplicates = 0
SPECIFICATION Spec
INVARIANT LeaderNeedsCrashes
PROPERTY StuckUntilCrash
\* A panic ends the process, and so does the bound on time.
CHECK_DEADLOCK FALSE
