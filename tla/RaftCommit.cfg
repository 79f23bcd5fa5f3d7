\* Two servers, one leader and one heartbeat.
CONSTANTS
    NServers = 2
    Command = {x}
    HeartbeatInterval = 0
    ElectionTimeout = 1
    Delta = {1}
    OverflowChecks = FALSE
    UsizeMax = 9
    None = None
    MaxTime = 4
    MaxLog = 2
    MaxCrashes = 2
    MaxDuplicates = 0
SPECIFICATION Spec
INVARIANT CommittedInLog
\* A panic ends the process, and so does the bound on time.
CHECK_DEADLOCK FALSE
