\* Two servers, one leader, two commands and a repeated message.
CONSTANTS
    NServers = 2
    Command = {x, y}
    HeartbeatInterval = 0
    ElectionTimeout = 1
    Delta = {1}
    OverflowChecks = FALSE
    UsizeMax = 9
    None = None
    MaxTime = 4
    MaxLog = 2
    MaxCrashes = 2
    MaxDuplicates = 1
SPECIFICATION Spec
INVARIANT LogMatching
\* A panic ends the process, and so does the bound on time.
CHECK_DEADLOCK FALSE
