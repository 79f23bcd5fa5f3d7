\* One crash after the first election.
CONSTANTS
    NServers = 3
    Command = {x}
    HeartbeatInterval = 0
    ElectionTimeout = 1
    Delta = {1}
    OverflowChecks = TRUE
    UsizeMax = 9
    None = None
    MaxTime = 2
    MaxLog = 0
    MaxCrashes = 1
    MaxDuplicates = 0
SPECIFICATION Spec
INVARIANT VoteRecorded
\* A panic ends the process, and so does the bound on time.
CHECK_DEADLOCK FALSE
