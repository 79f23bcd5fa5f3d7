\* Two servers, time for two elections and a heartbeat after each, in the build
\* that wraps around; a repeated rejection drives next_indices below 0.
CONSTANTS
    NServers = 2
    Command = {x}
    HeartbeatInterval = 0
    ElectionTimeout = 1
    Delta = {1}
    OverflowChecks = FALSE
    UsizeMax = 9
    None = None
    MaxTime = 4
    MaxLog = 2
    MaxCrashes = 3
    MaxDuplicates = 1
SPECIFICATION Spec
INVARIANTS TypeOK CountExact EntryTermsBounded TermsInOrder
\* A panic ends the process, and so does the bound on time.
CHECK_DEADLOCK FALSE
