\* A stop that was acknowledged, and a start before the daemon has exited.
SPECIFICATION Spec
CONSTANTS
    p1 = p1
    p2 = p2
    here = here
    there = there
    db = db
    other = other
    Procs <- MCProcs
    Names <- MCNames
    Paths <- MCPaths
    NoPath = NoPath
    Jobs <- MCRestartJobs
    Faults = {}
    MaxPolls = 2
    MaxCommands = 3
    MaxKills = 0
INVARIANT StartedStays
CHECK_DEADLOCK FALSE
