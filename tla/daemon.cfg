\* Three commands from two terminals, every call that may fail failing.
SPECIFICATION Spec
CONSTANTS
    p1 = p1
    p2 = p2
    here = here
    there = there
    db = db
    other = other
    Procs <- MCProcs
    Names <- MCNames
    Paths <- MCPaths
    NoPath = NoPath
    Jobs <- MCJobs
    Faults <- MCFaults
    MaxPolls = 2
    MaxCommands = 3
    MaxKills = 1
INVARIANTS
    DaemonInv
    FailedStartLeavesNothing
    ToldAsDone
    StoppedStays
    CatalogAsTold
PROPERTIES
    CommandsEnd
CHECK_DEADLOCK FALSE
