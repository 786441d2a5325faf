\* A document and a database converted into each other, two commands at a time.
SPECIFICATION Spec
CONSTANTS
    p1 = p1
    p2 = p2
    doc = doc
    db = db
    g1 = g1
    g2 = g2
    Procs <- MCProcs
    Nosts = {doc}
    Databases = {db}
    Graphs <- MCGraphs
    Refused = Refused
    Linked = Linked
    Partial = Partial
    Mixed = Mixed
    NoFile = NoFile
    Jobs <- MCJobs
    Faults = {"read", "remove", "stage", "write", "rename", "export"}
    MaxCommands = 3
    MaxCrashes = 1
SYMMETRY Symmetric
INVARIANTS
    ConvertInv
    OutputWhole
    LeftoverHarmless
PROPERTIES
    AnsweredAsDone
    KeptUnlessAsked
CHECK_DEADLOCK FALSE
