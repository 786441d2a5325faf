SPECIFICATION Spec
CONSTANTS
    viewer = viewer
    exporter = exporter
    c1 = c1
    c2 = c2
    manifest = manifest
    tool = tool
    asset = asset
    m1 = m1
    m2 = m2
    m3 = m3
    x1 = x1
    x2 = x2
    older = older
    newer = newer
    view = view
    export = export
    p = p
    q = q
    Names = {viewer, exporter}
    Commits = {c1, c2}
    Files <- MCFiles
    Manifest = manifest
    Bytes <- MCBytes
    NoFile = NoFile
    NoEntry = NoEntry
    NoRun = NoRun
    Engines = {older, newer}
    Actions = {view, export}
    Unnamed = Unnamed
    Meaning <- MCMeaning
    Offers <- AllOffers
    Procs = {p}
    Writers = {p}
    Exclusive = TRUE
    Torn = Torn
    Missing = Missing
    Faults = {"write", "retire", "promote", "open", "fill", "record", "unlink", "prepare"}
    MaxCrashes = 1
    HandWritten = {m2}
    MaxEdits = 1
    MaxMishaps = 1
INVARIANTS
    TypeOK
    AloneInv
    WholeInv
    RunsOnlyApproved
    RecordReadable
    NoMixedTree
PROPERTIES
    ImplementsApproved
    EvidenceKept
    OnlyRemoveForgets
    InstalledIsWhole
    RemovedOnlyUnrecorded
