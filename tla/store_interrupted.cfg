SPECIFICATION Spec
CONSTANTS
    viewer = viewer
    exporter = exporter
    c1 = c1
    c2 = c2
    manifest = manifest
    tool = tool
    asset = asset
    m1 = m1
    m2 = m2
    m3 = m3
    x1 = x1
    x2 = x2
    older = older
    newer = newer
    view = view
    export = export
    p = p
    q = q
    Names = {viewer}
    Commits = {c1, c2}
    Files <- MCFiles
    Manifest = manifest
    Bytes <- MCBytes
    NoFile = NoFile
    NoEntry = NoEntry
    NoRun = NoRun
    Engines = {newer}
    Actions = {view, export}
    Unnamed = Unnamed
    Meaning <- MCMeaning
    Offers <- ViewerOffers
    Procs = {p}
    Writers = {p}
    Exclusive = TRUE
    Torn = Torn
    Missing = Missing
    Faults = {}
    MaxCrashes = 1
    HandWritten = {m2, x2, NoFile}
    MaxEdits = 0
    MaxMishaps = 1
INVARIANTS
    RecordedIsInstalled

