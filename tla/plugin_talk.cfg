SPECIFICATION ResponsiveSpec
CONSTANTS
    viewer = viewer
    exporter = exporter
    view = view
    export = export
    page = page
    data = data
    Names = {viewer, exporter}
    Actions = {view, export}
    ViewAction = view
    NoAction = NoAction
    Parts = {page, data}
    HtmlParts = {page}
    Globs <- MCGlobs
    Outputs <- MCOutputs
    NotText = NotText
    NoList = NoList
    NotJson = NotJson
    Unstated = Unstated
    Replies <- MCReplies
    Stores <- MCStores
    Unreadable = Unreadable
    Nothing = Nothing
    Faults = {"project", "output", "make", "write", "start", "remove"}
    MaxAhead = 1
    MaxKills = 1
INVARIANTS
    ConversationInv
    SuccessIsEarned
    GraphOnlyToIdentified
PROPERTIES
    GraphTakenBack
    CommandEnds
