SPECIFICATION Spec

CONSTANTS
    Chars <- MCChars
    Lines <- MCLines
    Given <- MCGiven
    Writes <- MCWrites
    Reads <- MCReads
    Nothing = Nothing
    Faults = {"open", "input", "engine", "query"}
    MaxLines = 4
    MaxForeign = 2

CHECK_DEADLOCK FALSE

INVARIANTS
    TypeOK
    CommittedAsTold
    UnmixedEndsAtTerminator
