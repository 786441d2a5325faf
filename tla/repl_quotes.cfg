\* A literal that holds a quote of the other kind.
SPECIFICATION Spec

CONSTANTS
    Chars <- MCChars
    Lines <- MCLines
    Given <- MCGiven
    Writes <- MCWrites
    Reads <- MCReads
    Nothing = Nothing
    Faults = {}
    MaxLines = 2
    MaxForeign = 0

CHECK_DEADLOCK FALSE

INVARIANT EndsAtTerminator
