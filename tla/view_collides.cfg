\* An endpoint in a database that shares an identifier with others.
SPECIFICATION Spec
CONSTANTS
    Nowhere = Nowhere
    Federations <- MCFederations
    Remote = {"github://far"}
    Size <- MCSize
    NoText = Nowhere
INVARIANT EndsWhereNamed
CHECK_DEADLOCK FALSE
