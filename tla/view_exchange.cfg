\* Every small federation, at every size of u32.
SPECIFICATION Spec
CONSTANTS
    Nowhere = Nowhere
    Federations <- MCFederations
    Remote = {"github://far"}
    Size <- MCSize
    NoText = Nowhere
INVARIANTS
    TypeOK
    IndicesInside
    ReadsBack
    EvidenceSearchable
CHECK_DEADLOCK FALSE
