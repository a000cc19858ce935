\* The claim the drain's comment makes for replicas.
SPECIFICATION Spec
CONSTANTS
    Topic = {t}
    Comment = {}
    Parent <- MCParent
    Handler = {h}
    Worker = {v, w}
    NoMsg = NoMsg
    BatchLimit = 2
    MaxVersion = 1
    MaxStamp = 1
    MaxFaults = 0
INVARIANTS ExclusiveProcessing
