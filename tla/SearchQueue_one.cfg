\* One process drains the spool.
SPECIFICATION FairSpec
CONSTANTS
    Topic = {t}
    Comment = {c}
    Parent <- MCParent
    Handler = {h}
    Worker = {w}
    NoMsg = NoMsg
    BatchLimit = 2
    MaxVersion = 2
    MaxStamp = 2
    MaxFaults = 1
INVARIANTS TypeOK AtLeastOnce StaleIsAccounted
PROPERTIES DurableSpoolSpec QueueDrains
