SPECIFICATION FairSyncSpec
CONSTANTS
    t1 = t1
    t2 = t2
    u1 = u1
    u2 = u2
    Emitters = {t1, t2}
    Users = {u1, u2}
    BatchSizes = {2}
    MaxEmits <- MCMaxEmits
    NoThread = NoThread
CHECK_DEADLOCK FALSE
INVARIANTS
    TypeOK
    AtMostOnce
    AtLeastOnce
    FlushIsBarrier
    ExitStrandsNothing
PROPERTIES
    EmitReturns
