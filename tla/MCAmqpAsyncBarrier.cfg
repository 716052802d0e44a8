SPECIFICATION ConnectSpec
CONSTANTS
    t1 = t1
    u1 = u1
    u2 = u2
    Emitters = {t1}
    Users = {u1, u2}
    LoopUsers = {u2}
    MaxEmits <- MCMaxEmits
CHECK_DEADLOCK FALSE
INVARIANT
    FlushIsBarrier
