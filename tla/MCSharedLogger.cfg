SPECIFICATION SharedSpec
CONSTANTS
    f1 = f1
    f2 = f2
    f3 = f3
    app = app
    api = api
    Factories = {f1, f2, f3}
    None = None
    NameOf <- MCNameOf
CHECK_DEADLOCK FALSE
INVARIANTS
    TypeOK
    ActiveIsNotGone
    NoneOnlyInWindow
    NewestWhenSequential
    ServedUnlessExposed
    DownIsDetached
    SinksAgree
