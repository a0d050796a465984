\* The last event falls off the last page of the audit log.
CONSTANTS
    Tabs = {t1, t2}
    MaxSession = 2
    MaxNonce = 2
    MaxSecret = 2
    MaxTicks = 4
    MaxBack = 3
    Ttl = 2
    LoginTtl = 1
    Skew = 1
    Workers = {w1, w2}
    PerPage = 2
    MaxEvents = 4
    MaxTime = 1
    Parts <- OnlyLog
    TabsIn <- SomeTabs
    TicksIn <- SomeTicks
    BackIn <- SomeBack
SPECIFICATION PagesSpec
SYMMETRY Symmetry
INVARIANTS
    WalkNeverTorn
CHECK_DEADLOCK FALSE
