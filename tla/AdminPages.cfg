\* Two tabs; one tab under a clock that is set back; two requests and a walk through the
\* audit log.
CONSTANTS
    Tabs = {t1, t2}
    MaxSession = 2
    MaxNonce = 2
    MaxSecret = 2
    MaxTicks = 4
    MaxBack = 3
    Ttl = 2
    LoginTtl = 1
    Skew = 1
    Workers = {w1, w2}
    PerPage = 2
    MaxEvents = 4
    MaxTime = 1
    Parts = {"tabs", "clock", "log"}
    TabsIn <- SomeTabs
    TicksIn <- SomeTicks
    BackIn <- SomeBack
SPECIFICATION PagesSpec
SYMMETRY Symmetry
INVARIANTS
    FormsDieWithSession
    NewestLoginWorks
    AcceptedInTime
    FreshFormAccepted
    TrailTellsStatus
    WalkSeesAll
CHECK_DEADLOCK FALSE
