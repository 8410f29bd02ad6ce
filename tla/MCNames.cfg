SPECIFICATION NamesSpec
SYMMETRY MCSymmetry
CONSTANTS
    None = None
    Callers = {c1, c2}
    Refreshers = {r1}
    Stores <- MCStores
    Cells <- MCCells
    TTLs = {0, 3}
    CacheTtl = 2
    NegativeTtl = 1
    StaleWindow = 1
    WireMax = 1
    MaxTime = 3
    MaxPublish = 1
    MaxEvents = 3
    Domains = {d1, d2, d3}
    Flushers = {f1}
    MaxEntries = 2
    MaxRequests = 3
    MaxVersion = 3
    MaxRestarts = 1
    Users = {u1, u2, u3}
    Size = 1
    Servers = {s1}
    Outbounds = {o1, o2}
    Empty = Empty
    Tasks = {t1, t2, t3}
    Notifies = {n1, n2, n3, n4}
    Getters = {g1}
    Base = 1
    Capacity = 3
    Budget = 4
    MaxAge = 1
    Window = 1
    FillConcurrency = 2
    MaxOthers = 1
    MaxClock = 1
    Recorders = {k1}
    Savers = {x1}
    Targets = {"a", "b"}
    Days = {1, 2}
    FirstTarget = "a"
    MaxSamples = 2
    MaxTurns = 1
INVARIANTS
    AnswersFollowPolicy
    
    NobodyStranded
    OneToOne
    PromisedResolves
    PermitHasSlot
    RightStream
    NoLostWakeup
    DemandHeard
    CountedOnce
    RightlyAttributed
    FlushCovers
PROPERTY
    CleanRestartIsInvisible
CHECK_DEADLOCK FALSE
