SPECIFICATION Spec
CONSTANTS
    MaxFiles = 2
    MaxSize = 2
    LineSizes = {1, 2}
    MaxBytes = 9
    MaxCrashes = 1
    KeepFiles = 2
    FileSize = 2
    ZipLines = {1, 2}
    Types <- AllTypes
    StartLevels <- LowAndHigh
    MaxLogs = 5
    MaxDeaths = 1
    BatchSizes = {1, 2}
    Intervals = {0, 1}
    MaxLines = 3
    MaxTime = 2
    MaxOptions = 1
    Workers = {w1, w2}
    MaxTasks = 3
    Callers = {c1, c2}
    RefillRate = 500
    BurstCapacity = 2
    SampleRates = {0, 2}
    Fraction = 2
    MaxTicks = 6
    MaxAsked = 5
    MaxResets = 1
    Keys = {k1, k2}
    Values = {x1, x2}
    MaxScopes = 2
    MaxContextCalls = 6
    Characters = {"a", "b", "f", "(", "|", "i", "v"}
    Patterns <- Text1
    FieldNames <- Text2
    Invalid <- BadPattern
    MaxCacheCalls = 3
    Messages <- SecretMessages
    RecordLevels = {1, 2}
    Filters <- SomeFilters
    Contexts <- FieldValues
    PatternSets <- SomePatterns
    Presets <- KnownPresets
    MaxFilters = 2
    MaxChanges = 3
    MaxRecords = 1
    DropHealthy = 25
    DropDegraded = 50
    ErrorHealthy = 25
    ErrorDegraded = 50
    LatencyHealthy = 0
    LatencyDegraded = 1
    UsageHealthy = 50
    UsageDegraded = 90
    QueueCapacity = 2
    Threads = {t1, t2}
    NoThread = NoThread
    Counted <- ThreeCounters
    Peaks <- TwoPeaks
    Amounts = {1, 2}
    MaxMetricCalls = 4
    Clients = {c1, c2}
    MetricNames = {n1}
    Longest = 1
    MaxTableCalls = 5
    Users = {u1}
    LoggerNames = {n1}
    Loggers = {l1, l2}
    Nobody = Nobody
    MaxRecorded = 1
    Setters = {t1, t2}
    NoSetter = NoSetter
    Levels = {0, 1}
    MaxDuration = 1
    Capacities = {1, 2}
    Ops <- AllOps
CHECK_DEADLOCK FALSE
INVARIANTS FilesKept RotationKeeps ArchivesKept LokiInv PoolSafe LimiterInv CacheInv AdmissionInv HistoryKept
    MetricInv TablesInv
PROPERTIES ScopesClean TemporaryLevelEnds PoolImplementsWorkQueue LokiImplementsDelivery
