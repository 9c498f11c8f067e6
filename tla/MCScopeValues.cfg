SPECIFICATION Spec
CONSTANTS
    MaxFiles = 2
    MaxSize = 1
    LineSizes = {1, 2}
    MaxBytes = 0
    MaxCrashes = 1
    KeepFiles = 2
    FileSize = 1
    ZipLines = {1, 2}
    Types <- AllTypes
    StartLevels <- LowAndHigh
    MaxLogs = 0
    MaxDeaths = 1
    BatchSizes = {1, 2}
    Intervals = {0, 1}
    MaxLines = 0
    MaxTime = 2
    MaxOptions = 1
    Workers = {w1, w2}
    MaxTasks = 0
    Callers = {c1, c2}
    RefillRate = 500
    BurstCapacity = 2
    SampleRates = {0, 2}
    Fraction = 2
    MaxTicks = 0
    MaxAsked = 0
    MaxResets = 1
    Keys = {k1, k2}
    Values = {x1, x2}
    MaxScopes = 2
    MaxContextCalls = 5
    Characters = {"a", "b", "f", "(", "|", "i", "v"}
    Patterns <- Text1
    FieldNames <- Text2
    Invalid <- BadPattern
    MaxCacheCalls = 0
    Messages <- SecretMessages
    RecordLevels = {1, 2}
    Filters <- ReadmeFilters
    Contexts <- FieldValues
    PatternSets <- SomePatterns
    Presets <- KnownPresets
    MaxFilters = 2
    MaxChanges = 3
    MaxRecords = 0
    DropHealthy = 25
    DropDegraded = 50
    ErrorHealthy = 25
    ErrorDegraded = 50
    LatencyHealthy = 0
    LatencyDegraded = 1
    UsageHealthy = 50
    UsageDegraded = 90
    QueueCapacity = 2
    Threads = {t1}
    NoThread = NoThread
    Counted <- ThreeCounters
    Peaks <- TwoPeaks
    Amounts = {1, 2}
    MaxMetricCalls = 0
    Clients = {c1, c2}
    MetricNames = {n1}
    Longest = 1
    MaxTableCalls = 0
    Users = {u1}
    LoggerNames = {n1}
    Loggers = {l1}
    Nobody = Nobody
    MaxRecorded = 0
    Setters = {}
    NoSetter = NoSetter
    Levels = {0}
    MaxDuration = 0
    Capacities = {1}
    Ops = {}
CHECK_DEADLOCK FALSE
PROPERTY OuterRemains
