SPECIFICATION FairSpec
CONSTANTS
    MAX_CORES = 1
    SAMPLE_PERIOD = 1
    BENCH_DURATION = 2
    MAX_SAMPLES = 2
    THERMAL_LIMIT = 2
    COST_UNIT = 1
    SCORE_UNIT = 2
    OPS_RANGE = 3
    MaxJiffies = 4
    Failures = TRUE
    Temperatures <- MCTemperatures
INVARIANTS
    TypeOK
    EncryptsWithMemory
    ScoreIsOfSamples
    NothingLeftBehind
PROPERTIES
    UnloadCompletes
    BenchmarkEnds
CHECK_DEADLOCK FALSE
