SPECIFICATION SystemSpec
CONSTANTS
    r1 = r1
    main = main
    dev = dev
    none = none
    w1 = w1
    t1 = t1
    NoKey = NoKey
    Repos = {r1}
    Bases = {main, dev}
    DefaultBranch = main
    NoBranch = none
    Edits = {}
    MaxJobs = 3
    MaxVersion = 1
    MaxFaults = 0
    MaxCrashes = 1
    Workers = {w1}
    MaxCommits = 3
    Sources = {}
    Threads = {t1}
    Events <- SystemEvents
    Switches <- SystemSwitches
    UsePubSub = TRUE
    LookupsFail = FALSE
    OwnBranches = {}
    CustomBranches = {}
    MaxDeliveries = 2
    MaxDups = 0
    MaxResets = 0
INVARIANTS NoRecursion
CHECK_DEADLOCK FALSE
