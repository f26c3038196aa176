SPECIFICATION PairSpec
CONSTANTS
    r1 = r1
    main = main
    dev = dev
    none = none
    t1 = t1
    t2 = t2
    Repos = {r1}
    Bases = {main, dev}
    DefaultBranch = main
    NoBranch = none
    Edits = {}
    MaxJobs = 6
    MaxVersion = 2
    MaxFaults = 1
    MaxCrashes = 1
    Threads = {t1, t2}
    Events <- AllEvents
    Switches <- AllSwitches
    UsePubSub = TRUE
    LookupsFail = TRUE
    OwnBranches = {1}
    CustomBranches = {dev}
    MaxDeliveries = 2
    MaxDups = 1
    MaxResets = 1
INVARIANTS IntakeInv NoSilentDrop
PROPERTIES DirectiveKeepsSwitches IntakeSettles
CHECK_DEADLOCK FALSE
