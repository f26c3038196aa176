SPECIFICATION JobsSpec
CONSTANTS
    r1 = r1
    main = main
    w1 = w1
    w2 = w2
    none = none
    NoKey = NoKey
    e1 = e1
    Repos = {r1}
    Bases = {main}
    DefaultBranch = main
    NoBranch = none
    Edits = {e1}
    MaxJobs = 2
    MaxVersion = 2
    Workers = {w1, w2}
    MaxCommits = 4
    MaxFaults = 1
    MaxCrashes = 1
    Sources = {"manual", "webhook_push", "webhook_pr_comment"}
INVARIANTS JobsInv PushesDeduplicated SkipsJustified RowsTrue ExclusiveRun
PROPERTIES PushedOnce EditsSurviveJobs
SYMMETRY Symmetry
CHECK_DEADLOCK FALSE
