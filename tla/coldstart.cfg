SPECIFICATION ModelsFair
CONSTANTS
    k1 = k1
    k2 = k2
    k3 = k3
    k4 = k4
    save = save
    title = title
    brand = brand
    Unasked = Unasked
    c1 = c1
    c2 = c2
    p1 = p1
    p2 = p2
    Keys = {k1, k2, k3, k4}
    Texts = {save, title, brand}
    Source <- SourceKeys
    Glossary = {brand}
    Dictionary = {title}
    Forms = {"whole"}
    Words <- WordCounts
    Configured <- ByProject
    Environment <- ByEnv
    Defaults <- ByProvider
    Volunteers = {k4}
    Remembered = {save}
    Callers = {c1, c2}
    Processes = {p1, p2}
    ProcessOf <- Home
    Sources <- Long
    MaxWords = 3
    BatchSize = 2
    MaxAttempts = 2
    Hosts = 2
    Short = FALSE
    MaxClears = 1
    Fetchers = {1, 2}
    Mirrors = 2
    Blocks = 2
    Absent = Absent
INVARIANT TextsReturnAlways
CHECK_DEADLOCK FALSE
