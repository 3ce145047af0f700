CONSTANTS
    MIN_AUTO_ALLOC = 3
    Junk = Junk
    ValueSize = 2
    SizeBits = 8
    FirstHeight = 1
    MaxHeight = 2
    MIN_TABLE_ALLOC = 1
    CodeBits = 4
    Code <- MCCode
    NoNode = NoNode
    ObjTypes = {"link"}
    Threshold <- MCThreshold
    Objects = {o1, o2, o3}
    None = None
    Usec = 2
    MAX_FD_EVENTS = 3
    Kinds = {"arr", "carr", "dll", "skl", "hash", "scat", "mem", "timers", "descriptors"}
    Values = {1, 2}
    Inserts <- MCInserts
    MaxSize = 5
    Capacities = {0, 2, 5}
    OptionSets <- MCOptionSets
    Keys = {1, 2, 3}
    PairsIn <- MCPairs
    MaxPairs = 3
    Heights = {0, 2}
    Layouts <- MCLayouts
    MaxRefs = 2
    EventKinds = {"timers", "descriptors"}
    Ids <- MCIds
    Deltas <- MCDeltas
    Fds <- MCFds
    EndOfTime <- MCEndOfTime
SPECIFICATION Spec
CHECK_DEADLOCK FALSE
INVARIANTS
    ContentsExact
    LookupsExact
    EventsExact
