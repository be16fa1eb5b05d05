CONSTANTS
    landConfig = landConfig
    landState = landState
    k95Config = k95Config
    k95Tree = k95Tree
    policy = policy
    profile = profile
    a = a
    b = b
    N = 2
    Item <- MCItem
    Plan <- MCPlan
    Entries <- MCEntries
    Tree <- MCTree
    Document <- MCDocument
    Separate = {}
    Unlocked <- MCUnlocked
    v1 = v1
    v2 = v2
    folder = folder
    absent = absent
    Value = {v1, v2}
    Folder = folder
    Absent = absent
    Start <- MCStart
    MaxFaults = 2
    MaxEdits = 2
    MaxRollbacks = 1
SPECIFICATION FairSpec
INVARIANTS TypeOK RecordReadable
PROPERTIES FlipPublishesLegacy SingleAuthority 
