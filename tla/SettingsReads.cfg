CONSTANTS
    provider = provider
    shared = shared
    settings = settings
    environment = environment
    setProvider = setProvider
    setShared = setShared
    Key = {provider, shared}
    Files <- PolicyFiles
    Listed <- PolicyListed
    Update = {setProvider, setShared}
    Target <- PolicyTarget
    Rewritten <- PolicyRewritten
    Repairing = {setProvider}
    v1 = v1
    v2 = v2
    Values <- PolicyValues
    None = none
    Reader = {r1}
    MaxLines = 2
    Edits <- AnyLines
    MaxEdits = 1
    MaxFaults = 0
SPECIFICATION Spec
SYMMETRY Symmetry
INVARIANTS ReadsAuthoritative FailuresReal
CHECK_DEADLOCK FALSE
