CONSTANTS
    provider = provider
    shared = shared
    settings = settings
    environment = environment
    setProvider = setProvider
    setShared = setShared
    Key = {provider, shared}
    Files <- PolicyFiles
    Listed <- PolicyListed
    Update = {setProvider, setShared}
    Target <- PolicyTarget
    Rewritten <- PolicyRewritten
    Repairing = {setProvider}
    v1 = v1
    v2 = v2
    Values <- PolicyValues
    None = none
    Reader = {}
    MaxLines = 1
    Edits <- AnyLines
    MaxEdits = 2
    MaxFaults = 2
SPECIFICATION FairSpec
INVARIANTS TypeOK 
PROPERTY Repairs
