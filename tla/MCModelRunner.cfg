CONSTANTS
    c1 = c1
    c2 = c2
    Startup = Startup
    Nobody = Nobody
    Missing = Missing
    Calls <- MCCalls
    Kinds <- MCKinds
    Loads <- MCLoads
    Parts <- MCParts
    Variants <- MCVariants
SPECIFICATION FairSpec
INVARIANT RunnerInv
PROPERTY OnlyIdleIsUnloaded
PROPERTY RequestIsAnswered
