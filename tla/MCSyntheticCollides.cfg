SPECIFICATION MCSpec
CONSTANTS
    Calls = {c1, c2}
    Texts <- MCTexts
    Surfaces <- MCSurfaces
    CatOf <- MCCatOf
    CanonOf <- MCCanonOf
    Categories <- MCCategories
    Secret = "secret"
    RegexSees = {"name"}
    OverlapOf <- MCOverlapOf
    Keys = {1, 2}
    KeyEpoch <- MCKeyEpoch
    Hashes <- MCHashes
    HashOf <- MCHashOf
    EpochOf <- MCEpochOf
    Near <- MCNear
    MaxEntries = 2
    NoEntry = NoEntry
    MaxRestarts = 1
    Layers = {"passes"}
    v1 = v1
    v2 = v2
    Values = {v1, v2}
    Requests = {r1, r2}
    Batches <- MCBatches
    MaxSize = 1
    Ttl = 1
    MaxVaults = 3
    MaxTime = 2
    HashLength = 2
    OriginalOf <- MCOriginalOf
    SeedOf <- MCSeedOf
    Pool <- MCPool
    Samples <- MCSamples
INVARIANT LookAlikeIsOwn
CHECK_DEADLOCK FALSE
