SPECIFICATION FairSpec
CONSTANTS
    SpecKinds <- MCSpecKinds
    NetworkOverride = TRUE
    MaxHead = 1
    MaxEpoch = 3
    ForkEpochs <- MCForkEpochs
    FuluEpoch = 1
    BlobEpochs <- MCBlobEpochs
CHECK_DEADLOCK FALSE
INVARIANTS
    StatusConsistent DigestValid StoppedQuiet
PROPERTIES
    StartReturns
