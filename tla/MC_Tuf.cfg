CONSTANTS
    k1 = k1
    k2 = k2
    Keys <- MCKeys
    MaxVersion = 2
    MaxTime = 2
    DelegatedRoles = {}
    SignerSets <- MCSignerSets
    RoleDefs <- MCRoleDefs
    RootRoles <- MCRootRoles
    TrustedKeys <- MCKeys
    TrustedThreshold = 1
    NoDoc = NoDoc
    NoDelegations = NoDelegations

SPECIFICATION Spec

INVARIANTS
    SnapshotMatchesTimestamp
    TargetsMatchSnapshot
    SignedUnderCurrentRoot
PROPERTY
    RootChainOfTrust
    TimestampMonotonic
