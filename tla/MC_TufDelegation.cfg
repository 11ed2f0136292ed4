CONSTANTS
    k1 = k1
    k2 = k2
    Keys <- MCKeys
    MaxVersion = 2
    MaxTime = 1
    DelegatedRoles <- MCDelegatedRoles
    SignerSets <- MCSingleSigners
    RoleDefs <- MCRoleDefs
    RootRoles <- MCRootRolesFixed
    TrustedKeys <- MCKeys
    TrustedThreshold = 1
    NoDoc = NoDoc
    NoDelegations = NoDelegations

SPECIFICATION Spec

INVARIANTS
    TypeOK
    DelegationsNotAheadOfSnapshot
