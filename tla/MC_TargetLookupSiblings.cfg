CONSTANTS
    Roles = {"a", "b"}
    MaxEntries = 2
    NoDoc = NoDoc
    NoDelegations = NoDelegations
    NoAnswer = NoAnswer
    Unqueried = Unqueried
SPECIFICATION Spec
CHECK_DEADLOCK FALSE
INVARIANTS
    LookupMatchesPreorder
