SPECIFICATION Spec
CONSTANTS
    Profiles <- MCProfiles
    Families <- MCFamilies
INVARIANTS DecodedOnce
CHECK_DEADLOCK FALSE
