SPECIFICATION RouteSpec
CONSTANTS
    Profiles <- MCProfiles
    Families <- MCFamilies
    Responses <- MCResponses
    MaxAttempts = 3
INVARIANTS TypeOK FitsWhenFloorFits NothingWithheld CapRespected PayloadFits OffersAgree HistoryIsKept
    NoErrorIsAnAnswer PathsAgree GivesUpLate
CHECK_DEADLOCK FALSE
