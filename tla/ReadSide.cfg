SPECIFICATION Spec
CONSTANTS
    NULL = NULL
    Provinces <- MCProvinces
    ProvinceArea <- MCProvinceArea
    Versions <- MCVersions
    MetresPerLon = 3
    MetresPerLat = 4
    Requests <- MCRequests
    Questions <- MCQuestions
    Scenes <- MCScenes
    HoursPerDay = 2
    DaysPerMonth = 2
    LocalOffset = 1
    FirstYear = 2025
    MaxClusters = 500
    BufferReach = 995
    Workers = {w1, w2}
    Clients = {c1, c2}
    MaxConcurrency = 1
    Start = 47
    MaxFaults = 1
    MaxRequests = 1
SYMMETRY PartySymmetry
INVARIANTS
    TypeOK
    AnswersFresh
    ListedOnce
    ViewsAgree
    HistoriesAgree
CHECK_DEADLOCK FALSE
