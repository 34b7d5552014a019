SPECIFICATION LiveSpec
CONSTANTS
    a = a
    b = b
    Credentials <- TwoNetworks
    Cities = {c1, c2}
    FirstCity = c1
    Queries = {q1, q2}
    Provided = {"connect", "disconnect", "city"}
    None = None
    NetDepth = 2
    CityDepth = 1
    EventDepth = 2
    MaxProfiles = 2
    MaxSteps = 3
INVARIANTS CandidatesAreLatest SavedWasReported LastIsSaved
CHECK_DEADLOCK FALSE
PROPERTY Answered
