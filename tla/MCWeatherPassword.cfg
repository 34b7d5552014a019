SPECIFICATION Spec
CONSTANTS
    a = a
    b = b
    Credentials <- TwoPasswords
    Cities = {c1, c2}
    FirstCity = c1
    Queries = {}
    Provided = {"connect", "disconnect"}
    None = None
    NetDepth = 2
    CityDepth = 1
    EventDepth = 2
    MaxProfiles = 2
    MaxSteps = 3
INVARIANT WrongPasswordRefused
CHECK_DEADLOCK FALSE
