SPECIFICATION Spec
CONSTANTS
    a = a
    b = b
    Credentials <- OneNetwork
    Cities = {c1, c2}
    FirstCity = c1
    Queries = {}
    Provided = {"scan", "connect", "disconnect", "weather", "time"}
    None = None
    NetDepth = 2
    CityDepth = 1
    EventDepth = 2
    MaxProfiles = 2
    MaxSteps = 3
INVARIANT WeatherIsForCity
CHECK_DEADLOCK FALSE
