SPECIFICATION MCSpec
CONSTANTS
    Backends = {"regex", "personal", "http"}
    Remote = "http"
    Configs <- MCConfigs
    Reports <- MCReports
    Text <- MCText
    Latin <- MCLatin
    Detections <- MCDetections
    Inputs <- MCInputs
    Calls = {1, 2}
    Endpoints <- MCEndpoints
    Items <- MCItems
    TextLength = 2
    Categories = {"private_email"}
    MaxRotations = 2
CONSTANTS
    Length <- MCLength
    Matches <- MCMatches
    OpfSpans <- MCOpfSpans
    KnerSpans <- MCKnerSpans
    Exclusions <- MCExclusions
CONSTANTS
    PortRequests = {"r1", "r2"}
    PortSessions = {"s1", "s2"}
    PortSurfaces = {"kim", "Kim", "mail", "phone"}
    PortForm <- MCPortForm
    PortBodies <- MCPortBodies
    PortLimit = 2
CONSTANTS
    Tagset <- MCTagset
    KnownTags = {"PS", "LC"}
    Calibration <- MCCalibration
    Emissions <- MCEmissions
    Tokenized <- MCTokenized
    Blank = {0, 2}
    TokenLimit = 3
    Readings <- MCReadings
    Policies = {"mask", "warn", "block"}
INVARIANT RemoteSeesNoLocalPII
CHECK_DEADLOCK FALSE
