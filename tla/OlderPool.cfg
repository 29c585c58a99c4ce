CONSTANTS
    r1 = r1  r2 = r2  w1 = w1  w2 = w2  inside = inside  outside = outside
    Request = {r1, r2}
    Limit = 1
    MaxClock = 1
    Fetcher = {w1, w2}
    Address = {inside, outside}
    Public = {outside}
    NoAddress = NoAddress
    MaxRedirects = 1
    MaxBytes = 1
    Worker = {w1, w2}
    MaxTries = 2
    QueueCapacity = 1
    NoRequest = NoRequest
    Session = {}
    Full = 864
    Grain = 2
    Clips <- TwoClips
    AudioScores <- OneScore
    MaxOutages = 1
    MaxCrashes = 1
    MaxStops = 1
SPECIFICATION Spec
CHECK_DEADLOCK FALSE
SYMMETRY Alike
INVARIANTS OlderTypeOK DialedIsValidated FetchedIsWhole AdmittedWithinLimit QueuedHasRecord AcceptedIsAccountedFor
PROPERTIES RecordOnlyAdvances
