CONSTANTS
    r1 = r1  r2 = r2  w1 = w1  w2 = w2  inside = inside  outside = outside
    Request = {r1, r2}
    Limit = 1
    MaxClock = 1
    Fetcher = {r1, w1}
    Address = {inside, outside}
    Public = {outside}
    NoAddress = NoAddress
    MaxRedirects = 1
    MaxBytes = 1
    Worker = {w1}
    MaxTries = 2
    QueueCapacity = 1
    NoRequest = NoRequest
    Session = {r1}
    Full = 864
    Grain = 2
    Clips <- TwoClips
    AudioScores <- OneScore
    MaxOutages = 0
    MaxCrashes = 0
    MaxStops = 1
SPECIFICATION FairSpec
CHECK_DEADLOCK FALSE
INVARIANTS FailedIffUnknown RiskWithinReported ClampsNeverBite
PROPERTIES ReplyKeepsWhatSucceeded AcceptedSettles SessionsAreAnswered
