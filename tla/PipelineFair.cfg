CONSTANTS
    r1 = r1  r2 = r2  s1 = s1  w_v = w_v  w_v2 = w_v2  w_a = w_a
    Request = {r1, r2}
    Session = {s1}
    SessionOf <- OneSession
    Wants <- BothThenVideo
    Worker = {w_v, w_a}
    Serves <- PoolOf
    MaxAttempts = 3
    Corrupt <- CorruptAudio
    Capacity = 2
    MaxOutages = 0
    Impatient = {}
    MaxCrashes = 0
    MaxStops = 1
    NoJob = NoJob
    NoDelivery = NoDelivery
SPECIFICATION FairSpec
CHECK_DEADLOCK FALSE
PROPERTIES AcceptedJobsSettle RowsFollowLifecycle
