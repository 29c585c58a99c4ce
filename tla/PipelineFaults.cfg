CONSTANTS
    r1 = r1  r2 = r2  s1 = s1  w_v = w_v  w_v2 = w_v2  w_a = w_a
    Request = {r1}
    Session = {s1}
    SessionOf <- OneSession
    Wants <- BothThenVideo
    Worker = {w_v, w_a}
    Serves <- PoolOf
    MaxAttempts = 2
    Corrupt <- NoneCorrupt
    Capacity = 1
    MaxOutages = 1
    Impatient = {r1}
    MaxCrashes = 1
    MaxStops = 1
    NoJob = NoJob
    NoDelivery = NoDelivery
SPECIFICATION Spec
CHECK_DEADLOCK FALSE
INVARIANTS TypeOK DeliveryHasRow CompletedHasScore AcceptedIsNeverLost RiskFinalUnlessUnchecked
PROPERTIES RiskOnlyGains
