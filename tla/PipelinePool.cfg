CONSTANTS
    r1 = r1  r2 = r2  s1 = s1  w_v = w_v  w_v2 = w_v2  w_a = w_a
    Request = {r1, r2}
    Session = {s1}
    SessionOf <- OneSession
    Wants <- BothThenVideo
    Worker = {w_v, w_v2}
    Serves <- PoolOf
    MaxAttempts = 2
    Corrupt <- NoneCorrupt
    Capacity = 1
    MaxOutages = 0
    Impatient = {r1}
    MaxCrashes = 1
    MaxStops = 0
    NoJob = NoJob
    NoDelivery = NoDelivery
SPECIFICATION Spec
CHECK_DEADLOCK FALSE
SYMMETRY VideoWorkers
INVARIANTS HeldIsInFlight AcceptedIsNeverLost StrandedRowsAreKnown
