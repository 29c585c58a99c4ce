CONSTANTS
    c1 = c1  c2 = c2  v1 = v1  a1 = a1
    Conn = {c1, c2}
    LiveWorker = {v1, a1}
    Feeds <- FeedOf
    MaxQueue <- One
    MaxCount <- One
    OutBuffer = 1
    SendBuffer = 1
    Streams = {"video"}
    Nobody = Nobody
    NoResult = NoResult
SPECIFICATION LiveSpec
CHECK_DEADLOCK FALSE
INVARIANTS CreatedOnce
