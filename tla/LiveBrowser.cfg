CONSTANTS
    c1 = c1  c2 = c2  v1 = v1  a1 = a1
    Conn = {c1}
    LiveWorker = {v1, a1}
    Feeds <- FeedOf
    MaxQueue <- One
    MaxCount <- TwoFrames
    OutBuffer = 1
    SendBuffer = 1
    Streams = {"video", "audio"}
    Nobody = Nobody
    NoResult = NoResult
SPECIFICATION FairLiveSpec
CHECK_DEADLOCK FALSE
INVARIANTS OneSocketStaysFresh
PROPERTIES SessionIsReleased
