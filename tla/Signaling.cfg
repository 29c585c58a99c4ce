CONSTANTS
    c1 = c1  c2 = c2  c3 = c3  c4 = c4
    Client = {c1, c2, c3, c4}
    RoomCapacity = 3
    SendBuffer = 3
    MaxDepartures = 1
SPECIFICATION Spec
CHECK_DEADLOCK FALSE
SYMMETRY Alike
INVARIANTS HubTypeOK MembersAreOpen NoGhostCalls QuietRoomIsConnected NoGlare
