SPECIFICATION FairSessions
CONSTANTS
    e1 = e1
    c1 = c1
    c2 = c2
    m1 = m1
    Ender = {e1}
    Cron = {c1, c2}
    Marker = {m1}
    MaxMeetings = 2
    MaxRooms = 2
    MaxFaults = 1
    MaxLost = 1
    Casts <- MCCasts
INVARIANTS
    SessionTypeOK
    RecognizedOnce
    PaysOnlyCompleted
    NobodyIsForgotten
PROPERTIES
    SessionsClose
CHECK_DEADLOCK FALSE
