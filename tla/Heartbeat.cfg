\* Timeouts of 1 and 0.500002 ms in steps of a quarter that are no whole number
\* of microseconds, over two and a half around the end of a second.
SPECIFICATION Spec
CONSTANTS
    AliveTimeout = 1
    SelectTimeout = 500002
    Step = 250001
    StartTimes = {999000000, 999374999}
    MaxTime = 1001500010
    MaxInbox = 2
INVARIANTS
    AliveTimeoutExact
    HeartbeatInTime
CHECK_DEADLOCK FALSE
