SPECIFICATION Spec
CONSTANTS
    Sends = 4
    Size <- LastIsLong
    MaxPendingMsgs = 2
    MaxPendingBytes = 2
    Burst = 1
    LibraryQueue = 1
    Errors = {"lost", "moved"}
    NotInitialised = "not initialised"
    MaxPerPoll = 2
    MinInterval = 2
    MaxTime = 3
    MaxStarts = 2
    MaxStops = 1
INVARIANTS EachTokenInOnePlace OvertakesOnlyWaiting StartedUnlessStopped ErrorsThrottled
PROPERTIES EverySendAnswered StopTakesEffect
CHECK_DEADLOCK FALSE
