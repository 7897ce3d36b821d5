\* Run stops for good once WsClient::Run has returned or thrown, and a quiet
\* server leaves the read loop waiting forever: deadlock is not an error.
CONSTANTS
    MaxServerMessages <- MC_MaxServerMessages
    LinkMayFail = TRUE
    Channels <- MC_Channels
    CallbackChannel <- MC_CallbackChannel
    CallerThread = TRUE
    MaxCalls <- MC_MaxCalls
SPECIFICATION Spec
CHECK_DEADLOCK FALSE
INVARIANT
    ServerGetsCallsInOrder
PROPERTY
    PingAnswered
