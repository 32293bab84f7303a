SPECIFICATION Spec
CONSTANTS
    Responses = {r1, r2}
    DisconnectRecords = {d1}
    Controllers = {k1}
    V5Configs = {1}
    PublishQos = {0, 1}
    MosqNewMayFail = TRUE
    RetryClamp = 1
    MaxFailedSubs = 1
    Mids = {1}
    MaxOut = 2
    MaxVersion = 2
    DmQueueMax = 1
SYMMETRY ResponseSymmetry
INVARIANTS TypeOK LossIsNoticed RunningIsConnected ConnectUndisturbed NextParamsHeld UnusedSlotIsClean NothingBehindDisconnect ConnectRecordFirst
PROPERTIES ChannelSpec PurgedOnlyByClose
