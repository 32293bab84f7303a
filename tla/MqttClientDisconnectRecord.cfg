SPECIFICATION Spec
CONSTANTS
    Responses = {r1}
    DisconnectRecords = {d1}
    Controllers = {}
    V5Configs = {1}
    PublishQos = {1}
    MosqNewMayFail = FALSE
    RetryClamp = 1
    MaxFailedSubs = 0
    Mids = {1, 2}
    MaxOut = 2
    MaxVersion = 2
    DmQueueMax = 1
INVARIANT DisconnectRecordIsAwaited
