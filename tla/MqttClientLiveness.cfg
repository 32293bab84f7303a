SPECIFICATION FairSpec
CONSTANTS
    Responses = {r1}
    DisconnectRecords = {}
    Controllers = {}
    V5Configs = {1}
    PublishQos = {0, 1}
    MosqNewMayFail = FALSE
    RetryClamp = 1
    MaxFailedSubs = 0
    Mids = {1}
    MaxOut = 1
    MaxVersion = 2
    DmQueueMax = 1
PROPERTIES NoWaitLastsForever HeadIsPublished
