SPECIFICATION Spec
CONSTANTS
    Profiles = {1, 2}
    MaxProfiles = 1
    MaxRetained = 1
    Reports = {r1, r2, r3}
    BdcQueueMax = 1
    DmQueueMax = 1
    None = None
SYMMETRY ReportSymmetry
INVARIANTS TypeOK   SentIsRetained RoomForAll
