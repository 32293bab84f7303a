\* Three sessions of the controller, messages of up to three segments.
CONSTANTS
    Records <- MCRecords
    MaxParts = 2
    MaxId = 4
    MaxSent = 2
    QueueMax = 2
SPECIFICATION Spec
INVARIANTS TypeOK HandledIsWhole SessionSound ModeHonoured
