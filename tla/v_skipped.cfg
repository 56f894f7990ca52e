SPECIFICATION Spec
CONSTANTS
    SizeLimit = 40
    MaxEdits = 1
    AMI_RECORD_SIZE = 7
    Images <- GappedOnly
    Payloads <- MCPayloads
    Targets <- MCTargets
PROPERTIES SkippedFilesKept
CHECK_DEADLOCK FALSE
