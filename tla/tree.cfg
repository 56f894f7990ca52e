SPECIFICATION MCSpec
CONSTANTS
    SizeLimit = 40
    MaxEdits = 2
    AMI_RECORD_SIZE = 7
    Images <- MCImages
    Payloads <- MCPayloads
    Targets <- MCTargets
    CodeBits = 4
    BufBits = 8
    Lits = 6
    NC = 10
    NT = 7
    NP = 3
    CTable = 3
    PTable = 2
    CBIT = 4
    TBIT = 3
    PBIT = 2
    BlockBits = 2
    RunBits = 1
    LongRun = 5
    THRESHOLD = 3
CHECK_DEADLOCK FALSE
INVARIANTS MarksReachRoot StoredIsSound LookupsAgree DecoderSound
PROPERTIES FlushWritesTree InsertLands UneditedKeepsBytes
