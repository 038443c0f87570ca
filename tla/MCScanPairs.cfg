CONSTANTS
    Cwd = ""
    Home = "~/"
    Empty = Empty
    NoDir = NoDir
    Nil = Nil
    Mistake = Mistake
    Dots = {"."}
    LongNames = {"long"}
    Spelling <- MCSpelling
    Simple <- MCSimple
    Inode <- MCInode
    Below <- MCBelow
    Calls <- PairCalls
SPECIFICATION ScanSpec
INVARIANTS
    ScanTypeOK
    HandsOver
    TargetsAsMv
    EveryPairTried
PROPERTY ScanEnds
CHECK_DEADLOCK FALSE
