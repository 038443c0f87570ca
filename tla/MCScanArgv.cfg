CONSTANTS
    Cwd = ""
    Home = "~/"
    Empty = Empty
    NoDir = NoDir
    Nil = Nil
    Mistake = Mistake
    Dots = {"."}
    LongNames = {"long"}
    Spelling <- MCSpelling
    Simple <- MCSimple
    Inode <- MCInode
    Below <- MCBelow
    Calls <- ArgvCalls
SPECIFICATION ScanSpec
INVARIANT EveryPairTried
CHECK_DEADLOCK FALSE
