CONSTANTS
    Empty = Empty
    NoDir = NoDir
    Nil = Nil
    Mistake = Mistake
    Mark = Mark
    Delok = Delok
    Slash = "/"
    Esc = Esc
    LongNames = {}
    Cwd <- MCCwd
    Home <- MCCwd
    Dots <- MCDots
    Spelling <- MCSpelling
    Simple <- MCSimple
    Inode <- MCInode
    Below <- MCBelow
    Rank <- MCRank
    Upper <- MCUpper
    Lower <- MCLower
    Calls <- PatCalls
SPECIFICATION PatSpec
INVARIANTS
    PatTypeOK
    HandsOver
    SearchesRight
    ReplacementsAsPatterns
    NoMatchTold
PROPERTY PatEnds
CHECK_DEADLOCK FALSE
