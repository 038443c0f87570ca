CONSTANTS
    Cwd = ""
    Home = "~/"
    Empty = Empty
    NoDir = NoDir
    Nil = Nil
    Mistake = Mistake
    Dots = {"."}
    LongNames = {"long"}
    Spelling <- MCSpelling
    Simple <- MCSimple
    Inode <- MCInode
    Below <- MCBelow
    Calls <- AliasCalls
SPECIFICATION ScanSpec
INVARIANT SpellingsShare
CHECK_DEADLOCK FALSE
