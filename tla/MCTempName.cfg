CONSTANTS
    a = a
    b = b
    c = c
    d = d
    x = x
    y = y
    x0 = x0
    x1 = x1
    y0 = y0
    y1 = y1
    Nil = Nil
    Mistake = Mistake
    Name <- MCName
    Dir <- MCDir
    DirOf <- MCDirOf
    TempName <- MCTempName
    MaxTemp = 1
    MaxSig = 1
    Jobs <- SwapJobs
SPECIFICATION Spec
INVARIANTS
    TempNameFree
CHECK_DEADLOCK FALSE
