SPECIFICATION FairConsoleSpec
CONSTANTS
    rowA = rowA
    rowB = rowB
    good = good
    bad = bad
    NoTarget = NoTarget
    NoFile = NoFile
    Parts <- PartNames
    MaxWrites = 2
    Targets <- TwoTargets
    MaxCalls = 2
    Ten = 1
    Twenty = 2
    Fifty = 5
    Hundred = 10
    MaxRows = 6
    MaxAnswers = 2
    Files <- TwoFiles
    BadFiles <- OneBad
    RowsPerFile = 2
    MaxTasks = 2
    addrA = addrA
    addrB = addrB
    Addresses <- TwoAddresses
    Malformed = Malformed
INVARIANTS
    ConsoleTypeOK
    AckedIsShown
    DialogSound
    TableSound
PROPERTIES
    ImportSound
    FrameSound
    PolledCatchesUp
