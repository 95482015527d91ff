SPECIFICATION FairSpec
CONSTANTS
    Entry = {e1, e2, e3, e4}
    NoEntry = NoEntry
    Worker = {w1, w2}
    Main = Main
    XI <- MCXI
    XC <- MCXC
    XP <- MCXP
    XT <- MCXT
INVARIANTS
    TypeOK
    EntryAccounting
    RemoveFindsEntry
    BugcheckOnlyWithoutCApi
    TablesInOrder
PROPERTIES
    StackSpec
    RegisteredRuns
    UnloadEnds
\* The driver ends in gone, refused, bugcheck, or stays loaded for good.
CHECK_DEADLOCK FALSE
