SPECIFICATION Spec
CONSTANTS
    Entry = {e1}
    NoEntry = NoEntry
    Worker = {}
    Main = Main
    XI <- MCXI
    XC <- MCXC
    XP <- MCXP
    XT <- MCXT
INVARIANT
    CInitializersRun
CHECK_DEADLOCK FALSE
