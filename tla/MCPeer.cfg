SPECIFICATION FairSpec
CONSTANTS
    Cmds = {"disconnect", "zero"}
    MaxEvents = 3
    MaxCmds = 2
INVARIANTS ClosePanics ConnectedNeverBlocks CommandPanics
PROPERTIES DownEndsPeer CommandsServed
CHECK_DEADLOCK FALSE
