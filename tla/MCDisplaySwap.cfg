SPECIFICATION LiveSpec
CONSTANT MaxFrames = 6
INVARIANTS TypeOK NoTearing ReadyAfterLatch
PROPERTY FlushCompletes
CHECK_DEADLOCK FALSE
