SPECIFICATION LinesSpec
CONSTANT MaxEntries = 5
INVARIANT GapsButNoForks
CHECK_DEADLOCK FALSE
