SPECIFICATION FlatSpec
CONSTANT Off = Off
CHECK_DEADLOCK FALSE
INVARIANT FlatListExact
