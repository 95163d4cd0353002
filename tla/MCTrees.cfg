SPECIFICATION MCSpec
CONSTANT Off = Off
CHECK_DEADLOCK FALSE
INVARIANTS TreesRight NeighborsExact
