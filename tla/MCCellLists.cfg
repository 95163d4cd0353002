SPECIFICATION MCSpec
CHECK_DEADLOCK FALSE
INVARIANTS CellsRight SearchComplete
PROPERTIES ComputeEnds
