SPECIFICATION MCSpec
CONSTANT Off = Off
INVARIANTS BondsFollow GroupsCurrent
PROPERTIES SnapshotTrue QueryEnds
