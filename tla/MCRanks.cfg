SPECIFICATION MCSpec
CONSTANTS
  Off = Off
  Rank = {1, 2, 3}
  NSteps = 2
  Caught = TRUE
  Reordered = TRUE
INVARIANTS ErrorLock GhostsRight Matched
PROPERTIES Returns
