SPECIFICATION MCSpec
CONSTANTS
  Ranks = {0, 1}
  Root = 0
  Nobody = Nobody
  MaxTags = 3
  Off = Off
INVARIANTS ParticlesRight TagPool NothingStale DecompositionRight
