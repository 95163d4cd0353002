SPECIFICATION MCSpec
CONSTANTS
  Off = Off
  Analyzer = {"log"}
  Updater = {"balance"}
  Periods = {3}
  Phases <- PhaseOne
  Frames <- Dips
  MaxFrames = 2
  LimitMultiple = 2
  CallbackPeriod = 2
  MaxStep = 4
  MaxRun = 2
  Signals = FALSE
INVARIANTS NeverMissed ExactlyPeriodic FlagsReady NetForceRight
PROPERTIES RunEnds
