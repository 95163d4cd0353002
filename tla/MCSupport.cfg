SPECIFICATION MCSpec
CONSTANTS
  Off = Off
  NULL = NULL
  Pause = TRUE
  Rate = 1
  HasForce = TRUE
  Rates = {0, 1}
  Period = 1
  Commands = {"GO", "KILL", "MDCOMM", "PAUSE"}
  MaxClients = 2
  MaxSent = 2
  Sizes = {1, 2}
INVARIANTS ConnectionSafe TunerRight
PROPERTIES Noticed KeepsTuning
