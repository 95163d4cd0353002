SPECIFICATION MCSpec
CONSTANTS
  a1 = a1
  a2 = a2
  a3 = a3
  Off = Off
  Junk = Junk
  NoWrite = NoWrite
  Arrays <- One
  Values = {0, 1}
  Zero = 0
  MaxElements = 4
  Sizes1D <- UpToTwo
  Sizes2D <- Rows
  Align = 2
  CUDAEnabled = TRUE
  ClientSyncs = TRUE
INVARIANTS Coherent StoragesRight
PROPERTIES ImplementsLogicalArray OthersImplement
