SPECIFICATION MCSpec
CONSTANTS
  a1 = a1
  a2 = a2
  a3 = a3
  a4 = a4
  null = null
  Off = Off
  Addr <- Addrs
  Null = null
  Requests = {0, 2, 3, 8}
  max_cached_bytes = 4
  TolNum = 1
  TolDen = 2
  Modulus = 16
  MaxDepth = 2
INVARIANTS BlocksSafe Accounting BalanceRight GPUGhostsRight
PROPERTIES BroughtHome
