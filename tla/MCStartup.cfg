CONSTANTS
  Threads <- MCThreads
  Kinds = {"uring", "mmsg", "libuv", "demi"}
  Arguments = {0, 1, 2, 3, 4, 5}
  UintRange = 4
SPECIFICATION StartupSpec
INVARIANTS NobodyPassesEarly GroupIsInWorkerOrder BoundWhenSetUp RowsSuffice
PROPERTIES AllServe RunReturns
CHECK_DEADLOCK FALSE
