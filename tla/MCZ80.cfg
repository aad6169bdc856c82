SPECIFICATION ProgramSpec
CONSTANTS
  Tasks <- MCTasks
  Addrs <- MCAddrs
  PortBytes = {0, 255}
  RandomBytes = {0, 129}
INVARIANTS
  ArithmeticRight
  MemoryRight
PROPERTY ProgramsEnd
CHECK_DEADLOCK FALSE
