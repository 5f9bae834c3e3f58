CONSTANTS
  Speeds = {994, 1000, 1006}
  Times = {0, 5}
  MaxNow = 7
  MaxCalls = 4
SPECIFICATION TimerSpec
INVARIANTS
  BehindByCalls
PROPERTIES
  NeverBack
