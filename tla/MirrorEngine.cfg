CONSTANTS
  Thread = {t1, t2, t3}
  NoThread = NoThread
SPECIFICATION Spec
INVARIANTS
  StatesAgree
  CallbackUpToDate
CHECK_DEADLOCK FALSE
