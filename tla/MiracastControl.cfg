CONSTANTS
  Capacity = 2
  MaxGroups = 2
  Session = {s1, s2}
  None = None
SPECIFICATION FairSpec
INVARIANTS
  ThreadJoined
  PlayerAlive
  OneSession
  StateAgrees
PROPERTIES
  DeInitReturns
  ListensAgain
