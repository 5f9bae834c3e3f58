CONSTANTS
  MaxFed = 3
  Contents = {{"pat"}, {"pmt"}, {"es"}, {"pat", "pmt"}}
  Keep = 1
  Stream = {video}
  Block = {b1, b2}
  None = None
  MaxPieces = 2
SPECIFICATION FairSpec
INVARIANTS
  TypeOK
  BuffersAccounted
  NextInTurn
  UsedWhileAlive
  FilledBlockLent
PROPERTY StopReturns
