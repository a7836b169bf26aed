SPECIFICATION FairSpec
CONSTANTS
  MaxOps = 2
  MaxValue = 2
  Moves <- MCMoves
  MaxFaults = 1
  Workers = {w1, w2}
INVARIANTS TypeOK AppliedOnce NothingLost
PROPERTIES UndoesNobody QueueDrains
CHECK_DEADLOCK FALSE
