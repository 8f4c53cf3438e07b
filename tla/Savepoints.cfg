SPECIFICATION Spec
CONSTANTS
  Names = {s1, s2}
  MaxStmts = 4
  MaxDepth = 3
  Hazards = {}
INVARIANTS TypeOK FramesWithinJournal UndoneStaysUndone PrefixReplaysSavepoint
 
