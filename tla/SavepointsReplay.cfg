SPECIFICATION Spec
CONSTANTS
  Names = {s1, s2}
  MaxStmts = 2
  MaxDepth = 2
  Hazards = {"release"}
INVARIANT PrefixReplaysSavepoint
