SPECIFICATION SpecAll
CONSTANTS
  Txns = {t1, t2, t3}
  Keys = {k1}
  NoTx = NoTx
  NoKey = NoKey
  MaxGuards = 2
  SpuriousWakes = FALSE
  Hazards = {}
SYMMETRY Interchangeable
CHECK_DEADLOCK FALSE
INVARIANTS DepthCountsGuards KeysAreUnique NobodyStranded
