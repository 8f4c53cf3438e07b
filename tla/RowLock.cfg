SPECIFICATION Spec
CONSTANTS
  Txns = {t1, t2, t3, t4}
  Rows = {r1, r2}
  NoTx = NoTx
  NoRow = NoRow
  SpuriousWakes = FALSE
CHECK_DEADLOCK FALSE
SYMMETRY TxnRowSymmetry
INVARIANTS HeldRowIsOwned FreeRowIsHandedOn OwnedRowIsListed
