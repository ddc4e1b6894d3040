SPECIFICATION StoreSpec
CONSTANTS
  Stores = {s1, s2}
  Keys = {k1, k2}
  Values = {v1, v2}
  Absent = Absent
  NoStore = NoStore
  CoarseClock = FALSE
  SlowHolder = TRUE
  MaxWrites = 3
  MaxTrouble = 1
SYMMETRY Symmetry
INVARIANT NoLostUpdate
CHECK_DEADLOCK FALSE
