SPECIFICATION Spec
CONSTANTS
  Devices = {da, db}
  Sharing = {da}
  Files = {fa, fb}
  MaxEdits = 1
  MaxNow = 2
  MaxCuts = 1
  MaxClicks = 1
  None = None
  da = da
  fa = fa
  fb = fb
  db = db
SYMMETRY FilesAlike
INVARIANTS EditsKept WholeUploads
CHECK_DEADLOCK FALSE
