CONSTANTS
  Contexts = {c1, c2}
  NoContext = NoContext
  MaxLetters = 3
  MaxFailures = 2
  MaxGen = 2
SPECIFICATION Spec
INVARIANTS TypeOK InOrder InputShown
PROPERTY TextKept
CHECK_DEADLOCK FALSE
