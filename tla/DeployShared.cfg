SPECIFICATION DeploySpec
CONSTANTS
  Procs = {p, q}
  Pinyin = pinyin
  Double = double
  Plain = plain
  Fuzzy = fuzzy
  None = None
  Keys <- MCKeys
  Configs <- MCTwoConfigs
  Extras = {x, y}
  MaxEdits = 2
  MaxTrouble = 1
SYMMETRY Symmetry
INVARIANT CacheHonest
