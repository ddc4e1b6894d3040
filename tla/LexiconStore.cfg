SPECIFICATION Spec
CONSTANTS
  dict = dict
  words = words
  text = text
  Tables = {dict, words}
  UserWords = words
  Contents = {text, blank}
  Blank = blank
  Scheme = "wanxiang_pro"
  Others <- MCOthers
  NoFile = NoFile
  Cut = Cut
  MaxOps = 2
  MaxTrouble = 1
INVARIANTS TypeOK AggregatesCurrent Deployable EntriesKept LexiconsInForce
CHECK_DEADLOCK FALSE
