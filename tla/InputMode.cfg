SPECIFICATION FairSpec
CONSTANTS
  Services = {sa, sb}
  Options <- OneOption
  QueueLimit = 8
  MaxChoices = 2
  First = sa
  None = None
  sa = sa
  sb = sb
INVARIANT Agreed
PROPERTIES Quiet HiddenEverywhere
CHECK_DEADLOCK FALSE
