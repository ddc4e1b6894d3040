SPECIFICATION CandidateSpec
CONSTANTS
  Letters = {n}
  MaxInput = 2
  MenuSize <- Sizes
  Wide = {1, 5}
  Partial = {2, 5}
  Rankings = {1}
  RimePage = 2
  MaxWalk = 4
  Counts = {2, 3}
  TailRows = 1
  RowLength = 3
  Monitors <- TwoMonitors
  NoMonitor = NoMonitor
INVARIANTS CandidateTypeOK RecordHonest ChoiceIsShown NextPageHolds ArrowsReachAll DigitsAsDrawn
CHECK_DEADLOCK FALSE
