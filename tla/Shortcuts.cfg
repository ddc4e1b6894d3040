SPECIFICATION ShortcutsSpec
CONSTANTS
  ToolbarSettings <- MCToolbar
  CandidateSettings <- MCCandidate
  Fallback <- MCFallback
  Keys <- MCKeys
  LetterKeys = {"Period"}
  Edits = {"Escape", "Period"}
  Unset = Unset
  Prompt = Prompt
  Foreign <- MCForeign
  MaxChanges = 2
INVARIANTS ConflictTold LabelsHonest ModifierAlone
PROPERTIES RecordedIsRecognised
CHECK_DEADLOCK FALSE
