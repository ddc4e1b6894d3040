SPECIFICATION Spec
CONSTANTS
  Apps = {app, guarded}
  Protected = {guarded}
  Versions <- MCVersions
  Others = {"other", "spare", "alike"}
  Alike = {"alike"}
  Lists <- MCLists
  MaxJobs = 2
INVARIANTS SurvivesReboot NothingLeft RegistrationMatches
PROPERTIES OthersKept
CHECK_DEADLOCK FALSE
