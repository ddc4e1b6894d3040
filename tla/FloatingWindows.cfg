SPECIFICATION Spec
CONSTANTS
  Tools = {"next"}
  Places = {"corner", "middle"}
  Corner = "corner"
  Looks = {"layout"}
  Program <- MCProgram
  List <- MCList
  Reborn = {"candidates"}
INVARIANTS HeldMouse TooltipsEnd SavedIsShown
