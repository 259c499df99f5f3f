SPECIFICATION Spec
CONSTANTS
  Events = {"key"}
  Buttons = {"create"}
  ServerEnds = {}
  MaxRooms = 1
  MaxEvents = 2
  MaxPresses = 1
  MaxChanges = 0
INVARIANT KeystrokesSurvive
CHECK_DEADLOCK FALSE
