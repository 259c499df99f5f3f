SPECIFICATION FairSpec
CONSTANTS
  Events = {"key", "backspace", "left", "right", "close"}
  Buttons = {"create", "join", "clear"}
  ServerEnds = {}
  MaxRooms = 1
  MaxEvents = 2
  MaxPresses = 1
  MaxChanges = 1
INVARIANT TypeOK
 
 
CHECK_DEADLOCK FALSE
