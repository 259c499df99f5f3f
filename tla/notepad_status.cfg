SPECIFICATION FairSpec
CONSTANTS
  Events = {"key"}
  Buttons = {"create", "join", "leave", "open", "save", "delete", "download"}
  ServerEnds = {"fin", "rst"}
  MaxRooms = 2
  MaxEvents = 0
  MaxPresses = 3
  MaxChanges = 0
INVARIANT StatusAgrees
PROPERTY ClientFollowsServer
CHECK_DEADLOCK FALSE
