SPECIFICATION ServerSpec
CONSTANTS
  Fds = {4, 5}
  undefined = undefined
  Codes = {k1}
  NoRoomCode = NoRoomCode
  BadCode = BadCode
  NoText = NoText
  Torn = Torn
  MaxRooms = 1
  MaxRequests = 2
  Headers = {"002", "003", "004", "005", "006"}
  Losses = {"fin"}
  CodesUnique = TRUE
  TableSize = 2
  MaxConnections = 3
INVARIANT SlotOwnership
 
PROPERTY RoomIsolation
PROPERTY ServiceSpec
CHECK_DEADLOCK FALSE
