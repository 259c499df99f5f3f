SPECIFICATION Spec
CONSTANTS
  Fds = {c1, c2, c3}
  undefined = undefined
  Codes = {k1}
  NoRoomCode = NoRoomCode
  BadCode = BadCode
  NoText = NoText
  Torn = Torn
  MaxRooms = 1
  MaxRequests = 1
  Headers = {"002", "003"}
  Losses = {}
  CodesUnique = TRUE
SYMMETRY Symmetry
INVARIANT AtMostTwoMembers
CHECK_DEADLOCK FALSE
