SPECIFICATION Spec
CONSTANTS
  Fds = {c1, c2, c3}
  undefined = undefined
  Codes = {k1}
  NoRoomCode = NoRoomCode
  BadCode = BadCode
  NoText = NoText
  Torn = Torn
  MaxRooms = 1
  MaxRequests = 2
  Headers = {"002", "003", "004", "005", "006"}
  Losses = {}
  CodesUnique = TRUE
SYMMETRY Symmetry
INVARIANT TypeOK
INVARIANT OneUpdateAtATime
INVARIANT SameOrder
INVARIANT UpdatesReachEverySeat
PROPERTY UpdatesAreCurrent
PROPERTY ServiceSpec
CHECK_DEADLOCK FALSE
