SPECIFICATION FairSpec
CONSTANTS
  Fds = {c1, c2}
  undefined = undefined
  Codes = {k1, k2}
  NoRoomCode = NoRoomCode
  BadCode = BadCode
  NoText = NoText
  Torn = Torn
  MaxRooms = 2
  MaxRequests = 2
  Headers = {"002", "003", "004", "005"}
  Losses = {"rst"}
  CodesUnique = TRUE
INVARIANT OneSlotEach
INVARIANT CreatorJoinsItsRoom
PROPERTY RequestsAreServed
PROPERTY VanishedThreadsEnd
CHECK_DEADLOCK FALSE
