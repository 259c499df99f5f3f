SPECIFICATION Spec
CONSTANTS
  Fds = {c1, c2}
  Ids = {i1, i2}
  WrongId = WrongId
  Contents = {x1, x2}
  NoText = NoText
  Torn = Torn
  Openers = {c1, c2}
  Failing = {"delete", "select"}
  MaxRequests = 2
  MaxStarts = 2
  IdsUnique = TRUE
INVARIANT TypeOK
INVARIANT SavedStaysSaved
INVARIANT DeletedStaysDeleted
PROPERTY StoreSpec
SYMMETRY Symmetry
CHECK_DEADLOCK FALSE
