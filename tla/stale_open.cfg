SPECIFICATION Spec
CONSTANTS
  Fds = {c1, c2}
  Ids = {i1, i2}
  WrongId = WrongId
  Contents = {x1}
  NoText = NoText
  Torn = Torn
  Openers = {c1, c2}
  Failing = {}
  MaxRequests = 2
  MaxStarts = 2
  IdsUnique = TRUE
INVARIANT OpenAnswersItsQuery
SYMMETRY Symmetry
CHECK_DEADLOCK FALSE
