SPECIFICATION Spec
CONSTANTS
  Columns = {2, 10, 22}
  Rows = {12, 46}
  CodeSize = 1
  IdSize = 2
INVARIANT TypeOK
INVARIANT OncePerPress
INVARIANT OneCodeAtATime
