\* A path that is a link in the first version and a file in the second.
SPECIFICATION MCSpec
CONSTANTS
  ShortKey = ShortKey
  B = 2
  Byte = {0, 1, 2, 3}
  right = right
  other = other
  Utf8 = {1, 3}
  Key = {right, other, ShortKey}
  None = None
  Manifests <- Sent
  MaxCalls = 0
  MaxText = 0
  Paths <- FourPaths
  Above <- Parents
  Versions <- LinkThenFile
  Similar = {}
  Stray = Stray
  MaxRuns = 2
CHECK_DEADLOCK FALSE
INVARIANTS
PreparedSizes
