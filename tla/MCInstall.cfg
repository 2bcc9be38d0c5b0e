\* Three calls over names; texts of four bytes; three runs of the installer.
SPECIFICATION MCSpec
CONSTANTS
  ShortKey = ShortKey
  B = 2
  Byte = {0, 1, 2, 3}
  right = right
  other = other
  Utf8 = {1, 3}
  Key = {right, other, ShortKey}
  None = None
  Manifests <- Sent
  MaxCalls = 3
  MaxText = 4
  Paths <- FourPaths
  Above <- Parents
  Versions <- SixVersions
  Similar = {1, 2, 3}
  Stray = Stray
  MaxRuns = 3
\* nothing is left to do after the last call or run
CHECK_DEADLOCK FALSE
INVARIANTS
NamesInv
RoundTrip
TreeInv
NoMix
