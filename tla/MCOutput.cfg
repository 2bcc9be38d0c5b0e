\* Three tasks report at once, in either mode; every command line.
SPECIFICATION MCSpec
CONSTANTS
  a = a
  b = b
  c = c
  Depots = {a, b, c}
  Options <- EveryCommand
  Files <- SharedFiles
  Links <- OneLink
  NTasks = 3
  bytes_total = 5
  SizeOf <- Sizes
  RoundsDown = {3}
INVARIANTS
EachPercentOnce
FinalLineShown
OutputInv
