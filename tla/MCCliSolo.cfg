SPECIFICATION FairSpec
CONSTANTS
  slot = slot
  link = link
  src = src
  i1 = i1
  i2 = i2
  i3 = i3
  g1 = g1
  g2 = g2
  b1 = b1
  b2 = b2
  NoDoc = NoDoc
  None = None
  NoPath = NoPath
  Pipe = Pipe
  Observed = p1
  Nothing = Nothing
  Passthrough = Passthrough
  Good <- MCGood
  Bad <- MCBad
  TkfdNotes <- MCNotes
  Paths <- MCPaths
  Inodes <- MCInodes
  Procs = {p1}
  Disks <- SoloDisks
  Invocations <- SoloInvocations
  MaxRuns = 2
  MaxMoves = 0
  Faults = TRUE
  Crashes = TRUE
INVARIANTS SlotAgreesWithOutput ExitsTellTheTruth
PROPERTIES KeepsTheContract EveryRunEnds
CHECK_DEADLOCK FALSE
