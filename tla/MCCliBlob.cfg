SPECIFICATION Spec
CONSTANTS
  slot = slot
  link = link
  src = src
  i1 = i1
  i2 = i2
  i3 = i3
  g1 = g1
  g2 = g2
  b1 = b1
  b2 = b2
  NoDoc = NoDoc
  None = None
  NoPath = NoPath
  Pipe = Pipe
  Observed = p1
  Nothing = Nothing
  Passthrough = Passthrough
  Good <- MCGood
  Bad <- MCBad
  TkfdNotes <- MCNotes
  Paths <- MCPaths
  Inodes <- MCInodes
  Procs = {p1, p2}
  Disks <- RaceDisks
  Invocations <- RaceInvocations
  MaxRuns = 2
  MaxMoves = 0
  Faults = FALSE
  Crashes = FALSE
PROPERTIES NoRenderingWithoutItsArchive
SYMMETRY AnyOrder
CHECK_DEADLOCK FALSE
