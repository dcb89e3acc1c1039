SPECIFICATION Spec
CONSTANTS
  Strings = {"a", "b", "c"}
  Scalars = {"1"}
  Broken = {"?"}
  EndOfInput = "end"
  MaxDepth = 4
  MaxTokens = 7
  Starts <- MCStarts
  EmitString <- MCMeaning
  Meaning <- MCMeaning
  Readers <- MCReaders
  Hashers = {"exact", "length"}
  Hash <- MCHash
INVARIANTS ClosesWhatIsOpen DecidesTheGrammar TapeKeepsTheDocument TablesReadBack TablesWhereShapesRepeat ReaderDecides
CHECK_DEADLOCK FALSE
