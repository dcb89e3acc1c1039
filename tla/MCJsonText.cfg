SPECIFICATION Spec
CONSTANTS
  Pieces <- MCPieces
  NumberChars = {"-", "+", ".", "e", "0", "1", "N"}
  MaxPieces = 3
  MaxChars = 6
  Density = 22
  IntDigits = 3
  SuffixDigits = 2
  FloatBase = 3
  Precision = 2
  MinExponent <- MCMinExponent
  MaxExponent = 4
  TellingDigits = 3
  FloatDigits = 5
  FloatZeros = 2
INVARIANTS ScannersAgree SpellingKeepsMeaning WrittenIsRead MinifyNeverCostsMore
CHECK_DEADLOCK FALSE
