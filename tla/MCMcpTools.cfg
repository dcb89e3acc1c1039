SPECIFICATION Spec
CONSTANTS
  Group = 8
  Top = 127
  MaxGroups = 3
  Radix = 8
  Octets = 16
  declined = declined
  Declined = declined
  Documents <- MCDocuments
  IsUtf8 <- MCIsUtf8
  Parsed <- MCParsed
  Tokens <- MCTokens
  BodyOf <- MCBodyOf
  Magic <- MCMagic
  DigestLen = 2
  Digest <- Fingerprint
  MaxInput = 16
  MaxMessage = 33
  Envelope = 1
  Spelled <- MCSpelled
  MaxDamage <- MCMaxDamage
INVARIANTS ComesBack NothingIsIgnored OneFieldPerNumber TruncationIsFraming NothingIsDropped EstimateMatchesCompress SchemaIsKept
CHECK_DEADLOCK FALSE
