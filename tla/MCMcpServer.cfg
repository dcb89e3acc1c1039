SPECIFICATION ServerSpec
CONSTANTS
  one = one
  three = three
  wide = wide
  v1 = v1
  v2 = v2
  NoId = NoId
  Silence = Silence
  NoLine = NoLine
  NoVersion = NoVersion
  LatestLegacy = v2
  Ids <- MCIds
  IdWidth <- MCIdWidth
  BodyWidth <- MCBodyWidth
  Legacy <- MCLegacy
  Limits <- MCLimits
  Messages <- MCMessages
  Batches <- MCBatches
  MaxLines = 2
  Panics = TRUE
INVARIANTS FramesFit OneAnswerEach HandshakeIsTheOneTold MeasuredWindows
CHECK_DEADLOCK FALSE
