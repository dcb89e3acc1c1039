SPECIFICATION SessionSpec
CONSTANTS
  one = one
  two = two
  v1 = v1
  NoId = NoId
  Silence = Silence
  NoLine = NoLine
  NoVersion = NoVersion
  LatestLegacy = v1
  Ids <- MCIds
  IdWidth <- MCIdWidth
  BodyWidth <- MCBodyWidth
  Legacy <- MCLegacy
  Limits = {100000}
  Messages <- MCMessages
  Batches <- MCBatches
  MaxLines = 3
  Panics = TRUE
  InRoom = 1
  OutRoom = 1
  Manners = {"waits", "drains", "bursts"}
  Quotas <- MCQuotas
  Troubles = TRUE
INVARIANTS InStep OkLosesNothing
PROPERTIES EveryAnswerArrives SessionEnds
