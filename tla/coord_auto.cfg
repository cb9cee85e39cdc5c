SPECIFICATION FairSpec
CONSTANTS
  m1 = m1
  m2 = m2
  m3 = m3
  t1 = t1
  t2 = t2
  f1 = f1
  f2 = f2
  NoPrompt = NoPrompt
  NoText = NoText
  NoTurn = NoTurn
  NoCtx = NoCtx
  NoSnapshot = NoSnapshot
  NoFlush = NoFlush
  Pending = Pending
  Prompt = Prompt
  Msgs <- TwoMsgs
  Turns <- OneTurn
  FlushCalls <- TwoFlushes
  Loaded <- OneLoaded
  SessionLimits <- MCLimits
  Responses <- MostResponses
  Sends <- SendsSome
  Reports <- ReportsAll
  MaxQueueItems = 2
  MaxItemAttempts = 2
  AutoFlush = TRUE
  MaxCancels = 0
  MaxToolRoundTrips = 2
  HasRegistry = TRUE
  Persist = FALSE
  MessageSize = 4
  PromptSize <- MCPromptSize
INVARIANTS
  NothingStranded
PROPERTIES
  NothingWaitsForever
