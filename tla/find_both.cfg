SPECIFICATION Spec
CONSTANTS
  m1 = m1
  m2 = m2
  m3 = m3
  t1 = t1
  t2 = t2
  f1 = f1
  f2 = f2
  NoPrompt = NoPrompt
  NoText = NoText
  NoTurn = NoTurn
  NoCtx = NoCtx
  NoSnapshot = NoSnapshot
  NoFlush = NoFlush
  Pending = Pending
  Prompt = Prompt
  Msgs <- MCMsgs
  Turns <- OneTurn
  FlushCalls <- OneFlush
  Loaded <- OneLoaded
  SessionLimits <- MCLimits
  Responses <- NetworkResponses
  Sends <- SendsAll
  Reports <- ReportsAll
  MaxQueueItems = 2
  MaxItemAttempts = 2
  AutoFlush = FALSE
  MaxCancels = 0
  MaxToolRoundTrips = 3
  HasRegistry = TRUE
  Persist = FALSE
  MessageSize = 4
  PromptSize <- MCPromptSize
INVARIANTS
  SessionQueueDisjoint
