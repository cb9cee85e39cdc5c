SPECIFICATION Spec
CONSTANTS
  m1 = m1
  m2 = m2
  m3 = m3
  t1 = t1
  t2 = t2
  f1 = f1
  f2 = f2
  NoPrompt = NoPrompt
  NoText = NoText
  NoTurn = NoTurn
  NoCtx = NoCtx
  NoSnapshot = NoSnapshot
  NoFlush = NoFlush
  Pending = Pending
  Prompt = Prompt
  Msgs <- MCMsgs
  Turns <- TwoTurns
  FlushCalls <- TwoFlushes
  Loaded <- OneLoaded
  SessionLimits <- MCLimits
  Responses <- MostResponses
  Sends <- SendsSome
  Reports <- ReportsAll
  MaxQueueItems = 2
  MaxItemAttempts = 2
  AutoFlush = FALSE
  MaxCancels = 1
  MaxToolRoundTrips = 2
  HasRegistry = TRUE
  Persist = FALSE
  MessageSize = 4
  PromptSize <- MCPromptSize
INVARIANTS
  TypeOK
  NotWedged
  CallersAnsweredOnce
  OneTurnUnlessCancelled
  FrontIsInFlight
  LeftoverHasToolRound
  NothingLost
PROPERTIES
  DeliversInOrder
