SPECIFICATION FairSpec
CONSTANTS
  c1 = c1
  c2 = c2
  c3 = c3
  t1 = t1
  t2 = t2
  custom = custom
  NoPrompt = NoPrompt
  NoText = NoText
  NoTurn = NoTurn
  NoCtx = NoCtx
  NoSnapshot = NoSnapshot
  Pending = Pending
  Prompt = Prompt
  Callers <- TwoCallers
  Turns <- TwoTurns
  SessionLimits <- MCLimits
  PromptSize <- MCPromptSize
  Responses <- ToolsFail
  Overrides <- OneOverride
  MaxCancels = 1
  MaxRestarts = 1
  MaxToolRoundTrips = 2
  HasRegistry = TRUE
  Persist = TRUE
  MessageSize = 4
INVARIANTS
  TypeOK
  ToolResultsPaired
  SavedIsFinished
PROPERTIES
  TurnsEnd
CHECK_DEADLOCK FALSE
