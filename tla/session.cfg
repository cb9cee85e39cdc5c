SPECIFICATION Spec
CONSTANTS
  p1 = p1
  p2 = p2
  NoPrompt = NoPrompt
  NoText = NoText
  NoFile = NoFile
  Prompts <- MCPrompts
  PromptSize <- MCPromptSize
  Sizes <- MCSizes
  Options <- MCOptions
INVARIANTS
  PromptInFront
  RollbackUndoesAppend
PROPERTIES
  BudgetKept
  LoadRestores
