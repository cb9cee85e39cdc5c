SPECIFICATION Spec
CONSTANTS
  hello = hello
  bye = bye
  c1 = c1
  c2 = c2
  c3 = c3
  Chats <- MCChats
  NoChat = NoChat
  Contents = {hello, bye}
  Garbage = Garbage
  Options <- MCOptions
  Completions <- MCCompletions
  MaxPieces = 2
SYMMETRY MCSymmetry
CHECK_DEADLOCK FALSE
INVARIANTS
  OwnDeltasOnly
  MockInOrder
  EndpointStable
PROPERTIES
  AnsweredOnce
