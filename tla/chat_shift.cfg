SPECIFICATION Spec
CONSTANTS
  Clients = {"chat"}
  Pad = 2
  DefaultContext = 8
  Headroom = 2
  BatchMax = 2
  MinContext = 3
  ContextSizes = {8}
  SystemSizes = {1}
  UserSizes = {1, 3}
  PredictLengths = {1}
  DirectContexts = {6}
  DirectMinContext = 3
  FirstContext = 8
  PrefillChunk = 1
  DirectPromptSizes = {1}
  Predict = 1
  Pieces <- MCPieces
  Models = {"a"}
  IosContext = 6
  BatchCapacity = 6
  UBatch = 2
  MinLength = 4
  CharsPerToken = 2
  MaxTokens = {1}
  IosPromptSizes = {1}
  MaxCur = 9
INVARIANT
  ProperPositions
