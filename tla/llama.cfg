SPECIFICATION Spec
CONSTANTS
  Clients = {"chat", "direct", "ios"}
  Pad = 2
  DefaultContext = 8
  Headroom = 2
  BatchMax = 2
  MinContext = 3
  ContextSizes = {1, 5, 8}
  SystemSizes = {2, 6, 7}
  UserSizes = {1, 3, 7}
  PredictLengths = {1, 3}
  DirectContexts = {1, 6}
  DirectMinContext = 3
  FirstContext = 8
  PrefillChunk = 1
  DirectPromptSizes = {0, 1, 5, 6}
  Predict = 4
  Pieces <- MCPieces
  Models = {"a", "b"}
  IosContext = 6
  BatchCapacity = 6
  UBatch = 2
  MinLength = 4
  CharsPerToken = 2
  MaxTokens = {1, 5}
  IosPromptSizes = {1, 3, 7}
  MaxCur = 9
INVARIANTS
  TypeOK
  CacheInStep
  SystemPromptStays
  LoadedIsLive
  FreshModelGenerates
  DirectInStep
  OneObjectOrNone
  IosCacheInStep
PROPERTIES
  GenerationEnds
  CloseReturns
  InferReturns
  IosCompletionEnds
