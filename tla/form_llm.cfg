SPECIFICATION SpecWithReset
CONSTANTS
  name = name
  learning = learning
  t1 = t1
  t2 = t2
  slot1 = slot1
  slot2 = slot2
  Questions <- OneQuestion
  Required <- RequiredName
  Transcripts <- OneTranscript
  NoTranscript = NoTranscript
  Blank = Blank
  UserText = UserText
  SupportsOnDevice = TRUE
  ModelConfigured = TRUE
  Slots <- OneSlot
  MaxTests = 2
  MaxWarmups = 1
INVARIANTS
  RunningTestIsInFlight
  SubmittedIsComplete
PROPERTIES
  LlmTestSettles
