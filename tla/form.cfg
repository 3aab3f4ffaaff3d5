SPECIFICATION FairSpec
CONSTANTS
  name = name
  learning = learning
  t1 = t1
  t2 = t2
  slot1 = slot1
  slot2 = slot2
  Questions <- TwoQuestions
  Required <- RequiredName
  Transcripts <- TwoTranscripts
  NoTranscript = NoTranscript
  Blank = Blank
  UserText = UserText
  SupportsOnDevice = TRUE
  ModelConfigured = FALSE
  Slots <- TwoSlots
  MaxTests = 0
  MaxWarmups = 1
INVARIANTS
  TypeOK
  SingleFlight
  AcceptedIsMapped
PROPERTIES
  ImplementsMappingService
  AcceptedSettles
