SPECIFICATION FairSpec
CONSTANTS
  name = name
  learning = learning
  t1 = t1
  t2 = t2
  slot1 = slot1
  slot2 = slot2
  Questions <- OneQuestion
  Required <- RequiredName
  Transcripts <- OneTranscript
  NoTranscript = NoTranscript
  Blank = Blank
  UserText = UserText
  SupportsOnDevice = TRUE
  ModelConfigured = FALSE
  Slots <- OneSlot
  MaxTests = 0
  MaxWarmups = 1
PROPERTY
  EditsPersist
