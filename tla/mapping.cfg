SPECIFICATION FairSpec
CONSTANTS
  x = x
  y = y
  z = z
  nx = nx
  nz = nz
  NumFields = 3
  NameFields <- NameFirst
  SinglePassThreshold = 1
  Texts <- ThreeTexts
  None = None
  Norms <- ThreeNorms
  NoNorm = NoNorm
  Norm <- NormOf
  ForField <- CutLearning
  WellFormed <- NotTooLong
INVARIANTS
  TypeOK
  MergedAnswersUnique
  LlmAnswerKept
  ReasonMeansNoLlm
  NoSilentFallback
PROPERTY
  MappingReturns
