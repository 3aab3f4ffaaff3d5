SPECIFICATION FairSpec
CONSTANTS
  x = x
  y = y
  z = z
  nx = nx
  nz = nz
  NumFields = 3
  NameFields <- NameFirst
  SinglePassThreshold = 4
  Texts <- ThreeTexts
  None = None
  Norms <- ThreeNorms
  NoNorm = NoNorm
  Norm <- NormOf
  ForField <- CutLearning
  WellFormed <- NotTooLong
INVARIANT
  UniqueAnswers
