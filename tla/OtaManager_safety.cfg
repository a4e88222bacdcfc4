SPECIFICATION FairSpec
CONSTANTS
  Images = {good, bad}
  Genuine = {good}
  NoImage = NoImage
INVARIANTS
  TypeOK
  OneWriter
  FailureStaysInDlm
  CompleteIsFull
  HandoffBootsApp
PROPERTIES
  UpdateEnds
  RefinesSafeUpdate
