SPECIFICATION Spec
CONSTANTS
  Images = {good, bad}
  Genuine = {good}
  NoImage = NoImage
PROPERTIES
  VerifiedBeforeBoot
