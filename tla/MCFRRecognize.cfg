CONSTANTS
  real = real
  fake = fake
  none = none
  noframe = noframe
  Feature = {real, fake}
  NoFeature = none
  Frame <- MCFrame
  NoFrame = noframe
  Limit = 30
  Tick = 10
SPECIFICATION Spec
INVARIANTS
  TypeOK
  OneVerdict
  ReportPassedGate
PROPERTIES
  EndsOnceDecided
  RefinesRecognizer
CHECK_DEADLOCK FALSE
