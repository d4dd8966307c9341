CONSTANTS
  alice = alice
  garbled = garbled
  nobody = nobody
  fa = fa
  fx = fx
  none = none
  User = {alice, garbled}
  Users = {alice}
  NoName = nobody
  Garbled = garbled
  Face = {fa, fx}
  NoFeature = none
  Feature <- MCFeature
  Cosine <- MCCosine
  Faces <- MCFaces
  Configured = 0
  Proc = {p1, p2}
  NoProc = NoProc
  MaxRequests = 2
SPECIFICATION Spec
INVARIANTS
  TypeOK
  
  SuccessIsMatched
  
CHECK_DEADLOCK FALSE
