CONSTANTS
  alice = alice
  bob = bob
  nobody = nobody
  f1 = f1
  f2 = f2
  f3 = f3
  none = none
  MaxFaces = 3
  User = {alice, bob}
  NoName = nobody
  Face = {f1, f2, f3}
  NoFeature = none
  Feature <- MCFeature
  Cosine <- MCCosine
  Queries <- MCQueries
SPECIFICATION Spec
INVARIANTS
  TypeOK
  
  PrefixBest
PROPERTY RefinesOracle
CHECK_DEADLOCK FALSE
