SPECIFICATION Spec
CONSTANTS
  ann = ann  bob = bob
  Person = {ann, bob}
  NoOne = NoOne
  Typed = {bob}
  Tiles = {NoOne, ann}
  MaxWorkers = 2
  MaxQueue = 1
  MaxReports = 1
INVARIANTS TypeOK PasswordOfAsked SubmitsOwnPassword TileKeepsItsUser
  ReadyIsAnnounced
PROPERTIES FaceOpensOnce 
