SPECIFICATION Spec
CONSTANTS
  a = a  b = b  p = p  blank = blank
  Piece = {a, b, p, blank}
  Blank = blank
  UserId = {1, 2}
  FaceId = {1, 2}
  Gui = {g1, g2}
  Earlier <- MCEarlier
  Names <- MCNames
  Passwords <- MCPasswords
  Remarks <- MCRemarks
  Recognizer = {dim}
  MaxCalls = 2
  Nobody = Nobody
  Nothing = Nothing
INVARIANTS TypeOK StoreInv AnswerTells
PROPERTIES RefinesDirectory RemoteIsLocal CallReturns
