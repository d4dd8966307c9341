SPECIFICATION Spec
CONSTANTS
  Stream = {s1, s2}
  Nobody = Nobody
  Capturer = Capturer
INVARIANTS TypeOK ShowsWhole EnrolsWhole CameraIsLeft
PROPERTIES CallEnds PreviewShows
