SPECIFICATION Spec
CONSTANTS
  Services = {media, nginx}
  media = media
  nginx = nginx
  Cap = 2
  Backstop = 4
  MaxTime = 1
  MaxLogs = 6
INVARIANTS
  TypeOK
  CapsAreExact
  ShapeIsKept
  SignalsSurviveBelowBackstop
