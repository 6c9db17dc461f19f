CONSTANTS
  Command = {arm, takeoff}
  MaxWork = 2
  Retries = 1
  AckResult = {"ACCEPTED", "DENIED", "IN_PROGRESS", "UNKNOWN"}
  Timer = {t1, t2}
  Serial = FALSE
SPECIFICATION Spec
SYMMETRY Symmetry
INVARIANTS
  CookieNamesTheTimer
  NoLostTimeout
  OnlyInversionStops
CHECK_DEADLOCK FALSE
