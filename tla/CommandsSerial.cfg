CONSTANTS
  Command = {arm, takeoff}
  MaxWork = 2
  Retries = 2
  AckResult = {"ACCEPTED", "DENIED", "IN_PROGRESS", "UNKNOWN"}
  Timer = {t1, t2}
  Serial = TRUE
SPECIFICATION FairSpec
INVARIANTS
  WaitingHasWork
  TimeoutMeansRetried
PROPERTIES
  ServiceSpec
  EveryCommandReported
