CONSTANTS
  Name = {a, b}
  User = {u1, u2}
  MaxWork <- MCMaxWork
  Timer = {t1, t2}
  Patient = FALSE
SPECIFICATION FairSpec
INVARIANTS
  BusyIsUnderWay
PROPERTIES
  Services
  EveryRequestAnswered
