SPECIFICATION FairSpec
CONSTANTS
  Owner = {o1, o2}
  MaxAddr = 2
  MaxAdds = 3
INVARIANTS
  IteratorValid
  RunOrRemoved
PROPERTIES
  ThreadServes
