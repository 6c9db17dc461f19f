CONSTANTS
  Threads <- Users
  DeviceBaud = 1536
  Models = {5}
  DeviceRates = {2}
  DeviceBeats = {FALSE}
  Ring = 2
  Batch = 2
  MaxNodes = 5
  MaxSamples = 6
  MaxFaults = 1
  MaxDropped = 2
  Prompt = TRUE
  Bauds <- Baudrates
  UserBaud = 1280
  IntensityBaud = 1536
  WantedRates = {0}
  WantBeat = TRUE
  NodeCount = 4
  MaxHz = 1
  MaxBad = 1
  MaxCalls = 1
SPECIFICATION FairSpec
INVARIANTS
  ScansOnceAndWhole
  OneScanThread
PROPERTIES
  RunEnds
  FirstScan
CHECK_DEADLOCK FALSE
