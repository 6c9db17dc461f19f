SPECIFICATION FairSpec
CONSTANTS
    Missions <- MCMissions
    MaxUploads = 2
    MaxSize = 2
    MaxRequests = 2
    LateRequests = 1
    LateLost = 0
    MaxRetries = 0
    MaxLost = 2
    Ack = {"ACCEPTED", "NO_SPACE"}
    Timer = {t1, t2}
    Definition <- MCDefinition
    MaxSettingActs = 3
    Sensors = {"gyro"}
    RateValues = {1, 2}
    MaxReports = 2
    MaxChanges = 1
    MaxEnables = 2
INVARIANTS
    FinishedMeansReached
    TransfersTidy
    ToldIsCurrent
    TelemetryServed
PROPERTIES
    RoundTrip
    UploadStored
    TransferEnds
CHECK_DEADLOCK FALSE
