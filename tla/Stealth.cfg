SPECIFICATION FlightFairSpec
CONSTANTS
    Client = {"action", "offboard", "mission"}
    MaxLink = 3
    Last = 3
    Second = 2
    Setpoints = 2
INVARIANTS RtlAfterMission
PROPERTY FlightEnds
CHECK_DEADLOCK FALSE
