SPECIFICATION SettingsSpec
CONSTANTS
    Definition <- MCTwoSettings
    MaxSettingActs = 5
INVARIANT ToldWhenUpdated
CHECK_DEADLOCK FALSE
