SPECIFICATION FairSpec
CONSTANTS
    Settings <- MCSettings
    Counters <- MCCounters
    OnFailure <- MCOnFailure
    Written = "auto_off"
    SettingsTicks = 1
    StaleTicks = 2
    MaxChanges = 0
    MaxTrouble = 1
    Default = Default
    None = None
PROPERTY GoesUnavailable
