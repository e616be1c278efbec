SPECIFICATION Spec
CONSTANTS
    Settings <- MCSettings
    Counters <- MCCounters
    OnFailure <- MCOnFailure
    Written = "auto_off"
    SettingsTicks = 2
    StaleTicks = 1
    MaxChanges = 1
    MaxTrouble = 0
    Default = Default
    None = None
INVARIANT BehindOnlyWithExcuse
