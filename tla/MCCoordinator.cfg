SPECIFICATION FairSpec
CONSTANTS
    Settings <- MCSettings
    Counters <- MCCounters
    OnFailure <- MCOnFailure
    Written = "auto_off"
    SettingsTicks = 2
    StaleTicks = 1
    MaxChanges = 1
    MaxTrouble = 1
    Default = Default
    None = None
INVARIANTS TypeOK BehindOnlyIfOvertaken
PROPERTIES SettingsSettle AbsenceNoticed
