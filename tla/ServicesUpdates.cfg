SPECIFICATION FairSpec
CONSTANTS
    Main = "main"
    ImageLen = 3
    LongVersions = {}
    SettingType <- MCSettingType
    CloudSettings <- MCCloudSettings
    Ids = {1, 2}
    ReuseIds = FALSE
    ManifestFirst = TRUE
    SettingsFirst = TRUE
    MaxVersion = 2
    MaxFaults = 1
INVARIANTS
    TypeOK
    BlocksOfComponent
    ImageIsWhole
    NoNeedlessDownload
    ReportedSettingsApplied
PROPERTY UpdateInstalled
