CONSTANTS
    Tasks = {t1, t2}
    t1 = t1
    t2 = t2
    ImportKinds = {"oauth", "agent"}
    Settings = {TRUE, FALSE}
    MaxTokens = 3
SPECIFICATION Spec
SYMMETRY Symmetry
INVARIANTS
    TypeOK
    LatestLoginKept
    DeletedStaysDeleted
    RefreshTokenUsedOnce
    SettingKept
PROPERTIES
    RenewedOnlyIfNeeded
    RejectedNotReused
    OnlyFailedDisabled
    RevivedByLoginOnly
