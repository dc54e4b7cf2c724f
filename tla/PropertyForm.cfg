SPECIFICATION Spec
CONSTANTS
    Editors = {e1}
    Texts = {FR, BE}
    Blank = Blank
    NoData = NoData
    BlankForm = FR
    MaxSaves = 2
    RetryLimit = 1
INVARIANTS
    TypeOK
    GoneToldTruly
PROPERTIES
    SavesOnlyEdits
    OwnSaveShown
CHECK_DEADLOCK FALSE
