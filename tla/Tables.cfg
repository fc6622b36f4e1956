SPECIFICATION Spec
CONSTANTS
    NoValue = NoValue
    OneExporter = FALSE
    Programs <- MCPrograms
INVARIANTS
    TypeOK
    NoEmptyOptional
    OwnSettingShown
    Aligned
    NothingLost
    StylesStayInCells
    HangsOnlyIfNarrow
    E2NodesShown
PROPERTY
    DumpRestores
CHECK_DEADLOCK FALSE
