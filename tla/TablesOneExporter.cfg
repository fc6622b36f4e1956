SPECIFICATION Spec
CONSTANTS
    NoValue = NoValue
    OneExporter = TRUE
    Programs <- MCPrograms
PROPERTY
    DumpRestores
CHECK_DEADLOCK FALSE
