\* The programs that set the same members on different layers.
SPECIFICATION Spec
CONSTANTS
    NoValue = NoValue
    OneExporter = FALSE
    Programs <- SetterPrograms
PROPERTY
    SetterReaches
CHECK_DEADLOCK FALSE
