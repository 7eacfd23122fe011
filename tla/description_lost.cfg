SPECIFICATION Spec
CONSTANTS
    Tasks = {t1}
    Issues = {i1}
    None = None
    MaxFaults = 0
PROPERTIES
    DescriptionKept
CHECK_DEADLOCK FALSE
