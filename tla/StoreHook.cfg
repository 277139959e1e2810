SPECIFICATION Spec
CONSTANTS
    MaxPushes = 2
    NestedLimit = 3
PROPERTIES
    DocumentedRerender
CHECK_DEADLOCK FALSE
