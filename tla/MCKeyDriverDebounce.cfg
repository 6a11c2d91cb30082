CONSTANTS Boot = 3  Debounce = 2  MaxJiffies = 5  MaxEdges = 1
SPECIFICATION Spec
PROPERTIES Debounced
CHECK_DEADLOCK FALSE
