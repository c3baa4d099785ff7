SPECIFICATION Spec
CONSTANT MaxRetries = 1
INVARIANTS PaintingSafe
PROPERTIES WaitsEnd ChangesReachScreen
CHECK_DEADLOCK FALSE
