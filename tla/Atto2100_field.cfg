SPECIFICATION ArmedSpec
CONSTANT MaxCalls = 3
CONSTANT Ops <- FieldOps
INVARIANTS FieldOwned StopHolds
CHECK_DEADLOCK FALSE
