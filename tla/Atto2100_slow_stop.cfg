SPECIFICATION PairsSpec
CONSTANT MaxCalls = 1
CONSTANT Ops <- AllOps
INVARIANT CompletedStopSucceeds
CHECK_DEADLOCK FALSE
