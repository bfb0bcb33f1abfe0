SPECIFICATION ArmedFairSpec
CONSTANT MaxCalls = 2
CONSTANT Ops <- LiveOps
PROPERTIES RequestsDrain TimedOutStartStops CallersAnswered
CHECK_DEADLOCK FALSE
