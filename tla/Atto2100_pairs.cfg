SPECIFICATION PairsSpec
CONSTANT MaxCalls = 2
CONSTANT Ops <- AllOps
INVARIANTS NothingForgotten PreparationExclusive RampExclusive DisplayFreshOnceApplied
PROPERTIES HandedOverUncancelled ImplementsCustody
CHECK_DEADLOCK FALSE
