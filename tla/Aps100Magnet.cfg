CONSTANTS Top = 2 DrivenMax = 1 Calls = 3 Presses = 1 Troubles = 1
SPECIFICATION Spec
INVARIANTS LeadsMoveIsolated OneLateSweep
PROPERTIES HeaterMatched FinishedAsAsked PauseSettles
CHECK_DEADLOCK FALSE
