CONSTANTS Top = 2 DrivenMax = 1 Calls = 2 Presses = 0 Troubles = 1
SPECIFICATION Spec
INVARIANT SweepsWarm
CHECK_DEADLOCK FALSE
