CONSTANTS Legs = 2 Cancels = 2
SPECIFICATION Spec
INVARIANTS EndsStopped CompletedKeepsField CancelExcludesSubmission
PROPERTIES NoStartAfterStop LeftUnstopped CancelEnds
