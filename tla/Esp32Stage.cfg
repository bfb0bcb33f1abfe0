CONSTANTS Posts = 1 Stops = 1 Connects = 1 Faults = 1 Cap = 2 Prompt = TRUE
SPECIFICATION Spec
INVARIANTS NoMotionBehindTrust ZeroIsNew
PROPERTIES CompletionReal StopStops Answered
CHECK_DEADLOCK FALSE
