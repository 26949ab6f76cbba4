\* Two streams opened one after the other.
CONSTANT MaxStreams = 2
SPECIFICATION FairSpec
INVARIANTS NoFreeUnderRead RecordingIffCapturing TerminateNeedsBreak DeliversAsRecorded
PROPERTIES StopReturns
CHECK_DEADLOCK FALSE
