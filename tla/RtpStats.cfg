\* Every interleaving of the poller, the signaling thread and the destruction.
CONSTANTS
    MaxBytes = 2
    MaxReports = 2
SPECIFICATION FairSpec
INVARIANTS HandleOwnsPoller TerminateNeedsOverlap
PROPERTIES StallNoticed DestructionHangsOnlyInPc
CHECK_DEADLOCK FALSE
