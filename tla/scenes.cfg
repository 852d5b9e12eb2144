SPECIFICATION Spec
CONSTANTS
    Config <- Configs
    Directory <- Directories
CHECK_DEADLOCK FALSE
INVARIANT StoryHoldsIffEnriched
INVARIANT PassedIsMerged
INVARIANT DriftIsReported
