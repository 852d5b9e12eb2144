SPECIFICATION Spec
CONSTANTS
    Config <- Configs
    Login <- Logins
    Directory <- Entries
CHECK_DEADLOCK FALSE
INVARIANT SoundConfigNeverRaises
INVARIANT PenaltyIsForUnmapped
INVARIANT ConflictNotMoreConfident
INVARIANT DetailsExplainValue
INVARIANT EnrichmentTakesNothing
