SPECIFICATION Spec
CONSTANTS
    Config <- Configs
    Login <- Logins
    Directory <- Entries
CHECK_DEADLOCK FALSE
INVARIANT NeverRaises
