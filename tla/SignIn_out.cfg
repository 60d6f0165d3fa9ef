\* Sessions and calls are cut off at their bounds: no deadlock check.
SPECIFICATION SignInSpec
CONSTANTS
    MaxSessions = 2
    MaxPresses = 4
    NoSession = NoSession
INVARIANT NothingSurvivesSignOut
CHECK_DEADLOCK FALSE
