SPECIFICATION MCSpec
CONSTANTS
    Command <- MCCommand
    High <- MCHigh
    Echo <- MCEcho
    ReturnCode = {0, 1, 2}
    MaxIterations = 3
    NoCommand = "no command"
INVARIANTS
    ProbesAreNew BestIsShown BuiltinsRunNothing
PROPERTIES
    RunEnds
