SPECIFICATION MCSpec
CONSTANTS
    Input <- MCInput
    Continuation = {"char>"}
    ContextLines = 1
    MaxKeys = 4
    MaxPrints = 2
INVARIANTS
    LineIsShown   AltScreenIsTracked ContextIsOutput
