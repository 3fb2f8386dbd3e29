SPECIFICATION MCSpec
CONSTANTS
    MaxLines = 2
    MaxSuggests = 0
INVARIANTS
    CancelledIsDiscarded
