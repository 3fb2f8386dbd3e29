SPECIFICATION MCFairSpec
CONSTANTS
    MaxLines = 2
    MaxSuggests = 2
INVARIANTS
    TypeOK PendingHasAnswerer AnswersInOrder
PROPERTIES
    SuggestionWaits ModesPartByEscape PendingEnds
