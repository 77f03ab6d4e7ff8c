\* Two sentences, one utterance of the user, one that cuts in.
SPECIFICATION Spec
CONSTANTS
    MaxSentences = 2
    MaxUtterances = 1
    MaxBargeIns = 1
    Capacity = 1
INVARIANT PendingIsBacked
PROPERTY HeardInOrder
CHECK_DEADLOCK FALSE
