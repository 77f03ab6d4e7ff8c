\* The end of a conversation while the playback queue is full.
SPECIFICATION Spec
CONSTANTS
    MaxSentences = 2
    MaxUtterances = 1
    MaxBargeIns = 0
    Capacity = 1
PROPERTY ReturnsToWakeWord
CHECK_DEADLOCK FALSE
