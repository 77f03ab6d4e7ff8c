\* Two sentences, cut by the server or not: the countdown after the answer.
SPECIFICATION Spec
CONSTANTS
    MaxSentences = 2
    MaxUtterances = 1
    MaxBargeIns = 0
    Capacity = 1
PROPERTY WindowOpens
CHECK_DEADLOCK FALSE
