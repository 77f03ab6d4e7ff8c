SPECIFICATION Spec
CONSTANTS
    MaxTurns = 1
    MaxCalls = 1
    Texts <- MCTexts
    Size <- MCSize
    MinSentence = 8
    Utterances = {"goal", "named", "quick", "stop", "control"}
    AgentForm = "task"
    MaxWait = 1
    SilenceToEnd = 1
    MaxTurn = 2
PROPERTIES
    TurnEnds
    ShutdownEnds
CHECK_DEADLOCK FALSE
