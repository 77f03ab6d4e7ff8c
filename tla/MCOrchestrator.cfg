\* One task, every kind of tool, plans of up to two steps.
SPECIFICATION FairSpec
CONSTANTS
    Tasks = {t1}
    Actions = {"green", "orange", "critical", "red", "unknown", "absent", "shutdown"}
    Registered = {"green", "orange", "critical", "red", "unknown", "shutdown"}
    Known = {"green", "orange", "critical", "red", "absent", "shutdown"}
    Critical = {"critical", "red"}
    HasVerifier = {"green", "red"}
    Relabelable = {"orange"}
    Shutdown = "shutdown"
    FastActions = {"green", "shutdown"}
    ConfirmTiers = {"YELLOW", "ORANGE"}
    AutoTiers = {"GREEN", "YELLOW"}
    MaxSteps = 5
    MaxAttempts = 2
    MaxPlan = 2
    MaxThreads = 1
    Tier <- MCTier
INVARIANTS
    ConsentBeforeEffect
    WaitsForCurrentStep
    NoFalseCompletion
    
PROPERTIES
    FinishedIsFinal
    CallsReturn
CHECK_DEADLOCK FALSE
