\* Two tasks of one orchestrator, served by two threads at once.
SPECIFICATION FairSpec
CONSTANTS
    Tasks = {t1, t2}
    Actions = {"green", "orange", "shutdown"}
    Registered = {"green", "orange", "shutdown"}
    Known = {"green", "orange", "shutdown"}
    Critical = {}
    HasVerifier = {"orange"}
    Relabelable = {"orange"}
    Shutdown = "shutdown"
    FastActions = {"orange", "shutdown"}
    ConfirmTiers = {"YELLOW", "ORANGE"}
    AutoTiers = {"GREEN", "YELLOW"}
    MaxSteps = 2
    MaxAttempts = 1
    MaxPlan = 1
    MaxThreads = 2
    Tier <- MCTier
INVARIANTS
    IInv
    OutcomeIsOwn
CHECK_DEADLOCK FALSE
