\* Every part on its own: two processes, three callers, two proposals.
SPECIFICATION Spec
CONSTANTS
    Absent = absent
    Pids = {p1, p2}
    Commands <- FastWords
    Tags = {"happy", "laugh", "angry"}
    Production = {"happy"}
    Limited = {"laugh"}
    Disabled = {"angry", "sigh"}
    Spoken <- SpokenWords
    QueueSize = 2
    SpeechToStart = 1
    SilenceToEnd = 1
    MaxBuffer = 2
    Tasks = {"t1", "t2"}
    Destructive = {"t2"}
    Files = {"i1"}
    Main = "main"
    Loop = "loop"
    Prober = "prober"
    Configured = {"fast", "reasoning", "vision", "stt"}
    Cloud = {"reasoning"}
    Entries = {"a", "b", "f"}
    FamilyOf <- Family
    FileBased = {"f"}
    Memories = {"fact", "pref", "told", "done"}
    KindOf <- Kind
    AuthorityOf <- Authority
    CostOf <- Tokens
    Matching = {"fact", "told", "done"}
    Budget = 4
    Versions = {"v1", "v2", "v3"}
    Trusted = {"v1", "v2"}
    Proposals = {u1, u2}
    Controls = {"on", "turn", "mail"}
    WindowOf <- Owner
    NameOf <- Name
    RoleOf <- Role
    IdOf <- Id
    PartsOf <- Part
    Incidental = {"On"}
    Allowlisted = {"notepad"}
    Chars = 2
    Callers = {c1, c2, c3}
    Pages = {"news", "shop", "local"}
    Results = {"news"}
    Unsafe = {"local"}
    Sensitive = {"shop"}
    Repos = {"r1"}
    MaxStarts = 3
    MaxWords = 3
    MaxTags = 1
    Window = 2
    MaxTokens = 3
    MaxChunks = 4
    MaxTurns = 2
    MaxVersion = 2
    MaxBackups = 1
    MaxCheckpoints = 2
    MaxCrashes = 1
    MaxNetChanges = 1
    MaxForced = 2
    MaxRounds = 2
    MaxRequests = 1
    MaxModelChanges = 1
    MaxEntryChanges = 3
    MaxProvisions = 4
    MaxConsents = 2
    MaxLosses = 1
    MaxOps = 5
    MaxPluginCalls = 7
    MaxCommits = 1
    MaxTidied = 1
    MaxEdits = 3
    MaxVersions = 2
    MaxRuns = 1
    MaxScreenChanges = 1
    MaxActions = 2
    MaxBrowserCalls = 4
    MaxSandboxCalls = 2

SYMMETRY Symmetry
INVARIANTS
    OneInstance
    ClosesOnCommand
    NoStaleResult
    FinalIsWhole
    NothingForgotten
    ListedIsComplete
    FailsClosed
    AnsweredIfAny
    EnsuredRoleIsServed
    ConsentIsKept
    IndexIsComplete
    ActiveWasTested
    PassedWasTested
    KnownVersion
    ActsOnTheNamed
    ReportsAreTrue
PROPERTIES
    ReadsItsPage
    Settles
CHECK_DEADLOCK FALSE
