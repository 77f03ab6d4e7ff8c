\* The main thread speaks, the other acknowledges or builds; two calls, one cancellation.
SPECIFICATION Spec
CONSTANTS
    Threads = {main, worker}
    Nobody = nobody
    Main = main
    main = main
    worker = worker
    Duties <- MCDuties
    Multilinguals = {"none", "gemini", "edge_tts"}
    MaxCalls = 2
    MaxCancels = 1
PROPERTY NoReplyIsLost
CHECK_DEADLOCK FALSE
