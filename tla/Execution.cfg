SPECIFICATION Spec
CONSTANTS
    Main = 2
    Post = 1
    Inner = 1
    Retries = 1
    MaxExecs = 2
    MaxFaults <- MCFaults
    Workflows <- MCWorkflows
    Process <- MCProcess
INVARIANTS
    InvokedOnce
    HistoryIsTrue
    SuccessIsEarned
