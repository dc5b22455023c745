\* Three requests for two slots: two children run side by side, the third waits.
\* What descendants, and an id that is handed out again, do to a call is the subject
\* of MCChildProcess.cfg.
CONSTANTS
    Runs = {r1, r2, r3}
    Limit = 2
    Pids = {p1, p2, p3}
    Reuse = FALSE
    Streams = {}
    MaxBuffer = 1
    PipeCapacity = 1
    TimeLimited = TRUE
    Platforms = {"posix"}
    Descendants = {}
    Plain = {}
    Immunities = {FALSE}
SPECIFICATION Spec
INVARIANTS BoundedChildren ShutdownSweeps
PROPERTIES RequestsFinish
CHECK_DEADLOCK FALSE
