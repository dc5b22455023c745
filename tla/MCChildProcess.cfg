\* A call with both pipes, one unit at a time against a buffer of one, and with
\* descendants of every kind, and a plain one that can only be given the same id,
\* before it or after it, on each platform.
CONSTANTS
    Runs = {r1, r2}
    Pids = {p1}
    Reuse = TRUE
    Streams = {"out", "err"}
    MaxBuffer = 1
    PipeCapacity = 1
    TimeLimited = TRUE
    Platforms = {"posix", "win32"}
    Descendants = {"piped", "silent", "outsider"}
    Plain = {r2}
    Immunities = {TRUE, FALSE}
SPECIFICATION Spec
INVARIANTS SuccessIsComplete KilledRunLeavesNoGroup
PROPERTIES OnlyTheUnsettledKill EventuallySettles
\* A settled run whose processes are gone has nothing left to do.
CHECK_DEADLOCK FALSE
