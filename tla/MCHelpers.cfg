\* A startup of the worker that outlasts a call, pauses of one, two and three
\* ticks, and calls that outlast the first pause; two requests to the regular
\* expression engine, both in flight when it fails or one after it; two parses by
\* a sandboxed pack, one abandoned with the other queued behind it.
CONSTANTS
    TimeLimit = 2
    StartupLimit = 3
    Cooldown = 1
    CooldownMax = 3
    Ids = 2
    MaxFailures = 2
    MaxGhosts = 1
    Calls = {c1, c2}
    MaxCalls = 2
SPECIFICATION MCSpec
INVARIANTS OneRequestInFlight NoLostWakeUp HoldsTheLoop FallbackExplained AnswersItsOwnCall LeavesOnlyTheLate
PROPERTIES BlamesTheCurrent ExchangesEnd EverySettles ParseReturns
\* The parses are bounded and a contract may be refused: the end is no deadlock.
CHECK_DEADLOCK FALSE
