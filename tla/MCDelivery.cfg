\* Three rows for the budget: the search takes up to two steps, the trimming up to
\* three, in each of the two applications; sizes from nothing to twice the budget.
CONSTANTS
    Total = 3
    MaxTokens = 5
    Costs = {0, 1, 3, 4, 5, 6, 7, 9}
    Report = 1
    Omission = 1
    Surplus = 1
    Notice = 1
    Names = {i1, i2, i3}
    Fourth = i4
    Clients = {c1, c2}
    Stored <- StoreLimits
    ReadOn <- ReadingLimits
    Paged <- PagedLimits
    Looked <- HostLimits
SPECIFICATION MCSpec
SYMMETRY Interchangeable
INVARIANTS KeepsTheMost MetIsHonest MissedCapKeepsRows StoresKeepTheirLimits HeldOrExplained ReadsInOrder AdviceIsRecent
PROPERTIES AnswersTruthfully LeavesInOrder
\* The function has returned, or a bound of another part is reached.
CHECK_DEADLOCK FALSE
