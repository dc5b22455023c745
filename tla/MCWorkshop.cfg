SPECIFICATION MCSpec
CONSTANTS
  Adders       <- MCAdders
  Source       <- MCSource
  Commands     = {"git"}
  Printed      <- MCPrinted
  Args         <- MCArgs
  Rules        <- MCRules
  Expectations <- MCExpectations
  Readers      <- MCReaders
  Suites       <- MCSuites
  MaxClock     = 1
  MaxFiles     = 2
  MaxDepth     = 3
CONSTRAINT GoOn
INVARIANTS RegisteredLoads RedactsInPlace GreenIsEarned EvalAgrees
CHECK_DEADLOCK FALSE
