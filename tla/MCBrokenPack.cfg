SPECIFICATION MCSpec
CONSTANTS
  Adders       <- MCAdders
  Source       <- MCSource
  Commands     = {"git"}
  Printed      <- MCPrinted
  Args         <- MCArgs
  Rules        <- MCRules
  Expectations <- MCExpectations
  Readers      <- MCReaders
  Suites       <- MCSuites
  MaxClock     = 1
  MaxFiles     = 2
  MaxDepth     = 3
CONSTRAINT GoOn
INVARIANT BrokenPackFails
CHECK_DEADLOCK FALSE
