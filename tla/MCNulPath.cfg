SPECIFICATION Spec
CONSTANTS
  Commands   = {"git"}
  Outputs    <- OwnQuotes
  Natives    <- MCNatives
  Contracts  <- MCContracts
  Requests   <- MCRequests
  Patterns   <- OnePattern
  Token      <- MCToken
  Escapes    <- MCEscapes
  Bytes      <- MCBytes
  Alphabet   <- MCAlphabet
  MaxItems   = 2
  CompactAt  = 1
  NoRawAt    = 2
  CaptureCap = 5
  MaxRuns    = 2
CONSTRAINT GoOn
INVARIANT RowsAreTrue
CHECK_DEADLOCK FALSE
