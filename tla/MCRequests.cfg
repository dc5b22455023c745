SPECIFICATION MCSpec
CONSTANTS
  GlobalFiles  <- MCGlobal
  ProjectFiles <- MCProject
  Environments <- MCEnv
  Admissions   <- MCAdmissions
  Commands   = {"git"}
  Outputs    <- MCOutputs
  Natives    <- MCNatives
  Contracts  <- MCContracts
  Requests   <- MCRequests
  Patterns   <- OnePattern
  Token      <- MCToken
  Escapes    <- MCEscapes
  Bytes      <- MCBytes
  Alphabet   <- MCAlphabet
  MaxItems   = 2
  CompactAt  = 1
  NoRawAt    = 2
  CaptureCap = 5
  MaxRuns    = 2
CONSTRAINT MCGoOn
INVARIANTS UntrustedOnlyNarrows PathsStayInside ExecutesWhatWasChecked HonestEmptiness RowsAreTrue CauseIsKept EvidenceIsExact HonestComparison
\* One request is answered and nothing follows.
CHECK_DEADLOCK FALSE
