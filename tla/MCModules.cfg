SPECIFICATION FairSpec
CONSTANTS
  Files <- MCFiles
  Disks <- MCDisks
  MaxLines = 2
  MaxDepth = 5
  FirstMax = 64
  PointerSize = 8
INVARIANTS  FailuresTravelUp InnermostHandles FirstUseIsSafe
PROPERTIES PromptReturns
