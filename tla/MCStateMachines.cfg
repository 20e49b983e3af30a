SPECIFICATION FairSpec
CONSTANTS
  MaxLoop = 4
  MaxSort = 7
  MaxAssigns = 2
  Keys = {1, 2, 3}
  Half = 4
  ByteValues = 4
INVARIANTS ResultAgrees GoesThroughAll SortedStably SortKeeps
PROPERTIES RemovedNotVisited Ends
