CONSTANTS
  Keys <- MCKeys
  Values = {v1, v2}
  NULL = NULL
  MinSize = 1
  ClearSizes <- MCClearSizes
SPECIFICATION FairSpec
INVARIANTS ListsSound KeysFindable CountExact NoNodeLost ResizeInBounds
PROPERTIES ResizeEnds ImplementsMap
