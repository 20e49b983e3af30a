SPECIFICATION Spec
CONSTANTS
  Kinds = {"strings", "objects", "userFunctions", "tillInfos", "functionTillInfos", "sourceLocations", "locals"}
  MaxEntries = 260
INVARIANTS IndexesKept
