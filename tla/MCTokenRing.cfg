SPECIFICATION Spec
CONSTANTS
  Names = {"x"}
  Marks = {","}
  EndOfInput = "eoi"
  Text <- MCText
  MaxScans = 20
INVARIANTS HoldsTheLast
PROPERTIES ExpiresLate ImplementsStream
