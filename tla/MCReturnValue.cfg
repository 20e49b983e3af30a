SPECIFICATION Spec
CONSTANTS
  Programs <- ReturnsOfAValue
  MaxAsks = 3
INVARIANTS SameAsSource
