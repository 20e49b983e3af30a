SPECIFICATION Spec
CONSTANTS
  Programs <- MCPrograms
  MaxAsks = 3
INVARIANTS StackFits SameAsSource
