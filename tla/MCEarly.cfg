SPECIFICATION FairSpec
CONSTANTS
  Programs <- MCEarly
  MaxAsks = 3
INVARIANTS SameAsSource
PROPERTIES EscapesOnlyOutwards Terminates
