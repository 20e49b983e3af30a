SPECIFICATION FairSpec
CONSTANTS
  Nonterminals <- MCNonterminals
  Builtin <- MCBuiltin
  MaxNodes = 256
  Variables = {"x"}
  Keywords = {"k", "m"}
  Cases <- MCCases
INVARIANTS FollowSetOfInnermost Structure Complete Sound
PROPERTIES Terminates
