SPECIFICATION Spec
CONSTANTS
  Nonterminals <- MCNonterminals
  Builtin <- MCBuiltin
  MaxNodes = 256
  Variables = {"x"}
  Keywords = {"k", "m"}
  Cases <- NoRulesOnly
INVARIANTS OperandsKept
