SPECIFICATION Spec
CONSTANTS
  Nonterminals <- MCNonterminals
  Builtin <- MCBuiltin
  MaxNodes = 256
  Rules <- MCRules
  SymbolNumber <- MCSymbolNumber
  MaxScopes = 2
  MaxRules = 3
  MaxAsks = 3
INVARIANTS RulesKept CountsCover CachesOnlyLag
PROPERTIES OuterTablesKept
