SPECIFICATION FSpec
CONSTANTS
  parse_source <- parse
  format_tree <- format_source
  Sources <- MCSources
  IntBits = 8
  kMaxDepth = 30
INVARIANTS Reparses ParsesAsWritten
