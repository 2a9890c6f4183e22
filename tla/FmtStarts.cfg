SPECIFICATION FSpec
CONSTANTS
  parse_source <- parse
  format_tree <- format_source
  Sources <- MCStarts
  IntBits = 8
  kMaxDepth = 30
INVARIANT AlwaysReparses
