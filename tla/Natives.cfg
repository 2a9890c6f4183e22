SPECIFICATION NSpec
CONSTANTS
  Bits = 6
  LenBits = 3
  kCap = 8
  kIndentCap = 5
  RangeMax = 16
  Nil = Nil
  Questions <- MCQuestions
INVARIANTS IntegersExact TextLaws ArrayLaws
CHECK_DEADLOCK FALSE
