SPECIFICATION LSpec
CONSTANTS
  Texts <- MCTexts
  Alpha <- MCAlpha
  Digits <- MCDigits
  Keywords <- MCKeywords
  Fits <- MCFits
INVARIANTS LInv LongestMatch NothingLost Located
PROPERTY LexerReturns
