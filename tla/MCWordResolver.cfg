CONSTANTS
  Alphabet <- MCAlphabet
  NumWords = 15
  WordAt <- MCWordAt
  Tokens <- MCTokens
  ValueError = ValueError

SPECIFICATION Spec

INVARIANT TypeOK
INVARIANT ResolveCorrect
