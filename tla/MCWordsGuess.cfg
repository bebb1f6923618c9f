CONSTANTS
  Alphabet <- MCAlphabet
  NumWords = 2048
  WordAt <- MCWordAt
  NumPhrases = 12
  PhraseAt <- MCPhraseAt
  Digest0 <- MCDigest0
  Whitespace = {16}
  ValueError = ValueError
  OverflowError = OverflowError
  IndexError = IndexError

SPECIFICATION Spec

INVARIANT TypeOK
PROPERTY GuessRefinesSpec
