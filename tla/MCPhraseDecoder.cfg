CONSTANTS
  Alphabet <- MCAlphabet
  NumWords = 15
  WordAt <- MCWordAt
  ValueError = ValueError
  OverflowError = OverflowError
  Whitespace = {" ", "\n"}
  TokenPool <- MCTokenPool
  MaxTokens = 3
  Forms = {"list", "str", "str_padded"}

SPECIFICATION Spec

INVARIANT TypeOK
INVARIANT DecodeRoundTrip
