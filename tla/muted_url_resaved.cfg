SPECIFICATION MuteSpec
CONSTANTS
  Lexeme <- MCLexeme
  Pasted <- MCPasted
  Capital <- MCCapital
  Address <- MCAddress
  Invalid = Invalid
INVARIANT StoredTermsAreStable
