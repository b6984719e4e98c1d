CONSTANTS
  MaxBytes <- MCMaxBytes
  MaxChars <- MCMaxChars
SPECIFICATION Spec
INVARIANTS
  DecodeInvertsEncode
