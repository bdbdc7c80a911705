CONSTANTS
  Char <- MCChar
  IsLower <- MCIsLower
  IsUpper = {"C"}
  IsDigit = {"one"}
  Utf8 <- MCUtf8
  ToLower <- MCToLower
  MinLen = 4
  MaxLen = 6
  SeqLen = 3
  RepLen = 5
  MaxPeriod = 2
  MinWord = 2
  Rows <- MCRows
  Common <- MCCommon
  NameParts <- MCNameParts
  Email <- MCEmail
  Prefix <- MCPrefix
SPECIFICATION Spec
INVARIANTS TypeOK SequenceCheckExact RepetitionCheckExact VerdictExact
PROPERTY WeakStaysWeak
