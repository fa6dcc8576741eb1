SPECIFICATION Spec
CONSTANTS
  FirstLine <- FirstLines
  RequestLines <- RequestFields
  Body <- Bodies
  StatusLine <- StatusLines
  ResponseLines <- ResponseFields
  LowerCase <- ToLower
  TrimName <- Unblanked
  Escape <- EscapeTable
  Stol <- Ages
  Date <- Dates
  Now = 7
  LongBits = 14
  MaxLength = 0
INVARIANT NamesAgree
