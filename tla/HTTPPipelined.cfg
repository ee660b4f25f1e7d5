CONSTANTS
  Spellings <- AllSpellings
  Messages <- Requests
  MaxMsgs = 2
  Window = 2
  BufferLength = 8
SPECIFICATION Spec
INVARIANT ParsedOneByOne
