CONSTANTS
  Spellings <- AllSpellings
  Messages <- AllMessages
  MaxMsgs = 2
  Window = 1
  BufferLength = 8
SPECIFICATION FairSpec
INVARIANTS
  TypeOK
  HalfDuplex
  AnswersInOrder
  ParsedOneByOne
  OnlyBadValuesEscape
  OnlyHandshakesOpen
  SpelledInv
PROPERTY MessagesAreAnswered
