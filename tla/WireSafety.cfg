CONSTANTS
  Statuses = {0, 200, 204, 404}
  CookieLists <- AllLists
  Symbols <- AllSymbols
  Sizes = {0, 5}
  Lengths <- AllLengths
  MaxReplies = 2
  MaxPushes = 2
SPECIFICATION Spec
INVARIANTS
  TypeOK
  RepliesUnderstood
  FramesUnderstood
  LoneCookiesComeBack
  StreamInv
