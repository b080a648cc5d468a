\* Two fair callers, six requests, three new tokens.
CONSTANTS
  c1 = c1
  c2 = c2
  stops = stops
  full = full
  silent = silent
  broken = broken
  none = none
  huge = huge
  Callers = {c1, c2}
  Prompts = {stops, full, silent, broken, none, huge}
  NoPrompt = NoPrompt
  Tokens <- MCTokens
  Source <- MCSource
  Seed <- MCSeed
  Best <- MCBest
  Readable <- MCReadable
  NoToken = NoToken
  Eos = 0
  MaxNewTokens = 3
  MaxTokens = 3
  Nobody = Nobody
SPECIFICATION FairSpec
INVARIANTS
  TypeOK
  OwnStateDecoded
  SameRequestSameAnswer
  PoisonedSessionUnused
PROPERTIES
  ImplementsSerial
  EveryRequestAnswered
