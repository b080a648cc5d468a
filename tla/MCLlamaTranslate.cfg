\* A decoder-only model: two fair callers, three output tokens in a window of four.
CONSTANTS
  c1 = c1
  c2 = c2
  x = x
  y = y
  long = long
  half = half
  eog = eog
  Callers = {c1, c2}
  Prompts <- MCPrompts
  Tokens <- MCTokens
  Eog = {eog}
  StartToken = y
  HasEncoder = FALSE
  MaxOutput = 3
  Sampleable <- MCSampleable
  Readable <- MCReadable
  NoCaller = NoCaller
  Context = 4
  PieceLen <- MCPieceLen
  FirstPiece = 1
  MaxPiece = 128
SPECIFICATION FairSpec
INVARIANTS
  TypeOK
  SampledFromOwnInput
  WindowIsEnough
PROPERTIES
  ImplementsSerial
  EveryRequestAnswered
