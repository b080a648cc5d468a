\* Two callers, three output tokens: the growth of the piece buffer.
CONSTANTS
  c1 = c1
  c2 = c2
  x = x
  y = y
  long = long
  half = half
  eog = eog
  Callers = {c1, c2}
  Prompts <- MCPrompts
  Tokens <- MCTokens
  Eog = {eog}
  StartToken = y
  HasEncoder = FALSE
  MaxOutput = 3
  Sampleable <- MCSampleable
  Readable <- MCReadable
  NoCaller = NoCaller
  Context = 4
  PieceLen <- MCPieceLen
  FirstPiece = 1
  MaxPiece = 128
SPECIFICATION Spec
SYMMETRY Symmetry
INVARIANTS
  OnlyLongPiecesRefused
