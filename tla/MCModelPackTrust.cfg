\* Two callers, one update under way, no install during a trust call.
CONSTANTS
  encoder = encoder
  tokenizer = tokenizer
  old = old
  new = new
  m1 = m1
  m2 = m2
  m3 = m3
  Callers = {c1, c2}
  Files = {encoder, tokenizer}
  Contents = {old, new}
  Missing = Missing
  Manifests = {m1, m2, m3}
  Declared <- MCDeclared
  Supported = {m1, m2}
  NoManifest = NoManifest
  NoTrust = NoTrust
  EmptyTrust = EmptyTrust
  GarbledTrust = GarbledTrust
  QuietInstall = TRUE
  MaxWrites = 2
SPECIFICATION Spec
SYMMETRY Symmetry
INVARIANTS
  TypeOK
  ArtifactIsTrue
  OkMeansMatched
  CalmCallsSucceed
  TrustAnswerIsCurrent
CHECK_DEADLOCK FALSE
