\* Two callers; an update may overlap a trust call.
CONSTANTS
  encoder = encoder
  tokenizer = tokenizer
  old = old
  new = new
  m1 = m1
  m2 = m2
  m3 = m3
  Callers = {c1, c2}
  Files = {encoder, tokenizer}
  Contents = {old, new}
  Missing = Missing
  Manifests = {m1, m2, m3}
  Declared <- MCDeclared
  Supported = {m1, m2}
  NoManifest = NoManifest
  NoTrust = NoTrust
  EmptyTrust = EmptyTrust
  GarbledTrust = GarbledTrust
  QuietInstall = FALSE
  MaxWrites = 2
SPECIFICATION Spec
SYMMETRY Symmetry
INVARIANTS
  ArtifactIsTrue
CHECK_DEADLOCK FALSE
