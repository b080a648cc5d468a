SPECIFICATION Spec
CONSTANTS
  a = a
  b = b
  None = None
  NonFinite = NonFinite
  Absent = Absent
  TokenId = {0, 1, 2, 3, 4, 5, 6}
  USIZE_MAX = 15
  U32_MAX = 1000000
  I32_MAX = 100000
  Callers = {a, b}
  ManifestPath <- mcManifestPath
  ModelPath <- mcModelPath
  Content <- mcContent
  DigestOf <- mcDigestOf
  RawManifests <- mcRawManifests
  GenerationFiles <- mcGenerationFiles
  IoFiles <- mcIoFiles
  LlamaFiles <- mcLlamaFiles
  TokenizerFiles <- mcTokenizerFiles
  Graphs <- mcGraphs
  Dylibs <- mcDylibs
  DylibFiles <- mcDylibFiles
  Installs <- mcInstalls
  Scenarios <- mcScenarios
  RawGenerations <- mcRawGenerations
  Outputs <- mcOutputs
  JavaStrings <- mcJavaStrings
  ByteStrings <- mcByteStrings
  ManifestNames <- mcManifestNames
  Directories <- mcDirectories
INVARIANTS
  TypeOK
  OpenedIsWhole
  NothingLeaks
  DoctorAgrees
  StatusNamesCause
  EarlyOverrideUsed
  ConfigAcceptedIffUsable
  ManifestWriterAgrees
  NextTokenIsFirstMaximum
  TextSurvives
PROPERTY
  EveryCommandReturns
