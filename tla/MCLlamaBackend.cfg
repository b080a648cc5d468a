\* Three callers and two libraries: every interleaving of loads, failed loads,
\* drops and configure calls, with any environment; a running call is fair.
CONSTANTS
  c1 = c1
  c2 = c2
  c3 = c3
  libA = libA
  libB = libB
  Clients = {c1, c2, c3}
  Libs = {libA, libB}
  NoLib = NoLib
  NoClient = NoClient
  UsizeMax = 3
SPECIFICATION FairSpec
INVARIANTS
  TypeOK
  BackendMatchesLeases
  DropOrderKept
  NothingLeaks
PROPERTIES
  AcknowledgedPathIsUsed
  UnmappedOnlyWhenDown
  EveryCallReturns
