\* Two libraries in one process: the environment names one, a later configure
\* call the other.
CONSTANTS
  c1 = c1
  c2 = c2
  libA = libA
  libB = libB
  Clients = {c1, c2}
  Libs = {libA, libB}
  NoLib = NoLib
  NoClient = NoClient
  UsizeMax = 2
SPECIFICATION Spec
INVARIANTS
  InitFreeAlwaysBalanced
