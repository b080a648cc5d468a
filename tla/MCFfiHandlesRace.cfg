\* A wrapper is closed while another thread is in a call on it.
CONSTANTS
  j1 = j1
  j2 = j2
  c1 = c1
  b1 = b1
  b2 = b2
  greedy = greedy
  sampled = sampled
  JavaThreads = {j1, j2}
  CThreads = {c1}
  Wrappers = {w1, w2}
  Boxes = {b1, b2}
  Packs = {greedy, sampled}
  Requests <- MCRequests
  Lengths = {1, 2}
  Length <- MCLength
  Sampled = {sampled}
  CloseRaces = TRUE
  Null = Null
SPECIFICATION Spec
INVARIANTS
  LiveWhileUsed
