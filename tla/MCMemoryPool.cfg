CONSTANTS
  mdRead = mdRead
  mdWrite = mdWrite
  Threads <- MCThreads
  NumElems = 3
  CounterMod = 4
  Nil = nil
  Free = free
  Client = client
SYMMETRY MCSymmetry
SPECIFICATION Spec
INVARIANTS TypeOK FreeStackExact AliveWhileHandedOut
PROPERTY NoDoubleHandOut
