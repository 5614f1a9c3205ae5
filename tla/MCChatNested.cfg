CONSTANTS
  Messages = {m1, m2, m3}
  Contents = {a}
  Calls = {c1}
  None = None
SPECIFICATION Spec
INVARIANT NoNestedThreads
