CONSTANTS
  Messages = {m1, m2}
  Contents = {a, b}
  Calls = {c1, c2}
  None = None
SPECIFICATION Spec
SYMMETRY Symmetry
INVARIANTS
  Consistent
  SearchMatches
PROPERTIES
  DeletedStaysDeleted
  AttachmentsStay
