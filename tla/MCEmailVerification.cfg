CONSTANTS
  r1 = r1
  r2 = r2
  c1 = c1
  c2 = c2
  Emails = {e1}
  Codes = {c1, c2}
  NoCode = NoCode
  Requests = {r1, r2}
  MaxDaily = 2
SPECIFICATION VerificationSpec
SYMMETRY Symmetry
INVARIANTS
  LimitUnlessOverlap
  MailedCodeWorks
PROPERTIES
  ImplementsProof
