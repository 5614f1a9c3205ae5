CONSTANTS
  c1 = c1
  c2 = c2
  p1 = p1
  p2 = p2
  n1 = n1
  n2 = n2
  Emails = {e}
  Passwords = {p1, p2}
  Names = {n1, n2}
  Calls = {c1, c2}
  None = None
SPECIFICATION Spec
INVARIANT PasswordSticks
