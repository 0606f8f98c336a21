CONSTANTS
  t1 = t1
  t2 = t2
  e1 = e1
  e2 = e2
  p1 = p1
  p2 = p2
  Threads = {t1, t2}
  Emails = {e1, e2}
  Passwords = {p1, p2}
  MaxId = 3
  MaxRequests = 3
SPECIFICATION Spec
SYMMETRY Symmetry
INVARIANT TypeOK
INVARIANT RegistrationCloses
INVARIANT RotatedOnce
INVARIANT NothingComesBack
INVARIANT AccountsAreSaved
INVARIANT SavedOwnersExist
