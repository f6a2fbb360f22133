\* Two requests at a time on one account and on its successor.
SPECIFICATION Spec
SYMMETRY Symmetry
CONSTANTS
  Accounts = {a1, a2}
  Passwords = {p1, p2}
  Sessions = {s1, s2}
  Mails = {m1}
  Requests = {r1, r2}
  None = None
  MaxStale = 1
INVARIANTS
  TypeOK
  AccountsComplete
  TokensWorkOnce
  RefreshReplaces
PROPERTIES
  DeletionIsFinal
CHECK_DEADLOCK FALSE
