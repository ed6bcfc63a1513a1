SPECIFICATION MCSpec
CONSTANTS
  c1 = c1
  n1 = n1
  n2 = n2
  k1 = k1
  p1 = p1
  Names = {n1, n2, k1}
  Keys = {k1, k2}
  Passwords = {p1, p2, NoPassword}
  NoPassword = NoPassword
  Crypto = "user"
  Absent = Absent
  Callers = {c1, c2}
  Ops = {"insert", "recover", "import", "delete", "show", "export", "send"}
  Persisted = TRUE
  MaxCalls = 4
INVARIANTS
  KeyKeptAndRead
  PanicOnlyIfNamedLikeAddress
  OneKeyUnlessRekeyed
PROPERTIES
  DeleteVerifiesPassword
CHECK_DEADLOCK FALSE
