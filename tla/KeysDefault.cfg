SPECIFICATION Spec
CONSTANTS
  Names = {n1}
  Keys = {k1, k2}
  Passwords = {p1}
  NoPassword = NoPassword
  Crypto = "AES"
  Absent = Absent
  Callers = {c1}
  Ops = {"insert", "recover", "import", "delete", "show", "export", "send"}
  Persisted = FALSE
  MaxCalls = 2
INVARIANTS
  ReadReturnsWritten
CHECK_DEADLOCK FALSE
