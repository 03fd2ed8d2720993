SPECIFICATION Spec
CONSTANTS
  Nonces = {n1, n2}
  Senders = {s1, s2}
  Commitments = {c1, c2}
  Payments = {p1}
  r1 = r1
  r2 = r2
  Routes = {r1, r2}
  Slots = {h1, h2}
  None = None
  TimeoutMs <- MCTimeoutMs
  MaxTime = 3
  HasPrepare = TRUE
  NextMayThrow = FALSE
  MaxThrows = 2
SYMMETRY Symmetry
INVARIANTS TypeOK ExclusiveClaim NonceServedOnce CommitmentHasSender
  NoLateRestore
PROPERTY BindingsStick
