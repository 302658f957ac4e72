SPECIFICATION SharedSpec
CONSTANTS
  Parts = {"vault", "agent", "ledger", "gate", "catalog", "audit"}
  Att = {a1, a2, a3}
  Inodes = {i1, i2}
  Null = Null
  Runs = {n1, n2}
  Pids = {1}
  Stranger = Stranger
  MaxBirths = 3
  MaxMeddling = 1
  Projects = {p1, p2}
  Deployments = {d1, d2}
  p1 = p1
  p2 = p2
  d1 = d1
  d2 = d2
  Vmids = {v1, v2}
  Nobody = Nobody
  Outsider = Outsider
  Populations <- MCPopulations
  MaxOutsider = 1
  MaxAttempts = 1
  Requests = {r1, r2}
  Unheld = Unheld
  Helper = Helper
  MaxRestarts = 1
  Workers = {w1, w2}
  Readers = {q1}
  MaxEntries = 1
  Concurrency = 1
  MaxPending = 2
  MaxRemote = 1
  MaxToken = 2
  MaxRefreshes = 1
  Calls = {c1, c2}
  Routes = {"viewer_read", "operator_read", "operator_write", "admin_write"}
  AuditEnabled = TRUE
SYMMETRY MCSymmetry
INVARIANTS
  NoLeftover
  AgentsAreOwned
  LedgerHolds
  GateIsSafe
  CatalogIsFresh
  AuditCovers
PROPERTIES
  UserVaultKept
CHECK_DEADLOCK FALSE
