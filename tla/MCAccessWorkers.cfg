CONSTANTS
  u1 = u1
  u2 = u2
  c1 = c1
  c2 = c2
  c3 = c3
  w1 = w1
  w2 = w2
  c4 = c4
  k1 = k1
  k2 = k2
  u3 = u3
  h1 = h1
  h2 = h2
  User = {u1, u2}
  NoUser = NoUser
  Credential = {c1, c2}
  NoCredential = NoCredential
  Key = {k1, k2}
  Worker = {w1, w2}
  NoWorker = NoWorker
  Nonce = {n1}
  Bearer = {b1}
  Handler = {h1, h2}
  MaxUses = 1
  Registered = {{u1}, {u2}}
  Request = {"create user", "registration", "register worker", "delete worker",
             "authenticate", "claim", "enable", "patch", "delete", "restart"}
  AdminsOverlap = FALSE

SPECIFICATION AccessSpec
SYMMETRY WorkerSymmetry

INVARIANTS
  OneWorkerPerKey
  DisabledWorkersGetNothing
