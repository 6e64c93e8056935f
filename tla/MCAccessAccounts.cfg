CONSTANTS
  u1 = u1
  u2 = u2
  c1 = c1
  c2 = c2
  c3 = c3
  w1 = w1
  w2 = w2
  u3 = u3
  c4 = c4
  k1 = k1
  k2 = k2
  h1 = h1
  h2 = h2
  User = {u1, u2, u3}
  NoUser = NoUser
  Credential = {c1, c2, c3, c4}
  NoCredential = NoCredential
  Key = {}
  Worker = {}
  NoWorker = NoWorker
  Nonce = {}
  Bearer = {}
  Handler = {h1, h2}
  MaxUses = 1
  Registered = {{}}
  Request = {"register", "login", "invitation", "end", "change password",
             "enable", "patch", "delete", "restart"}
  AdminsOverlap = TRUE

SPECIFICATION AccessSpec
SYMMETRY AccountSymmetry

INVARIANTS
  InvitationsSingleUse
  
