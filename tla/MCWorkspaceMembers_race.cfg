\* Two concurrent requests of every kind: an admin and somebody who may join.
CONSTANTS
  None = None
  ann = ann  bob = bob  r1 = r1  r2 = r2
  Users = {ann, bob}
  Requests = {r1, r2}
  InitRole <- OneAdmin
  InitAccounts = {ann}
  Asks <- RaceAsks
  MaxRows = 2
  MaxInvites = 2
SYMMETRY SlotSymmetry
SPECIFICATION Spec
INVARIANTS
  AdminLossHasCause
  InviteReuseHasCause
  NoInviteStranded
