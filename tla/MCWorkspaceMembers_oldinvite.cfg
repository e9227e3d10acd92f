\* One request at a time, with an invite left over from before.
CONSTANTS
  None = None
  ann = ann  bob = bob  r1 = r1  r2 = r2
  Users = {ann, bob}
  Requests = {r1}
  InitRole <- OneAdmin
  InitAccounts = {ann}
  Asks <- Everything
  MaxRows = 3
  MaxInvites = 2
SPECIFICATION Spec
INVARIANT
  AlwaysAnAdmin
