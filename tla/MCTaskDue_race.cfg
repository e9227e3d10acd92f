\* Two concurrent requests.
CONSTANTS
  None = None
  ann = ann  r1 = r1  r2 = r2  d1 = d1  d2 = d2
  Users = {ann}
  Requests = {r1, r2}
  Dates = {d1, d2}
  InitAgency = {ann}
  MaxRows = 3
  MaxChanges = 1
SYMMETRY SlotSymmetry
SPECIFICATION Spec
INVARIANTS
  LastCommitWins
  HistoryTrueUnlessOverlapped
