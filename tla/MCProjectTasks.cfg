\* Two concurrent requests of a manager and a member, one change of a role.
CONSTANTS
  None = None
  manager = manager  member = member  task = task  r1 = r1  r2 = r2
  Users = {manager, member}
  Tasks = {task}
  Requests = {r1, r2}
  InitRole <- ManagerAndMember
  InitMembers = {member}
  NewRoles <- RoleChanges
  Kinds <- AllKinds
  MaxRows = 1
  MaxComments = 1
  MaxChanges = 1
\* Nothing is left to do once the project is deleted.
CHECK_DEADLOCK FALSE
SYMMETRY SlotSymmetry
SPECIFICATION Spec
INVARIANTS
  ListsMatchAccess
  StrayRowsHaveCause
  WritesWereAllowed
