\* One request at a time, logs long enough for a second round with the client.
CONSTANTS
  None = None
  manager = manager  client = client
  task = task  r1 = r1  r2 = r2
  Users = {manager, client}
  Tasks = {task}
  Requests = {r1}
  Bodies <- RoundBodies
  Assignee <- OneTaskUnassigned
  InitRole <- ManagerAndClient
  InitMembers <- ClientIsMember
  NewRoles <- Demote
  MaxEvents = 10
  MaxChanges = 1
SPECIFICATION Spec
INVARIANT
  ConsentRecordsMatchHistory
PROPERTY
  ApprovalIsBilateral
