\* Two requests up to the client handoff, which may be refused for want of
\* clients; every failure may happen at every step.
CONSTANTS
  None = None
  manager = manager  client = client
  task = task  r1 = r1  r2 = r2
  Users = {manager, client}
  Tasks = {task}
  Requests = {r1, r2}
  Bodies <- HandoffBodies
  Assignee <- OneTaskUnassigned
  InitRole <- ManagerAndClient
  InitMembers <- ClientIsMember
  NewRoles <- DemoteOrRemove
  MaxEvents = 3
  MaxChanges = 0
SPECIFICATION FairSpec
PROPERTY
  EveryRequestAnswered
