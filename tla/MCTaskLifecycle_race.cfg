\* Two concurrent requests, five events, one change of role, membership or project.
CONSTANTS
  None = None
  manager = manager  client = client
  task = task  r1 = r1  r2 = r2
  Users = {manager, client}
  Tasks = {task}
  Requests = {r1, r2}
  Bodies <- HandoffBodies
  Assignee <- OneTaskUnassigned
  InitRole <- ManagerAndClient
  InitMembers <- ClientIsMember
  NewRoles <- DemoteOrRemove
  MaxEvents = 5
  MaxChanges = 1
SYMMETRY SlotSymmetry
SPECIFICATION Spec
INVARIANTS
  TypeOK
  HistoryExplainsStatus
  AnswersMatchHistory
  HandoffHasRecipients
  AnnouncementsMatchHistory
  HandoffsAreMailed
PROPERTY
  LogIsAppendOnly
