---------------------------- MODULE ProjectTasks ----------------------------
(***************************************************************************)
(* One project of a workspace: its members, its tasks with their assignees *)
(* and comments, and who may see and change them                           *)
(* (apps/api/src/tasks/tasks.service.ts, tasks/comments, projects/,        *)
(* common/project-access.ts, task-access.ts, task-scope.ts).  A request is *)
(* a sequence of reads and one write; only a comment and its notifications *)
(* are a transaction.  Statuses and due dates have modules of their own.   *)
(***************************************************************************)
EXTENDS TaskTransition, FiniteSets

CONSTANTS
  None, Users, Tasks, Requests,
  InitRole,     \* [Users -> Roles \cup {None}]
  InitMembers,  \* users in the project at the start
  NewRoles,     \* roles the workspace may give to a user, None removes
  Kinds,        \* the kinds of requests made
  MaxRows,      \* bound: rows of project_members created later on
  MaxComments,  \* bound: comments
  MaxChanges    \* bound: changes of roles

AllKinds == {"createTask", "updateTask", "comment", "addMember", "removeMember",
             "updateProject", "deleteProject"}

ASSUME ProjectConstantsOK ==
  /\ InitRole \in [Users -> Roles \cup {None}]
  /\ InitMembers \subseteq {u \in Users : InitRole[u] # None}
  /\ NewRoles \subseteq Roles \cup {None}
  /\ Kinds \subseteq AllKinds
  /\ MaxRows \in Nat /\ MaxComments \in Nat /\ MaxChanges \in Nat
  /\ None \notin Users \cup Roles \cup Nat \cup {"nobody"} /\ "nobody" \notin Users

VARIABLES
  role,      \* workspace_members
  project,   \* the row of projects is there
  members,   \* project_members: the id of the row of each user, or None
  tasks,     \* by id: who is assigned, "nobody" or, before and after, None
  comments,  \* rows of comments
  notices,   \* notifications of comments
  pc, req,
  lastRow, lastComment, changes,
  strayed,   \* history: tasks whose assignee left, or was leaving when assigned
  behind     \* history: users whose project row outlived their workspace's

tables  == <<role, project, members, tasks, comments, notices>>
bounds  == <<lastRow, lastComment, changes>>
history == <<strayed, behind>>
vars    == <<tables, pc, req, bounds, history>>

Assignees   == Users \cup {"nobody"}
CommentRows == [id : Nat, task : Tasks, author : Users]
\* An edit may leave the assignee alone: then its target is None.
Asks == [kind : Kinds, by : Users, task : Tasks \cup {None},
         target : Assignees \cup {None}]

\* `row` and `assignee` are what the request has read; `overtaken`: what it was
\* allowed to do has changed since it began.
RequestRecs == [ask : Asks, row : Nat \cup {None},
                assignee : Assignees \cup {None}, overtaken : BOOLEAN]

ASSUME NoneIsNoRequest == None \notin RequestRecs

Init ==
  /\ role = InitRole /\ project = TRUE
  /\ members = [u \in Users |-> IF u \in InitMembers THEN 0 ELSE None]
  /\ tasks = [t \in Tasks |-> None] /\ comments = {} /\ notices = {}
  /\ pc = [r \in Requests |-> "idle"] /\ req = [r \in Requests |-> None]
  /\ lastRow = 0 /\ lastComment = 0 /\ changes = 0
  /\ strayed = {} /\ behind = {}

-----------------------------------------------------------------------------
Ask(r)   == req[r].ask
Active   == {"access", "project", "target", "assignee", "inProject", "write"}
InFlight == {r \in Requests : pc[r] \in Active}

\* assertProjectAccess: clients and members need a row in the project.
HasProjectAccess(u) ==
  /\ role[u] # None
  /\ role[u] \in {"CLIENT_VIEW", "MEMBER"} => members[u] # None

\* assertRoleCanAccessTask, for a task with this assignee.
CanAccessTask(u, assignee) ==
  HasProjectAccess(u) /\ (role[u] = "MEMBER" => assignee = u)

\* Mutant: the list of a member is the list of the project.
ListWhereProject(u) == {t \in Tasks : tasks[t] # None}

\* buildTaskListWhere, of the tasks there are.
ListWhere(u) ==
  {t \in Tasks : tasks[t] # None /\ (role[u] = "MEMBER" => tasks[t] = u)}

\* What the lists of tasks and of projects show to a user.
ListedTasks(u) == IF HasProjectAccess(u) THEN ListWhere(u) ELSE {}
ProjectListed(u) ==
  project /\ (role[u] \in AGENCY_ROLES \/ (role[u] # None /\ members[u] # None))

MayBeAssigned(u) == role[u] \notin {None, "CLIENT_VIEW"} /\ members[u] # None

\* Requests in flight that rest on a permission, a membership or an assignee
\* that changes now.
Overtake(rs) ==
  req' = [r \in Requests |-> IF r \in rs THEN [req[r] EXCEPT !.overtaken = TRUE]
                             ELSE req[r]]

About(u) == {r \in InFlight : Ask(r).by = u \/ Ask(r).target = u}
On(t)    == {r \in InFlight : Ask(r).task = t}

Goto(r, there) ==
  /\ pc' = [pc EXCEPT ![r] = there]
  /\ req' = IF there = "idle" THEN [req EXCEPT ![r] = None] ELSE req
  /\ UNCHANGED <<tables, bounds, history>>

\* A read that lets the request go on, or answers it with a refusal.
Check(r, here, passes, there) ==
  /\ pc[r] = here
  /\ Goto(r, IF passes THEN there ELSE "idle")

\* The request ends with its write; others may be overtaken by it.
Finish(r, overtaken) ==
  /\ pc' = [pc EXCEPT ![r] = "idle"]
  /\ req' = [q \in Requests |-> IF q = r THEN None
               ELSE IF q \in overtaken THEN [req[q] EXCEPT !.overtaken = TRUE]
               ELSE req[q]]

-----------------------------------------------------------------------------
\* A creation looks at the project before the role that decides, the others after it.
First(kind) == IF kind = "createTask" THEN "project" ELSE "access"

\* Bound: every request in flight finds an id for its row.
HasRoom(kind) ==
  LET Same == {r \in InFlight : Ask(r).kind = kind} IN
  /\ kind = "addMember" => lastRow + Cardinality(Same) < MaxRows
  /\ kind = "comment" => lastComment + Cardinality(Same) < MaxComments

\* The request arrives, and the task with its project, or the project, is
\* loaded; it is refused if there is none.
Receive(r) ==
  /\ pc[r] = "idle" /\ project
  /\ \E ask \in Asks :
       /\ HasRoom(ask.kind)
       /\ IF ask.kind \in {"updateTask", "comment"}
          THEN ask.task # None /\ tasks[ask.task] # None
          ELSE ask.task = None
       /\ ask.target = None => ask.kind = "updateTask"
       /\ ask.kind \in {"addMember", "removeMember"} => ask.target \in Users
       /\ ask.kind \in {"comment", "updateProject", "deleteProject"} =>
            ask.target = "nobody"
       /\ req' = [req EXCEPT ![r] =
            [ask |-> ask, row |-> None, overtaken |-> FALSE,
             assignee |-> IF ask.task = None THEN None ELSE tasks[ask.task]]]
       /\ pc' = [pc EXCEPT ![r] = First(ask.kind)]
  /\ UNCHANGED <<tables, bounds, history>>

\* Who may do what: anybody who may open the task may comment on it, everything
\* else is the agency's.
Permitted(ask, assignee) ==
  IF ask.kind = "comment" THEN CanAccessTask(ask.by, assignee)
  ELSE role[ask.by] \in AGENCY_ROLES

\* An assignee who is named is checked.
ToWrite(ask) == IF ask.target \in {"nobody", None} THEN "write" ELSE "assignee"

AfterAccess(ask) ==
  CASE ask.kind \in {"addMember", "removeMember"}      -> "target"
    [] ask.kind \in {"updateTask", "comment"}          -> "project"
    [] ask.kind = "createTask"                         -> ToWrite(ask)
    [] ask.kind \in {"updateProject", "deleteProject"} -> "write"

AfterProject(ask) == IF ask.kind = "createTask" THEN "access" ELSE ToWrite(ask)

\* Mutant: project access is enough.
CheckAccessOnly(r) ==
  Check(r, "access", HasProjectAccess(Ask(r).by),
        AfterAccess(Ask(r)))

\* Role and membership are read, and the role again for the agency; the last
\* read decides.
CheckAccess(r) ==
  Check(r, "access", Permitted(Ask(r), req[r].assignee),
        AfterAccess(Ask(r)))

\* assertProjectExists.
CheckProject(r) == Check(r, "project", project, AfterProject(Ask(r)))

\* assertAssigneeInProject, in two reads.
CheckAssignee(r) ==
  Check(r, "assignee", role[Ask(r).target] \notin {None, "CLIENT_VIEW"}, "inProject")

\* Mutant: a member of the workspace will do.
CheckInWorkspace(r) == Check(r, "inProject", role[Ask(r).target] # None, "write")

CheckInProject(r) == Check(r, "inProject", members[Ask(r).target] # None, "write")

\* Who is to be added must be in the workspace; who is to be removed, in the
\* project.
FindTarget(r) ==
  /\ pc[r] = "target"
  /\ IF Ask(r).kind = "addMember"
     THEN Check(r, "target", role[Ask(r).target] # None, "write")
     ELSE IF members[Ask(r).target] = None THEN Goto(r, "idle")
     ELSE /\ pc' = [pc EXCEPT ![r] = "write"]
          /\ req' = [req EXCEPT ![r].row = members[Ask(r).target]]
          /\ UNCHANGED <<tables, bounds, history>>

-----------------------------------------------------------------------------
Writes(r, kind) == pc[r] = "write" /\ Ask(r).kind = kind

\* The assignee was checked before, and may have gone since.
Assign(r, t) ==
  /\ tasks' = [tasks EXCEPT ![t] = Ask(r).target]
  /\ strayed' = IF Ask(r).target # "nobody" /\ ~MayBeAssigned(Ask(r).target)
                   /\ req[r].overtaken
                THEN strayed \cup {t} ELSE strayed \ {t}

CreateTask(r) ==
  /\ Writes(r, "createTask") /\ project
  /\ \E t \in {x \in Tasks : tasks[x] = None} : Assign(r, t)
  /\ Finish(r, {})
  /\ UNCHANGED <<role, project, members, comments, notices, bounds, behind>>

UpdateTask(r) ==
  /\ Writes(r, "updateTask") /\ tasks[Ask(r).task] # None
  /\ IF Ask(r).target = None THEN UNCHANGED <<tasks, strayed>> /\ Finish(r, {})
     ELSE Assign(r, Ask(r).task) /\ Finish(r, On(Ask(r).task))
  /\ UNCHANGED <<role, project, members, comments, notices, bounds, behind>>

\* notifyWorkspaceMembers: everybody in the workspace but the actor.
Recipients(u) == {v \in Users : role[v] # None} \ {u}

\* A transaction: the comment and a notification to each reader.
WriteComment(r) ==
  /\ Writes(r, "comment") /\ tasks[Ask(r).task] # None
  /\ lastComment' = lastComment + 1
  /\ comments' = comments \cup
       {[id |-> lastComment', task |-> Ask(r).task, author |-> Ask(r).by]}
  /\ notices' = notices \cup {<<lastComment', u>> : u \in Recipients(Ask(r).by)}
  /\ Finish(r, {})
  /\ UNCHANGED <<role, project, members, tasks, lastRow, changes, history>>

\* The unique key refuses a second row; a row needs its project.
AddMember(r) ==
  /\ Writes(r, "addMember") /\ project /\ members[Ask(r).target] = None
  /\ lastRow' = lastRow + 1
  /\ members' = [members EXCEPT ![Ask(r).target] = lastRow']
  /\ behind' = IF role[Ask(r).target] = None /\ req[r].overtaken
               THEN behind \cup {Ask(r).target} ELSE behind
  /\ Finish(r, {})
  /\ UNCHANGED <<role, project, tasks, comments, notices, lastComment, changes,
                 strayed>>

AssignedTo(u) == {t \in Tasks : tasks[t] = u}

\* By the id of the row that was found: a row added since is another one.
RemoveMember(r) ==
  LET u == Ask(r).target IN
  /\ Writes(r, "removeMember") /\ members[u] = req[r].row
  /\ members' = [members EXCEPT ![u] = None]
  /\ strayed' = strayed \cup AssignedTo(u)
  /\ behind' = behind \ {u}
  /\ Finish(r, About(u))
  /\ UNCHANGED <<role, project, tasks, comments, notices, bounds>>

\* Name, description and status of the project: no task depends on them.
UpdateProject(r) ==
  /\ Writes(r, "updateProject") /\ project
  /\ Finish(r, {})
  /\ UNCHANGED <<tables, bounds, history>>

\* With everything that has a foreign key on it; notifications have none.
DeleteProject(r) ==
  /\ Writes(r, "deleteProject") /\ project
  /\ project' = FALSE
  /\ members' = [u \in Users |-> None]
  /\ tasks' = [t \in Tasks |-> None] /\ comments' = {}
  /\ strayed' = {} /\ behind' = {}
  /\ Finish(r, InFlight)
  /\ UNCHANGED <<role, notices, bounds>>

Write(r) ==
  \/ CreateTask(r) \/ UpdateTask(r) \/ WriteComment(r) \/ AddMember(r)
  \/ RemoveMember(r) \/ UpdateProject(r) \/ DeleteProject(r)

\* The database or the process fails, a row to write is gone or there already.
Fail(r) == pc[r] \in Active /\ Goto(r, "idle")

\* The workspace changes a role, removes a member, or takes one in again; rows
\* of projects and tasks stay as they are.
SetRole(u) ==
  /\ changes < MaxChanges /\ changes' = changes + 1
  /\ \E new \in NewRoles : role[u] # new /\ role' = [role EXCEPT ![u] = new]
  /\ strayed' = IF role'[u] \in {None, "CLIENT_VIEW"}
                THEN strayed \cup AssignedTo(u) ELSE strayed
  /\ behind' = IF role'[u] = None /\ members[u] # None THEN behind \cup {u} ELSE behind
  /\ Overtake(About(u))
  /\ UNCHANGED <<project, members, tasks, comments, notices, pc, lastRow, lastComment>>

Step(r) ==
  \/ Receive(r) \/ CheckAccess(r) \/ CheckProject(r) \/ CheckAssignee(r)
  \/ CheckInProject(r) \/ FindTarget(r) \/ Write(r) \/ Fail(r)

Next == (\E r \in Requests : Step(r)) \/ (\E u \in Users : SetRole(u))

Spec == Init /\ [][Next]_vars

-----------------------------------------------------------------------------
RequestsOK ==
  /\ pc \in [Requests -> Active \cup {"idle"}]
  /\ req \in [Requests -> RequestRecs \cup {None}]
  /\ \A r \in Requests : req[r] = None <=> pc[r] = "idle"

TypeOK ==
  /\ RequestsOK
  /\ role \in [Users -> Roles \cup {None}] /\ project \in BOOLEAN
  /\ members \in [Users -> Nat \cup {None}]
  /\ tasks \in [Tasks -> Assignees \cup {None}]
  /\ comments \subseteq CommentRows /\ notices \subseteq Nat \X Users
  /\ lastRow \in Nat /\ lastComment \in Nat /\ changes \in Nat
  /\ strayed \subseteq Tasks /\ behind \subseteq Users
  /\ project \/ (comments = {} /\ \A t \in Tasks : tasks[t] = None)
  /\ project \/ \A u \in Users : members[u] = None

\* The rule who sees a task is written twice, as a WHERE clause and as a check,
\* and so is the rule who sees a project: lists show exactly what can be opened.
ListsMatchAccess ==
  \A u \in Users :
    /\ \A t \in Tasks : tasks[t] # None =>
         (t \in ListedTasks(u) <=> CanAccessTask(u, tasks[t]))
    /\ project => (ProjectListed(u) <=> HasProjectAccess(u))

\* A task whose assignee could not be assigned to it now, and a project row of
\* somebody who is not in the workspace, come only from a removal or demotion,
\* after the row was written or while the request that wrote it was past its
\* checks.  (Nobody cleans up after a removal.)
StrayRowsHaveCause ==
  /\ \A t \in Tasks : tasks[t] \in Users /\ ~MayBeAssigned(tasks[t]) => t \in strayed
  /\ \A u \in Users : members[u] # None /\ role[u] = None => u \in behind

\* Whoever is about to write may do so now, or could when the request began:
\* a role, a membership or an assignment was lost while it was in flight.
WritesWereAllowed ==
  \A r \in Requests : pc[r] = "write" =>
    \/ req[r].overtaken
    \/ LET t == Ask(r).task IN
       Permitted(Ask(r), IF t # None /\ tasks[t] # None THEN tasks[t] ELSE req[r].assignee)
=============================================================================
