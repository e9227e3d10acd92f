------------------------------ MODULE TaskDue -------------------------------
(***************************************************************************)
(* PATCH /tasks/:id/due as concurrent requests                             *)
(* (apps/api/src/tasks/tasks.service.ts `updateDue`) on one task.  Unlike  *)
(* a status change this is no compare-and-set: the due date read when the  *)
(* task was loaded decides whether anything changes and is logged as the   *)
(* old value.  The transaction inserts the history row first, which locks  *)
(* the task row only against deletion, and updates the task after it.      *)
(***************************************************************************)
EXTENDS Naturals, FiniteSets

CONSTANTS
  Users, Requests, None,
  Dates,        \* due dates a caller may ask for
  InitAgency,   \* admins and managers at the start
  MaxRows,      \* bound: history rows inserted, those rolled back included
  MaxChanges    \* bound: role changes and the project's deletion

ASSUME DueConstantsOK ==
  /\ InitAgency \subseteq Users
  /\ MaxRows \in Nat /\ MaxChanges \in Nat
  /\ None \notin Dates \cup Requests

VARIABLES
  exists,     \* the project, and with it the task
  agency,     \* users whose workspace role is ADMIN or MANAGER
  dueAt,      \* tasks.due_at, None for null
  dueChanges, \* task_due_changes, committed rows
  rowLock,    \* the request whose transaction has updated the task row
  pc, req,
  clock,      \* source of created_at: one tick per inserted row
  commits,    \* history: rows committed so far
  changes

vars == <<exists, agency, dueAt, dueChanges, rowLock, pc, req, clock, commits, changes>>

\* Undefined: the body has no dueAt.  None: the body clears the due date.
Undefined == "undefined"
Bodies == [dueAt : Dates \cup {None, Undefined}, reason : BOOLEAN]

InTx    == {"update", "commit"}
Active  == {"loaded", "project", "decide", "view", "insert"} \cup InTx
Refused == {"forbidden", "badrequest", "notfound"}
Answers == Refused \cup {"ok", "error"}

\* History: `prev` is the due date the row replaced, `at` its place in the order of
\* commits, `seen` how many had been committed when its request loaded the task, and
\* `alone` says that no other request was in a transaction since.
DueRow == [old : Dates \cup {None}, new : Dates \cup {None}, createdAt : Nat,
           prev : Dates \cup {None}, at : Nat, seen : Nat, alone : BOOLEAN]

RequestRecs == [user : Users, body : Bodies, old : Dates \cup {None},
                new : Dates \cup {None}, createdAt : Nat, seen : Nat,
                alone : BOOLEAN]

Init ==
  /\ exists = TRUE /\ agency = InitAgency
  /\ dueAt = None /\ dueChanges = {}
  /\ rowLock = None
  /\ pc = [r \in Requests |-> "idle"]
  /\ req = [r \in Requests |-> None]
  /\ clock = 0 /\ commits = 0 /\ changes = 0

-----------------------------------------------------------------------------
Goto(r, place) == pc' = [pc EXCEPT ![r] = place]

ReadStep(r, here, there) ==
  /\ pc[r] = here
  /\ Goto(r, there)
  /\ UNCHANGED <<exists, agency, dueAt, dueChanges, rowLock, clock, commits, changes>>

\* Requests that may still insert a row.
Pending == {r \in Requests : pc[r] \in Active \ (InTx \cup {"view"})}

\* loadTask: the due date is read here, once.
Receive(r, u, body) ==
  /\ clock + Cardinality(Pending) < MaxRows \/ body.dueAt = Undefined
  /\ ReadStep(r, "idle", IF exists THEN "loaded" ELSE "notfound")
  /\ req' = [req EXCEPT ![r] =
       [user |-> u, body |-> body, old |-> dueAt, new |-> None, createdAt |-> 0,
        seen |-> commits, alone |-> \A q \in Requests : pc[q] \notin InTx]]

\* Every other request is no longer alone.
Disturb(r, f) ==
  [q \in Requests |-> IF q = r THEN f[r]
                      ELSE IF pc[q] \in Active THEN [f[q] EXCEPT !.alone = FALSE]
                      ELSE f[q]]

\* assertTaskAccess and assertAgencyRole; only the second lets nobody else pass.
CheckRole(r) ==
  /\ ReadStep(r, "loaded", IF req[r].user \in agency THEN "project" ELSE "forbidden")
  /\ UNCHANGED req

CheckProject(r) ==
  /\ ReadStep(r, "project", IF exists THEN "decide" ELSE "notfound")
  /\ UNCHANGED req

\* Nothing to do, the value the task was loaded with, or a change to log.
Decide(r) ==
  LET wanted == req[r].body.dueAt
      change == wanted # Undefined /\ wanted # req[r].old
  IN
  /\ ReadStep(r, "decide",
       IF wanted = Undefined /\ ~req[r].body.reason THEN "badrequest"
       ELSE IF change THEN "insert" ELSE "view")
  /\ req' = [req EXCEPT ![r].new = IF wanted = Undefined THEN req[r].old ELSE wanted]

\* getTaskView
View(r) ==
  /\ ReadStep(r, "view", IF exists THEN "ok" ELSE "error")
  /\ UNCHANGED req

\* taskDueChange.create: the row gets its created_at now, and is seen later.
Insert(r) ==
  /\ pc[r] = "insert"
  /\ IF exists
     THEN /\ clock' = clock + 1
          /\ req' = Disturb(r, [req EXCEPT ![r].createdAt = clock + 1])
          /\ Goto(r, "update")
     ELSE Goto(r, "error") /\ UNCHANGED <<clock, req>>
  /\ UNCHANGED <<exists, agency, dueAt, dueChanges, rowLock, commits, changes>>

\* Mutant of Update: the task is written through the plain connection, so the
\* new due date shows before, and whether or not, the row is committed.
UpdateOutsideTx(r) ==
  /\ pc[r] = "update" /\ rowLock = None
  /\ rowLock' = r
  /\ dueAt' = req[r].new
  /\ Goto(r, "commit")
  /\ UNCHANGED <<exists, agency, dueChanges, req, clock, commits, changes>>

\* tx.task.update waits for the row lock, then writes whatever it finds there.
Update(r) ==
  /\ pc[r] = "update" /\ rowLock = None
  /\ rowLock' = r
  /\ Goto(r, "commit")
  /\ UNCHANGED <<exists, agency, dueAt, dueChanges, req, clock, commits, changes>>

\* Mutant of OldValue: the new due date is logged on both sides.
OldValueNew(r) == req[r].new

OldValue(r) == req[r].old

Commit(r) ==
  /\ pc[r] = "commit"
  /\ dueAt' = req[r].new
  /\ dueChanges' = dueChanges \cup
       {[old |-> OldValue(r), new |-> req[r].new,
         createdAt |-> req[r].createdAt, prev |-> dueAt, at |-> commits + 1,
         seen |-> req[r].seen, alone |-> req[r].alone]}
  /\ commits' = commits + 1
  /\ rowLock' = None
  /\ Goto(r, "ok")
  /\ UNCHANGED <<exists, agency, req, clock, changes>>

\* A database error, the transaction's time limit or a crash.
Fail(r) ==
  /\ pc[r] \in Active
  /\ rowLock' = IF rowLock = r THEN None ELSE rowLock
  /\ Goto(r, "error")
  /\ UNCHANGED <<exists, agency, dueAt, dueChanges, req, clock, commits, changes>>

Return(r) ==
  /\ pc[r] \in Answers
  /\ Goto(r, "idle")
  /\ req' = [req EXCEPT ![r] = None]
  /\ UNCHANGED <<exists, agency, dueAt, dueChanges, rowLock, clock, commits, changes>>

Change == changes < MaxChanges /\ changes' = changes + 1

\* WorkspaceMembersService.updateRole and remove
SetAgency(u) ==
  /\ Change
  /\ agency' = IF u \in agency THEN agency \ {u} ELSE agency \cup {u}
  /\ UNCHANGED <<exists, dueAt, dueChanges, rowLock, pc, req, clock, commits>>

\* ProjectsService.delete waits for every transaction at the task row.
DeleteProject ==
  /\ Change /\ exists
  /\ \A r \in Requests : pc[r] \notin InTx
  /\ exists' = FALSE /\ dueChanges' = {} /\ dueAt' = None
  /\ UNCHANGED <<agency, rowLock, pc, req, clock, commits>>

Step(r) ==
  \/ CheckRole(r) \/ CheckProject(r) \/ Decide(r) \/ View(r)
  \/ Insert(r)    \/ Update(r)       \/ Commit(r)

Next ==
  \/ DeleteProject
  \/ \E u \in Users : SetAgency(u)
  \/ \E r \in Requests :
       \/ \E u \in Users, body \in Bodies : Receive(r, u, body)
       \/ Step(r) \/ Fail(r) \/ Return(r)

Spec == Init /\ [][Next]_vars

-----------------------------------------------------------------------------
(* Properties.                                                             *)

\* Every variable keeps its type, and only a transaction holds the row lock.
TypeOK ==
  /\ exists \in BOOLEAN /\ agency \subseteq Users
  /\ dueAt \in Dates \cup {None}
  /\ dueChanges \subseteq DueRow
  /\ rowLock \in Requests \cup {None}
  /\ pc \in [Requests -> {"idle"} \cup Active \cup Answers]
  /\ req \in [Requests -> RequestRecs \cup {None}]
  /\ clock \in Nat /\ commits \in Nat /\ changes \in 0..MaxChanges
  /\ \A r \in Requests : pc[r] = "commit" <=> rowLock = r

Newest(rows, key(_)) == {x \in rows : \A y \in rows : key(y) <= key(x)}

CommitOf(x) == x.at
CreatedOf(x) == x.createdAt

\* The task's due date is the one of the last committed change, and NULL before
\* the first: parallel updates are serialized and none is applied unlogged,
\* logged unapplied, or half rolled back.
LastCommitWins ==
  IF dueChanges = {} THEN dueAt = None
  ELSE \A x \in Newest(dueChanges, CommitOf) : x.new = dueAt

\* A change is logged with the value it replaced unless another one was committed
\* since its request loaded the task.  If the newest row, as GET
\* /tasks/:id/due-changes orders them, is of a request whose time from its load to
\* its commit no other transaction overlapped, the task has its due date: only
\* overlapping changes can put the history out of step.
HistoryTrueUnlessOverlapped ==
  /\ \A x \in dueChanges : x.at = x.seen + 1 => x.old = x.prev
  /\ \A x \in Newest(dueChanges, CreatedOf) : x.alone => x.new = dueAt
=============================================================================
