--------------------------- MODULE TaskLifecycle ----------------------------
(***************************************************************************)
(* PATCH /tasks/:id/status, as concurrent requests over the database    *)
(* (apps/api/src/tasks/tasks.service.ts `transition` and                   *)
(* tasks-transition.service.ts).  A request loads the task, checks the     *)
(* caller's role and project membership, then runs one READ COMMITTED      *)
(* transaction that begins with a compare-and-set on the task's status.    *)
(* Every database round trip is a step of its own, so that two requests,   *)
(* a role change or a project deletion may fall between any two of them.   *)
(*                                                                         *)
(* One project and its tasks are modelled.  What a transaction has written *)
(* is kept in the request until Commit publishes it; rowLock is the lock   *)
(* PostgreSQL holds on a task row from the UPDATE to the end of the        *)
(* transaction.                                                            *)
(***************************************************************************)
EXTENDS TaskTransition, Sequences, FiniteSets

CONSTANTS
  Users,          \* accounts
  Tasks,          \* tasks of the project
  Requests,       \* request slots of the API, reused one request after another
  None,           \* the null of a reference
  Bodies,         \* request bodies [to, comment, clients] a caller may send
  Assignee,       \* [Tasks -> Users \cup {None}]
  InitRole,       \* [Users -> Roles \cup {None}], the workspace at the start
  InitMembers,    \* project members at the start
  NewRoles,       \* what the rest of the system may change a role to
  MaxEvents,      \* bound: log length up to which moves are asked for
  MaxChanges      \* bound: role, membership and project changes

ASSUME ConstantsOK ==
  /\ Bodies \subseteq [to : Statuses, comment : BOOLEAN, clients : SUBSET Users]
  /\ Assignee \in [Tasks -> Users \cup {None}]
  /\ InitRole \in [Users -> Roles \cup {None}]
  /\ InitMembers \subseteq Users
  /\ NewRoles \subseteq Roles \cup {None}
  /\ MaxEvents \in Nat /\ MaxChanges \in Nat
  /\ None \notin Users \cup Tasks \cup Requests \cup Roles

VARIABLES
  role,           \* workspace_members.role; None: not a member
  projectMembers, \* project_members
  status,         \* tasks.status; Gone once the project is deleted
  events,         \* task_events per task; a row's id is its position
  acks,           \* client_handoff_acks
  approvals,      \* client_approval_actions
  changeNotes,    \* number of change-request comments, per task
  notices,        \* notifications [task, event, user]
  outbox,         \* email_outbox entries [task, event, recipients]
  unmailed,       \* history: handoffs [task, event] whose entry was never written
  rowLock,        \* the request whose transaction holds the task's row
  pc, req,        \* per request slot: where it is, and what it carries
  changes         \* changes made so far by the rest of the system

records == <<events, acks, approvals, changeNotes, notices>>
access  == <<role, projectMembers, changes>>
vars    == <<access, status, records, outbox, unmailed, rowLock, pc, req>>

Gone == "GONE"

(* Where a request can be. *)
Reading    == {"loaded", "member", "project", "noop", "update", "missed"}
InTx       == {"clients", "adding", "members", "write"}
Rejections == {"forbidden", "badrequest", "conflict", "notfound"}
Answers    == Rejections \cup {"ok", "error"}
Active     == Reading \cup InTx \cup {"mail"}
Places     == {"idle"} \cup Active \cup Answers

(* `role` of an event and `seen`, `event` of a request are history:        *)
(* the role the move was checked with, the length of the log at load, and  *)
(* the row the request logged (0: none).                                   *)
EventRows ==
  [from : Statuses, to : Statuses, type : EventTypes,
   approval : ApprovalTypes \cup {NoApproval}, comment : BOOLEAN,
   actor : Users, role : Roles]
AckRows      == [task : Tasks, event : Nat, actor : Users]
ApprovalRows == [task : Tasks, event : Nat, actor : Users, action : ApprovalTypes]
NoticeRows   == [task : Tasks, event : Nat, user : Users]
OutboxRows   == [task : Tasks, event : Nat, recipients : SUBSET Users]
RequestRecs  ==
  [user : Users, task : Tasks, body : Bodies, from : Statuses \cup {Gone},
   role : Roles \cup {None}, recipients : SUBSET Users, added : SUBSET Users,
   seen : Nat, event : Nat]
NoRequest == None

IsMember(u)   == role[u] # None
TaskExists(t) == status[t] # Gone
ProjectExists == \A t \in Tasks : TaskExists(t)
Wants(r)      == req[r].body.to
IsHandoff(r)  == Wants(r) = "CLIENT_HANDOFF"

Init ==
  /\ role = InitRole
  /\ projectMembers = InitMembers
  /\ status = [t \in Tasks |-> "BRIEF"]
  /\ events = [t \in Tasks |-> <<>>]
  /\ acks = {} /\ approvals = {} /\ notices = {} /\ outbox = {} /\ unmailed = {}
  /\ changeNotes = [t \in Tasks |-> 0]
  /\ rowLock = [t \in Tasks |-> None]
  /\ pc = [r \in Requests |-> "idle"]
  /\ req = [r \in Requests |-> NoRequest]
  /\ changes = 0

-----------------------------------------------------------------------------
(* Steps before the transaction.                                           *)

Goto(r, place) == pc' = [pc EXCEPT ![r] = place]

\* A step of r that only reads the database.
ReadStep(r, here, there) ==
  /\ pc[r] = here
  /\ Goto(r, there)
  /\ UNCHANGED <<access, status, records, outbox, unmailed, rowLock>>

InFlight(t) == {r \in Requests : pc[r] \in Active /\ req[r].task = t}

\* Bound: a move is only asked for while the log has room for every request
\* in flight; a request for the current status logs nothing and is free.
HasRoom(t, body) ==
  \/ body.to = status[t]
  \/ Len(events[t]) + Cardinality(InFlight(t)) < MaxEvents

\* loadTask
Receive(r, u, t, body) ==
  /\ HasRoom(t, body)
  /\ ReadStep(r, "idle", IF TaskExists(t) THEN "loaded" ELSE "notfound")
  /\ req' = [req EXCEPT ![r] =
       [user |-> u, task |-> t, body |-> body, from |-> status[t],
        role |-> None, recipients |-> {}, added |-> {},
        seen |-> Len(events[t]), event |-> 0]]

\* getWorkspaceRole inside assertProjectAccess
ReadRole(r) ==
  LET held == role[req[r].user] IN
  /\ ReadStep(r, "loaded",
       IF held = None THEN "forbidden"
       ELSE IF held \in {"CLIENT_VIEW", "MEMBER"} THEN "member"
       ELSE "project")
  /\ req' = [req EXCEPT ![r].role = held]

\* assertProjectMember, then the MEMBER/assignee rule of assertRoleCanAccessTask
CheckMembership(r) ==
  /\ ReadStep(r, "member",
       IF /\ req[r].user \in projectMembers
          /\ req[r].role = "MEMBER" => Assignee[req[r].task] = req[r].user
       THEN "project" ELSE "forbidden")
  /\ UNCHANGED req

\* assertProjectExists, then the no-op test and the matrix, which read nothing
CheckProject(r) ==
  LET verdict == Verdict(req[r].role, req[r].from, Wants(r), req[r].body.comment)
  IN
  /\ ReadStep(r, "project",
       IF ~ProjectExists THEN "notfound"
       ELSE IF req[r].from = Wants(r) THEN "noop"
       ELSE IF verdict = "ok" THEN "update"
       ELSE verdict)
  /\ UNCHANGED req

\* The idempotent no-op reads the row back and fails if it is gone.
AnswerNoop(r) ==
  /\ ReadStep(r, "noop", IF TaskExists(req[r].task) THEN "ok" ELSE "error")
  /\ UNCHANGED req

-----------------------------------------------------------------------------
(* The transaction.                                                        *)

\* Mutant of CasMatches: the update forgets the status it was decided on.
CasIgnoresStatus(r) == TaskExists(req[r].task)

\* The rows UPDATE tasks ... WHERE id = task AND status = from selects.
CasMatches(r) == status[req[r].task] = req[r].from

\* The update waits for the row's lock and then holds it.
CasHit(r) ==
  /\ pc[r] = "update"
  /\ CasMatches(r)
  /\ rowLock[req[r].task] = None
  /\ rowLock' = [rowLock EXCEPT ![req[r].task] = r]
  /\ Goto(r, IF IsHandoff(r) THEN "clients" ELSE "write")
  /\ UNCHANGED <<access, status, records, outbox, unmailed, req>>

\* count = 0: nothing is locked and nothing waits.
CasMiss(r) ==
  /\ ReadStep(r, "update", "missed")
  /\ ~CasMatches(r)
  /\ UNCHANGED req

\* Mutant of Reread: every miss is taken for a move somebody else has done.
RereadTakenForDone(r) ==
  /\ ReadStep(r, "missed", IF TaskExists(req[r].task) THEN "ok" ELSE "error")
  /\ UNCHANGED req

\* The row is read again: another request may already have done the move.
Reread(r) ==
  LET current == status[req[r].task] IN
  /\ ReadStep(r, "missed",
       IF current = Gone THEN "error"
       ELSE IF current = Wants(r) THEN "ok"
       ELSE "conflict")
  /\ UNCHANGED req

\* A request that ends here leaves the handoff it has logged without its mail.
LoseTrack(r) ==
  unmailed' = IF pc[r] = "mail"
              THEN unmailed \cup {[task |-> req[r].task, event |-> req[r].event]}
              ELSE unmailed

\* Mutant of Rollback: the transaction is abandoned, not ended.
RollbackKeepsLock(r, answer) ==
  /\ LoseTrack(r)
  /\ Goto(r, answer)
  /\ UNCHANGED <<access, status, records, outbox, rowLock, req>>

\* The transaction ends without effect.
Rollback(r, answer) ==
  /\ LoseTrack(r)
  /\ rowLock' = [t \in Tasks |-> IF rowLock[t] = r THEN None ELSE rowLock[t]]
  /\ Goto(r, answer)
  /\ UNCHANGED <<access, status, records, outbox, req>>

Clients == {u \in Users : role[u] = "CLIENT_VIEW"}

\* The transaction goes on with these recipients and new project members.
Address(r, there, recipients, added) ==
  /\ Goto(r, there)
  /\ req' = [req EXCEPT ![r].recipients = recipients, ![r].added = added]
  /\ UNCHANGED <<access, status, records, outbox, unmailed, rowLock>>

\* ensureProjectClients: every named user must be a client of the workspace.
FindNamedClients(r) ==
  LET named == req[r].body.clients IN
  /\ pc[r] = "clients" /\ named # {}
  /\ IF named \subseteq Clients
     THEN Address(r, "adding", named, {})
     ELSE Rollback(r, "badrequest")

\* Its second half: the ones not yet in the project are inserted (skipDuplicates).
AddNamedClients(r) ==
  /\ pc[r] = "adding"
  /\ Address(r, "write", req[r].recipients, req[r].recipients \ projectMembers)

\* listProjectClientUserIds reads the workspace's clients and then keeps the
\* ones in the project; with nobody left the handoff is refused.
FindAllClients(r) ==
  /\ pc[r] = "clients" /\ req[r].body.clients = {}
  /\ IF Clients # {} THEN Address(r, "members", Clients, {})
     ELSE Rollback(r, "badrequest")

\* Mutant of KeepProjectClients: the empty result is not refused.
KeepEvenNobody(r) ==
  /\ pc[r] = "members"
  /\ Address(r, "write", req[r].recipients \cap projectMembers, {})

\* Mutant of KeepProjectClients: the clients are notified at once, through the
\* plain connection and not the transaction's.
NotifyBeforeCommit(r) ==
  LET reached == req[r].recipients \cap projectMembers
      id      == Len(events[req[r].task]) + 1
  IN
  /\ pc[r] = "members" /\ reached # {}
  /\ notices' = notices \cup
       {[task |-> req[r].task, event |-> id, user |-> u] : u \in reached}
  /\ Goto(r, "write")
  /\ req' = [req EXCEPT ![r].recipients = reached]
  /\ UNCHANGED <<access, status, events, acks, approvals, changeNotes, outbox,
                 unmailed, rowLock>>

KeepProjectClients(r) ==
  LET reached == req[r].recipients \cap projectMembers IN
  /\ pc[r] = "members"
  /\ IF reached # {} THEN Address(r, "write", reached, {})
     ELSE Rollback(r, "badrequest")

\* Mutant of NoticeReaders: the assignee is added without asking if there is one.
ReadersAndAssignee(r) ==
  {u \in Users : IsMember(u)} \cup {Assignee[req[r].task]}

\* notifyWorkspaceMembers: the handoff's recipients, or the whole workspace.
NoticeReaders(r) ==
  (IF IsHandoff(r) THEN req[r].recipients ELSE {u \in Users : IsMember(u)})
    \ {req[r].user}

\* The event, its acknowledgement or decision row, the change-request comment
\* and the notifications become visible together with the new status.
Commit(r) ==
  LET t    == req[r].task
      from == req[r].from
      to   == Wants(r)
      u    == req[r].user
      id   == Len(events[t]) + 1
      type == EventType(from, to)
      approval == ApprovalType(from, to)
  IN
  /\ pc[r] = "write"
  /\ status' = [status EXCEPT ![t] = to]
  /\ events' = [events EXCEPT ![t] = Append(@,
       [from |-> from, to |-> to, type |-> type, approval |-> approval,
        comment |-> req[r].body.comment, actor |-> u, role |-> req[r].role])]
  /\ acks' = acks \cup
       (IF type = "HANDOFF_ACK" THEN {[task |-> t, event |-> id, actor |-> u]}
        ELSE {})
  /\ approvals' = approvals \cup
       (IF type = "CLIENT_APPROVAL" /\ approval # NoApproval
        THEN {[task |-> t, event |-> id, actor |-> u, action |-> approval]}
        ELSE {})
  /\ changeNotes' =
       IF approval = "CHANGES_REQUESTED" /\ req[r].body.comment
       THEN [changeNotes EXCEPT ![t] = @ + 1] ELSE changeNotes
  /\ notices' = notices \cup
       {[task |-> t, event |-> id, user |-> v] : v \in NoticeReaders(r)}
  /\ projectMembers' = projectMembers \cup req[r].added
  /\ rowLock' = [rowLock EXCEPT ![t] = None]
  /\ req' = [req EXCEPT ![r].event = id]
  /\ Goto(r, IF IsHandoff(r) /\ req[r].recipients # {} THEN "mail" ELSE "ok")
  /\ UNCHANGED <<role, changes, outbox, unmailed>>

-----------------------------------------------------------------------------
(* After the transaction.                                                  *)

\* Mutant of EnqueueMail: only the clients who are new to the project get it.
EnqueueMailToAdded(r) ==
  /\ pc[r] = "mail"
  /\ outbox' = outbox \cup {[task |-> req[r].task, event |-> req[r].event,
                             recipients |-> req[r].added]}
  /\ Goto(r, "ok")
  /\ UNCHANGED <<access, status, records, unmailed, rowLock, req>>

EnqueueMail(r) ==
  /\ pc[r] = "mail"
  /\ outbox' = outbox \cup {[task |-> req[r].task, event |-> req[r].event,
                             recipients |-> req[r].recipients]}
  /\ Goto(r, "ok")
  /\ UNCHANGED <<access, status, records, unmailed, rowLock, req>>

\* The insert fails; the error is caught and logged, the answer stays 200.
LoseMail(r) ==
  /\ pc[r] = "mail"
  /\ LoseTrack(r)
  /\ Goto(r, "ok")
  /\ UNCHANGED <<access, status, records, outbox, rowLock, req>>

\* A database error, the transaction's time limit or a crash of the API:
\* the transaction, if any, is rolled back and the caller sees a failure.
Fail(r) == pc[r] \in Active /\ Rollback(r, "error")

\* The response leaves and the slot is free.
Return(r) ==
  /\ pc[r] \in Answers
  /\ Goto(r, "idle")
  /\ req' = [req EXCEPT ![r] = NoRequest]
  /\ UNCHANGED <<access, status, records, outbox, unmailed, rowLock>>

-----------------------------------------------------------------------------
(* The rest of the system, as far as these requests can tell.              *)

Change == changes < MaxChanges /\ changes' = changes + 1

\* WorkspaceMembersService: invite, updateRole and remove
SetRole(u, to) ==
  /\ Change /\ to # role[u]
  /\ role' = [role EXCEPT ![u] = to]
  /\ UNCHANGED <<projectMembers, status, records, outbox, unmailed, rowLock, pc, req>>

\* ProjectMembersService: add needs a workspace member, remove does not
AddProjectMember(u) ==
  /\ Change /\ ProjectExists /\ IsMember(u) /\ u \notin projectMembers
  /\ projectMembers' = projectMembers \cup {u}
  /\ UNCHANGED <<role, status, records, outbox, unmailed, rowLock, pc, req>>

RemoveProjectMember(u) ==
  /\ Change /\ u \in projectMembers
  /\ projectMembers' = projectMembers \ {u}
  /\ UNCHANGED <<role, status, records, outbox, unmailed, rowLock, pc, req>>

\* Mutant of DeleteProject: the deletion does not wait for the locked task rows.
DeleteProjectAtOnce ==
  /\ Change /\ ProjectExists
  /\ status' = [t \in Tasks |-> Gone]
  /\ events' = [t \in Tasks |-> <<>>]
  /\ acks' = {} /\ approvals' = {}
  /\ changeNotes' = [t \in Tasks |-> 0]
  /\ projectMembers' = {}
  /\ UNCHANGED <<role, notices, outbox, unmailed, rowLock, pc, req>>

\* ProjectsService.delete: the cascade waits for the locked task rows;
\* notifications and queued mail have no foreign key and stay.
DeleteProject ==
  /\ Change /\ ProjectExists
  /\ \A t \in Tasks : rowLock[t] = None
  /\ status' = [t \in Tasks |-> Gone]
  /\ events' = [t \in Tasks |-> <<>>]
  /\ acks' = {} /\ approvals' = {}
  /\ changeNotes' = [t \in Tasks |-> 0]
  /\ projectMembers' = {}
  /\ UNCHANGED <<role, notices, outbox, unmailed, rowLock, pc, req>>

-----------------------------------------------------------------------------
Cas(r) == CasHit(r) \/ CasMiss(r)

\* The steps that take a request to its answer without waiting for others.
Advance(r) ==
  \/ ReadRole(r)         \/ CheckMembership(r)  \/ CheckProject(r)
  \/ AnswerNoop(r)       \/ Reread(r)           \/ FindNamedClients(r)
  \/ AddNamedClients(r)  \/ FindAllClients(r)   \/ KeepProjectClients(r)
  \/ Commit(r)           \/ EnqueueMail(r)      \/ LoseMail(r)

Environment ==
  \/ DeleteProject
  \/ \E u \in Users :
       \/ AddProjectMember(u)
       \/ RemoveProjectMember(u)
       \/ \E to \in NewRoles : SetRole(u, to)

Next ==
  \/ Environment
  \/ \E r \in Requests :
       \/ \E u \in Users, t \in Tasks, body \in Bodies : Receive(r, u, t, body)
       \/ Advance(r)
       \/ Cas(r)
       \/ Fail(r)
       \/ Return(r)

Spec == Init /\ [][Next]_vars

\* Node's event loop runs every pending step; PostgreSQL queues the waiters of
\* a row lock first come first served, so an update that can run again and
\* again does run.  Failures and the environment are owed nothing.
Fairness ==
  \A r \in Requests : WF_vars(Advance(r)) /\ SF_vars(Cas(r)) /\ WF_vars(Return(r))

FairSpec == Spec /\ Fairness

-----------------------------------------------------------------------------
(* Properties.                                                             *)

\* Every variable keeps its type, and a slot carries a request when busy.
TypeOK ==
  /\ role \in [Users -> Roles \cup {None}]
  /\ projectMembers \subseteq Users
  /\ status \in [Tasks -> Statuses \cup {Gone}]
  /\ events \in [Tasks -> Seq(EventRows)]
  /\ acks \subseteq AckRows /\ approvals \subseteq ApprovalRows
  /\ changeNotes \in [Tasks -> Nat]
  /\ notices \subseteq NoticeRows /\ outbox \subseteq OutboxRows
  /\ unmailed \subseteq [task : Tasks, event : Nat]
  /\ rowLock \in [Tasks -> Requests \cup {None}]
  /\ pc \in [Requests -> Places]
  /\ req \in [Requests -> RequestRecs \cup {NoRequest}]
  /\ changes \in 0..MaxChanges
  /\ \A r \in Requests : pc[r] # "idle" => req[r] \in RequestRecs

\* The status the i-th event of the log starts from.
StatusBefore(log, i) == IF i = 1 THEN "BRIEF" ELSE log[i - 1].to

StatusAfter(log) == IF log = <<>> THEN "BRIEF" ELSE log[Len(log)].to

\* The log of a task is a gapless chain from BRIEF to the task's status: two
\* racing requests never both log a move away from the same visit to a status,
\* and no status change escapes the log (the compare-and-set and the event are
\* one transaction, tasks-transition.service.ts:70-144).
HistoryExplainsStatus ==
  \A t \in Tasks : TaskExists(t) =>
    /\ status[t] = StatusAfter(events[t])
    /\ \A i \in 1..Len(events[t]) :
         events[t][i].from = StatusBefore(events[t], i)

\* One step appends to the logs of tasks that exist, or leaves them alone, and
\* no task comes back once it is deleted.
LogsGrow ==
  \A t \in Tasks : TaskExists(t)' =>
    /\ TaskExists(t)
    /\ Len(events[t]) <= Len(events'[t])
    /\ \A i \in 1..Len(events[t]) : events'[t][i] = events[t][i]

\* A task's log is append-only and a deleted task stays deleted: no transition
\* that was in its transaction when the project was deleted brings its task back
\* (projects.service.ts:231 against tasks-transition.service.ts:70-215).
LogIsAppendOnly == [][LogsGrow]_vars

\* Positions in t's log of the moves between two statuses.
MovesOf(t, from, to) ==
  {i \in 1..Len(events[t]) : events[t][i].from = from /\ events[t][i].to = to}

\* Row ids of a kind of record of t, each with the actor of its event.
SignedBy(t, rows, ids) ==
  /\ {x.event : x \in rows} = ids
  /\ \A x \in rows : x.actor = events[t][x.event].actor

\* The consent records are exactly the log's client decisions, whatever fails
\* or races: one acknowledgement per acceptance, one APPROVED row per approval,
\* one CHANGES_REQUESTED row and one comment per change request, signed by the
\* user who made the move.
ConsentRecordsMatchHistory ==
  \A t \in Tasks :
    LET decisions(a) == {x \in approvals : x.task = t /\ x.action = a}
        changeMoves  == MovesOf(t, "CLIENT_APPROVAL", "PRODUCTION")
    IN
    /\ SignedBy(t, {x \in acks : x.task = t},
                MovesOf(t, "CLIENT_HANDOFF", "CLIENT_APPROVAL"))
    /\ SignedBy(t, decisions("APPROVED"),
                MovesOf(t, "CLIENT_APPROVAL", "PENDING_CLOSURE"))
    /\ SignedBy(t, decisions("CHANGES_REQUESTED"), changeMoves)
    /\ changeNotes[t] = Cardinality(changeMoves)

\* What a caller is told agrees with the log.  "ok": the task was in the wanted
\* status when loaded, or a move into it was logged since.  "conflict": some
\* other move was logged since.  A refused request logged nothing.
AnswersMatchHistory ==
  \A r \in Requests : pc[r] \in Answers =>
    LET log   == events[req[r].task]
        since == {i \in 1..Len(log) : i > req[r].seen}
    IN
    /\ pc[r] \in Rejections => req[r].event = 0
    /\ TaskExists(req[r].task) =>
         /\ pc[r] = "ok" => \/ req[r].from = Wants(r)
                            \/ \E i \in since : log[i].to = Wants(r)
         /\ pc[r] = "conflict" => since # {}

\* A handoff is never logged for nobody: the transaction reaches its write with
\* at least one client to hand the task to, also when clients are demoted or
\* taken off the project while it looks for them.
HandoffHasRecipients ==
  \A r \in Requests :
    pc[r] \in {"write", "mail"} /\ IsHandoff(r) => req[r].recipients # {}

\* Nothing is announced that did not happen: as long as the task exists every
\* notification and every queued mail is about an event of its log, mail about
\* a handoff, and nobody is notified of an own move.
AnnouncementsMatchHistory ==
  /\ \A n \in notices : TaskExists(n.task) =>
       /\ n.event \in 1..Len(events[n.task])
       /\ n.user # events[n.task][n.event].actor
  /\ \A m \in outbox : TaskExists(m.task) =>
       /\ m.event \in 1..Len(events[m.task])
       /\ events[m.task][m.event].to = "CLIENT_HANDOFF"
       /\ m.recipients # {}

\* Who was notified of the i-th event of t, its queued mail, and the requests that
\* are about to queue it.
Told(t, i)   == {u \in Users : [task |-> t, event |-> i, user |-> u] \in notices}
Queued(t, i) == {m \in outbox : m.task = t /\ m.event = i}
InHand(t, i) ==
  {r \in Requests : pc[r] = "mail" /\ req[r].task = t /\ req[r].event = i}

\* The mail of every logged handoff is in one place: queued, for the clients who
\* were notified of it with the commit; in the hands of the request that is about
\* to queue it; or lost between the two, by a crash or a failed insert
\* (tasks.service.ts:193-213).  No race loses one, or has a lost one queued.
HandoffsAreMailed ==
  \A t \in Tasks : TaskExists(t) =>
    \A i \in 1..Len(events[t]) : events[t][i].to = "CLIENT_HANDOFF" =>
      /\ \A m \in Queued(t, i) : m.recipients \ {events[t][i].actor} = Told(t, i)
      /\ IF [task |-> t, event |-> i] \in unmailed
         THEN Queued(t, i) = {} /\ InHand(t, i) = {}
         ELSE Queued(t, i) = {} <=> InHand(t, i) # {}

(* The records of a task, read as the state of its approval.  An event or   *)
(* row is of the current round if no later event is a handoff.              *)
CurrentRound(t, i) ==
  \A j \in i + 1 .. Len(events[t]) : events[t][j].to # "CLIENT_HANDOFF"

MovedBy(t, i, roles) == events[t][i].role \in roles

Decided(t, action) ==
  \E x \in approvals : /\ x.task = t /\ x.action = action
                       /\ CurrentRound(t, x.event)
                       /\ MovedBy(t, x.event, {"CLIENT_VIEW"})

Acknowledged(t) ==
  \E x \in acks : /\ x.task = t /\ CurrentRound(t, x.event)
                  /\ MovedBy(t, x.event, {"CLIENT_VIEW"})

Closed(t) ==
  \E i \in 1..Len(events[t]) :
    events[t][i].to = "DONE" /\ MovedBy(t, i, AGENCY_ROLES)

JustSent(t) ==
  LET n == Len(events[t]) IN
  n > 0 /\ events[t][n].to = "CLIENT_HANDOFF" /\ MovedBy(t, n, AGENCY_ROLES)

RoundOf(t) ==
  IF ~TaskExists(t) THEN "deleted"
  ELSE IF Closed(t) THEN "closed"
  ELSE IF Decided(t, "APPROVED") THEN "approved"
  ELSE IF Decided(t, "CHANGES_REQUESTED") THEN "drafting"
  ELSE IF Acknowledged(t) THEN "accepted"
  ELSE IF JustSent(t) THEN "sent"
  ELSE "drafting"

\* No task is closed without a client's acceptance and a client's approval of
\* the last version handed over, both on record and in that order
\* (approveflow-spec.md:79-80): the service implements TaskApproval.
Approval == INSTANCE TaskApproval WITH round <- [t \in Tasks |-> RoundOf(t)]
ApprovalIsBilateral == Approval!Spec

\* Every request is answered: nobody waits for ever for a row lock, whatever
\* the other requests do and however their transactions end.
EveryRequestAnswered ==
  \A r \in Requests : pc[r] \in Active ~> pc[r] \in Answers
=============================================================================
