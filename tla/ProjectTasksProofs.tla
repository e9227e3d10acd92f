------------------------- MODULE ProjectTasksProofs -------------------------
(***************************************************************************)
(* Theorems about ProjectTasks: types, lists against access, rows that     *)
(* outlive what they rested on, and writes against permissions, for any    *)
(* number of users, tasks and concurrent requests.                         *)
(***************************************************************************)
EXTENDS ProjectTasks, TLAPS

\* What is asked fits its kind, and where the request is fits what it asks.
AsksOK ==
  \A r \in Requests : pc[r] \in Active =>
    /\ Ask(r).kind \in {"updateTask", "comment"} <=> Ask(r).task # None
    /\ Ask(r).kind \in {"addMember", "removeMember"} => Ask(r).target \in Users
    /\ Ask(r).target = None => Ask(r).kind = "updateTask"
    /\ Ask(r).kind = "comment" => Ask(r).target = "nobody"
    /\ pc[r] = "project" => Ask(r).kind \in {"createTask", "updateTask", "comment"}
    /\ pc[r] = "target" => Ask(r).kind \in {"addMember", "removeMember"}
    /\ pc[r] \in {"assignee", "inProject"} =>
         Ask(r).kind \in {"createTask", "updateTask"} /\ Ask(r).target \in Users

TypeInv == TypeOK /\ AsksOK

\* What a check, a refusal or a failure does to the requests.
LEMMA GotoKeeps ==
  ASSUME TypeOK, NEW r \in Requests, NEW there \in Active \cup {"idle"},
         pc[r] \in Active, Goto(r, there)
  PROVE  TypeOK'
  <1>1. RequestsOK'
    <2>1. CASE there = "idle"
      BY <2>1, NoneIsNoRequest DEF Goto, TypeOK, RequestsOK, Active
    <2>2. CASE there # "idle"
      BY <2>2 DEF Goto, TypeOK, RequestsOK, Active
    <2>. QED BY <2>1, <2>2
  <1>. QED BY <1>1 DEF Goto, TypeOK, tables, bounds, history

\* A write ends its request and overtakes others.
LEMMA FinishKeeps ==
  ASSUME RequestsOK, NEW r \in Requests, NEW rs \in SUBSET InFlight, Finish(r, rs)
  PROVE  RequestsOK'
  <1>1. \A q \in rs : req[q] \in RequestRecs
    BY DEF InFlight, RequestsOK, Active
  <1>2. \A q \in rs : [req[q] EXCEPT !.overtaken = TRUE] \in RequestRecs
    BY <1>1 DEF RequestRecs
  <1>3. req' \in [Requests -> RequestRecs \cup {None}]
    BY <1>2 DEF Finish, RequestsOK
  <1>4. pc' \in [Requests -> Active \cup {"idle"}]
    BY DEF Finish, RequestsOK
  <1>5. ASSUME NEW q \in Requests
        PROVE  req'[q] = None <=> pc'[q] = "idle"
    <2>1. CASE q = r
      BY <2>1 DEF Finish, RequestsOK
    <2>2. CASE q # r /\ q \in rs
      BY <1>2, <2>2, NoneIsNoRequest DEF Finish, RequestsOK, InFlight, Active
    <2>3. CASE q # r /\ q \notin rs
      BY <2>3 DEF Finish, RequestsOK
    <2>. QED BY <2>1, <2>2, <2>3
  <1>. QED BY <1>3, <1>4, <1>5 DEF RequestsOK

LEMMA ReceiveKeeps ==
  ASSUME TypeOK, NEW r \in Requests, Receive(r)
  PROVE  TypeOK'
  <1>1. PICK ask \in Asks :
          req' = [req EXCEPT ![r] =
            [ask |-> ask, row |-> None, overtaken |-> FALSE,
             assignee |-> IF ask.task = None THEN None ELSE tasks[ask.task]]]
    BY DEF Receive
  <1>2. (IF ask.task = None THEN None ELSE tasks[ask.task]) \in Assignees \cup {None}
    BY DEF Asks, TypeOK
  <1>3. [ask |-> ask, row |-> None, overtaken |-> FALSE,
         assignee |-> IF ask.task = None THEN None ELSE tasks[ask.task]] \in RequestRecs
    BY <1>2 DEF RequestRecs
  <1>4. RequestsOK'
    BY <1>1, <1>3, NoneIsNoRequest DEF Receive, First, TypeOK, RequestsOK, Active
  <1>. QED BY <1>4 DEF Receive, TypeOK, tables, bounds, history

LEMMA KindsAre ==
  ASSUME RequestsOK, NEW r \in Requests, pc[r] \in Active
  PROVE  /\ req[r] \in RequestRecs /\ Ask(r) \in Asks
         /\ Ask(r).kind \in AllKinds /\ Ask(r).by \in Users
         /\ Ask(r).task \in Tasks \cup {None} /\ Ask(r).target \in Assignees \cup {None}
  <1>1. req[r] \in RequestRecs
    BY DEF RequestsOK, Active
  <1>. QED BY <1>1, ProjectConstantsOK DEF RequestRecs, Ask, Asks

LEMMA ChecksKeep ==
  ASSUME TypeInv, NEW r \in Requests,
         \/ CheckAccess(r) \/ CheckProject(r) \/ CheckAssignee(r) \/ CheckInProject(r)
         \/ FindTarget(r) \/ Fail(r)
  PROVE  TypeOK'
  <1> USE DEF TypeInv
  <1>1. CASE CheckAccess(r)
    <2>1. Ask(r).kind \in AllKinds
      BY <1>1, KindsAre DEF CheckAccess, Check, TypeOK, Active
    <2>2. AfterAccess(Ask(r)) \in Active
      BY <2>1 DEF AfterAccess, ToWrite, Active, AllKinds
    <2>. QED BY <1>1, <2>2, GotoKeeps DEF CheckAccess, Check, Active
  <1>2. CASE CheckProject(r) \/ CheckAssignee(r) \/ CheckInProject(r) \/ Fail(r)
    BY <1>2, GotoKeeps DEF CheckProject, AfterProject, ToWrite, CheckAssignee,
       CheckInProject, Check, Fail, Active
  <1>3. CASE FindTarget(r)
    <2>1. pc[r] = "target" /\ Ask(r).target \in Users /\ req[r] \in RequestRecs
      BY <1>3, KindsAre DEF FindTarget, AsksOK, TypeOK, Active
    <2>2. CASE Ask(r).kind # "addMember" /\ members[Ask(r).target] # None
      <3>1. /\ pc' = [pc EXCEPT ![r] = "write"]
            /\ req' = [req EXCEPT ![r] = [req[r] EXCEPT !.row = members[Ask(r).target]]]
            /\ UNCHANGED <<tables, bounds, history>>
        BY <1>3, <2>2 DEF FindTarget
      <3>2. members[Ask(r).target] \in Nat
        BY <2>1, <2>2 DEF TypeOK
      <3>3. [req[r] EXCEPT !.row = members[Ask(r).target]] \in RequestRecs
        BY <2>1, <3>2 DEF RequestRecs
      <3>4. RequestsOK'
        BY <2>1, <3>1, <3>3, NoneIsNoRequest DEF TypeOK, RequestsOK, Active
      <3>. QED BY <3>1, <3>4 DEF TypeOK, tables, bounds, history
    <2>3. CASE Ask(r).kind = "addMember" \/ members[Ask(r).target] = None
      BY <1>3, <2>1, <2>3, GotoKeeps DEF FindTarget, Check, Active
    <2>. QED BY <2>2, <2>3
  <1>. QED BY <1>1, <1>2, <1>3

LEMMA WritesKeep ==
  ASSUME TypeInv, NEW r \in Requests, Write(r)
  PROVE  TypeOK'
  <1> USE ProjectConstantsOK DEF TypeInv
  <1>1. pc[r] = "write"
    BY DEF Write, CreateTask, UpdateTask, WriteComment, AddMember, RemoveMember,
       UpdateProject, DeleteProject, Writes
  <1>2. /\ Ask(r).kind \in AllKinds /\ Ask(r).by \in Users
        /\ Ask(r).task \in Tasks \cup {None} /\ Ask(r).target \in Assignees \cup {None}
        /\ Ask(r).kind \in {"updateTask", "comment"} => Ask(r).task \in Tasks
        /\ Ask(r).kind \in {"addMember", "removeMember"} => Ask(r).target \in Users
    BY <1>1, KindsAre DEF TypeOK, AsksOK, Active
  <1>3. RequestsOK'
    <2>1. \A u \in Assignees \cup {None} : About(u) \subseteq InFlight
      BY DEF About
    <2>2. \A t \in Tasks : On(t) \subseteq InFlight
      BY DEF On
    <2>3. \E rs \in SUBSET InFlight : Finish(r, rs)
      BY <1>2, <2>1, <2>2 DEF Write, CreateTask, UpdateTask, WriteComment, AddMember,
         RemoveMember, UpdateProject, DeleteProject, Writes, Assignees
    <2>. QED BY <2>3, FinishKeeps DEF TypeOK
  <1>4. ASSUME NEW t \in Tasks, Assign(r, t), Ask(r).target \in Assignees
        PROVE  tasks' \in [Tasks -> Assignees \cup {None}] /\ strayed' \subseteq Tasks
    BY <1>2, <1>4 DEF Assign, TypeOK
  <1>5. CASE CreateTask(r)
    <2>1. Ask(r).target \in Assignees
      BY <1>1, <1>2, <1>5 DEF CreateTask, Writes, AsksOK, Active
    <2>. QED BY <1>3, <1>4, <1>5, <2>1 DEF CreateTask, TypeOK, bounds
  <1>6. CASE UpdateTask(r)
    <2>1. Ask(r).task \in Tasks /\ project
      BY <1>2, <1>6 DEF UpdateTask, Writes, TypeOK
    <2>2. CASE Ask(r).target = None
      BY <1>3, <1>6, <2>2 DEF UpdateTask, TypeOK, bounds
    <2>3. CASE Ask(r).target # None
      <3>1. Ask(r).target \in Assignees
        BY <1>2, <2>3
      <3>2. Assign(r, Ask(r).task)
        BY <1>6, <2>3 DEF UpdateTask
      <3>. QED BY <1>3, <1>4, <1>6, <2>1, <3>1, <3>2 DEF UpdateTask, TypeOK, bounds
    <2>. QED BY <2>2, <2>3
  <1>7. CASE WriteComment(r)
    <2>1. Ask(r).task \in Tasks /\ project /\ lastComment' \in Nat
      BY <1>2, <1>7 DEF WriteComment, Writes, TypeOK
    <2>2. [id |-> lastComment', task |-> Ask(r).task, author |-> Ask(r).by] \in CommentRows
      BY <1>2, <2>1 DEF CommentRows
    <2>3. comments' \subseteq CommentRows
      BY <1>7, <2>2 DEF WriteComment, TypeOK
    <2>4. notices' \subseteq Nat \X Users
      BY <1>7, <2>1 DEF WriteComment, Recipients, TypeOK
    <2>. QED BY <1>3, <1>7, <2>1, <2>3, <2>4 DEF WriteComment, TypeOK, history
  <1>8. CASE AddMember(r)
    <2>1. Ask(r).target \in Users
      BY <1>2, <1>8 DEF AddMember, Writes
    <2>2. members' \in [Users -> Nat \cup {None}] /\ lastRow' \in Nat /\ project
      BY <1>8, <2>1 DEF AddMember, TypeOK
    <2>3. behind' \subseteq Users
      BY <1>8, <2>1 DEF AddMember, TypeOK
    <2>. QED BY <1>3, <1>8, <2>2, <2>3 DEF AddMember, TypeOK
  <1>9. CASE RemoveMember(r)
    <2>1. members' \in [Users -> Nat \cup {None}] /\ Ask(r).target \in Users
      BY <1>2, <1>9 DEF RemoveMember, Writes, TypeOK
    <2>2. strayed' \subseteq Tasks /\ behind' \subseteq Users
      BY <1>9 DEF RemoveMember, AssignedTo, TypeOK
    <2>3. project' \/ \A u \in Users : members'[u] = None
      BY <1>9, <2>1 DEF RemoveMember, TypeOK
    <2>. QED BY <1>3, <1>9, <2>1, <2>2, <2>3 DEF RemoveMember, TypeOK, bounds
  <1>10. CASE UpdateProject(r)
    BY <1>3, <1>10 DEF UpdateProject, TypeOK, tables, bounds, history
  <1>11. CASE DeleteProject(r)
    BY <1>3, <1>11 DEF DeleteProject, TypeOK, bounds
  <1>. QED BY <1>5, <1>6, <1>7, <1>8, <1>9, <1>10, <1>11 DEF Write

LEMMA SetRoleKeeps ==
  ASSUME TypeInv, NEW u \in Users, SetRole(u)
  PROVE  TypeOK'
  <1> USE ProjectConstantsOK DEF TypeInv
  <1>1. \A q \in About(u) : req[q] \in RequestRecs
    BY KindsAre DEF About, InFlight, TypeOK
  <1>2. \A q \in About(u) : [req[q] EXCEPT !.overtaken = TRUE] \in RequestRecs
    BY <1>1 DEF RequestRecs
  <1>3. \A q \in Requests : req[q] \in RequestRecs \cup {None}
    BY DEF TypeOK, RequestsOK
  <1>4. req' \in [Requests -> RequestRecs \cup {None}]
    BY <1>2, <1>3 DEF SetRole, Overtake
  <1>5. ASSUME NEW q \in Requests
        PROVE  req'[q] = None <=> pc'[q] = "idle"
    BY <1>2, NoneIsNoRequest DEF SetRole, Overtake, About, InFlight, Active, TypeOK,
       RequestsOK
  <1>6. RequestsOK'
    BY <1>4, <1>5 DEF RequestsOK, SetRole, TypeOK
  <1>7. role' \in [Users -> Roles \cup {None}]
    BY DEF SetRole, TypeOK
  <1>8. strayed' \subseteq Tasks /\ behind' \subseteq Users /\ changes' \in Nat
    BY DEF SetRole, AssignedTo, TypeOK
  <1>. QED BY <1>6, <1>7, <1>8 DEF SetRole, TypeOK

-----------------------------------------------------------------------------
(* What a step can make of one request.                                     *)

Advances(r) ==
  /\ CheckAccess(r) \/ CheckProject(r) \/ CheckAssignee(r) \/ CheckInProject(r)
     \/ FindTarget(r)
  /\ pc'[r] \in Active /\ UNCHANGED tables
  /\ req'[r].ask = req[r].ask /\ req'[r].assignee = req[r].assignee
  /\ req'[r].overtaken = req[r].overtaken

Stays(r) ==
  /\ pc'[r] = pc[r]
  /\ \/ req'[r] = req[r]
     \/ req'[r].ask = req[r].ask /\ req'[r].overtaken

RequestMoves(r) == pc'[r] = "idle" \/ Receive(r) \/ Advances(r) \/ Stays(r)

LEMMA NextMoves ==
  ASSUME TypeInv, Next, NEW r \in Requests
  PROVE  RequestMoves(r)
  <1> USE DEF TypeInv
  <1>1. /\ pc \in [Requests -> Active \cup {"idle"}]
        /\ req \in [Requests -> RequestRecs \cup {None}]
    BY DEF TypeOK, RequestsOK
  <1>2. \A q \in InFlight : req[q] \in RequestRecs
    BY KindsAre DEF InFlight, TypeOK
  <1>3. ASSUME NEW q \in InFlight, req'[q] = [req[q] EXCEPT !.overtaken = TRUE]
        PROVE  req'[q].ask = req[q].ask /\ req'[q].overtaken
    BY <1>2, <1>3 DEF RequestRecs
  <1>4. ASSUME NEW q \in Requests, NEW there, Goto(q, there)
        PROVE  /\ q # r => Stays(r)
               /\ pc'[q] = there
               /\ there # "idle" => req' = req /\ UNCHANGED tables
    BY <1>1, <1>4 DEF Goto, Stays
  <1>5. ASSUME NEW q \in Requests, NEW rs \in SUBSET InFlight, Finish(q, rs)
        PROVE  RequestMoves(r)
    <2>1. CASE q = r
      BY <1>1, <1>5, <2>1 DEF Finish, RequestMoves
    <2>2. CASE q # r /\ r \in rs
      BY <1>1, <1>3, <1>5, <2>2 DEF Finish, RequestMoves, Stays
    <2>3. CASE q # r /\ r \notin rs
      BY <1>1, <1>5, <2>3 DEF Finish, RequestMoves, Stays
    <2>. QED BY <2>1, <2>2, <2>3
  <1>6. ASSUME NEW q \in Requests, Receive(q)
        PROVE  RequestMoves(r)
    BY <1>1, <1>6 DEF Receive, RequestMoves, Stays
  <1>7. ASSUME NEW q \in Requests, CheckAccess(q) \/ CheckProject(q) \/ CheckAssignee(q)
                                   \/ CheckInProject(q)
        PROVE  RequestMoves(r)
    <2>1. PICK there : Goto(q, there) /\ (there \in Active \/ there = "idle")
      <3>1. Ask(q).kind \in AllKinds
        BY <1>7, KindsAre DEF CheckAccess, CheckProject, CheckAssignee, CheckInProject,
           Check, TypeOK, Active
      <3>2. AfterAccess(Ask(q)) \in Active /\ AfterProject(Ask(q)) \in Active
        BY <3>1 DEF AfterAccess, AfterProject, ToWrite, Active, AllKinds
      <3>. QED
        BY <1>7, <3>2 DEF CheckAccess, CheckProject, CheckAssignee, CheckInProject, Check,
           Active
    <2>2. CASE q # r
      BY <1>4, <2>1, <2>2 DEF RequestMoves
    <2>3. CASE q = r /\ there # "idle"
      BY <1>4, <1>7, <2>1, <2>3 DEF RequestMoves, Advances
    <2>4. CASE q = r /\ there = "idle"
      BY <1>4, <2>1, <2>4 DEF RequestMoves
    <2>. QED BY <2>2, <2>3, <2>4
  <1>8. ASSUME NEW q \in Requests, FindTarget(q)
        PROVE  RequestMoves(r)
    <2>1. CASE Ask(q).kind # "addMember" /\ members[Ask(q).target] # None
      <3>1. /\ pc' = [pc EXCEPT ![q] = "write"]
            /\ req' = [req EXCEPT ![q] = [req[q] EXCEPT !.row = members[Ask(q).target]]]
            /\ UNCHANGED tables
        BY <1>8, <2>1 DEF FindTarget
      <3>2. req[q] \in RequestRecs
        BY <1>2, <1>8 DEF FindTarget, InFlight, Active
      <3>3. CASE q = r
        <4>1. /\ req'[r].ask = req[r].ask /\ req'[r].assignee = req[r].assignee
              /\ req'[r].overtaken = req[r].overtaken
          BY <1>1, <3>1, <3>2, <3>3 DEF RequestRecs
        <4>. QED BY <1>1, <1>8, <3>1, <3>3, <4>1 DEF RequestMoves, Advances, Active
      <3>4. CASE q # r
        BY <1>1, <3>1, <3>4 DEF RequestMoves, Stays
      <3>. QED BY <3>3, <3>4
    <2>2. CASE Ask(q).kind = "addMember" \/ members[Ask(q).target] = None
      <3>1. PICK there \in {"write", "idle"} : Goto(q, there)
        BY <1>8, <2>2 DEF FindTarget, Check
      <3>2. CASE q # r
        BY <1>4, <3>1, <3>2 DEF RequestMoves
      <3>3. CASE q = r
        BY <1>4, <1>8, <3>1, <3>3 DEF RequestMoves, Advances, Active
      <3>. QED BY <3>2, <3>3
    <2>. QED BY <2>1, <2>2
  <1>9. ASSUME NEW q \in Requests, Write(q)
        PROVE  RequestMoves(r)
    <2>1. \E rs \in SUBSET InFlight : Finish(q, rs)
      BY <1>9 DEF Write, CreateTask, UpdateTask, WriteComment, AddMember,
         RemoveMember, UpdateProject, DeleteProject, Writes, About, On
    <2>. QED BY <1>5, <2>1
  <1>10. ASSUME NEW q \in Requests, Fail(q)
        PROVE  RequestMoves(r)
    BY <1>1, <1>4, <1>10 DEF Fail, RequestMoves
  <1>11. ASSUME NEW u \in Users, SetRole(u)
        PROVE  RequestMoves(r)
    BY <1>1, <1>3, <1>11 DEF SetRole, Overtake, About, RequestMoves, Stays
  <1>. QED BY <1>6, <1>7, <1>8, <1>9, <1>10, <1>11 DEF Next, Step

\* Where a request that arrives or advances is then.
LEMMA ReceivedAsks ==
  ASSUME TypeInv, NEW r \in Requests, Receive(r)
  PROVE  /\ pc'[r] = First(req'[r].ask.kind) /\ UNCHANGED <<tables>>
         /\ req'[r].ask.kind \in AllKinds
         /\ req'[r].ask.target = None => req'[r].ask.kind = "updateTask"
         /\ req'[r].ask.kind = "comment" => req'[r].ask.target = "nobody"
         /\ req'[r].ask.kind \in {"updateTask", "comment"} <=> req'[r].ask.task # None
         /\ req'[r].ask.kind \in {"addMember", "removeMember"} => req'[r].ask.target \in Users
         /\ req'[r].ask.task # None =>
              tasks[req'[r].ask.task] = req'[r].assignee /\ req'[r].assignee # None
  <1>1. /\ pc \in [Requests -> Active \cup {"idle"}]
        /\ req \in [Requests -> RequestRecs \cup {None}]
    BY DEF TypeInv, TypeOK, RequestsOK
  <1>2. PICK ask \in Asks :
          /\ IF ask.kind \in {"updateTask", "comment"}
             THEN ask.task # None /\ tasks[ask.task] # None
             ELSE ask.task = None
          /\ ask.target = None => ask.kind = "updateTask"
          /\ ask.kind = "comment" => ask.target = "nobody"
          /\ ask.kind \in {"addMember", "removeMember"} => ask.target \in Users
          /\ pc' = [pc EXCEPT ![r] = First(ask.kind)]
          /\ req' = [req EXCEPT ![r] =
               [ask |-> ask, row |-> None, overtaken |-> FALSE,
                assignee |-> IF ask.task = None THEN None ELSE tasks[ask.task]]]
    BY DEF Receive
  <1>3. req'[r] = [ask |-> ask, row |-> None, overtaken |-> FALSE,
                   assignee |-> IF ask.task = None THEN None ELSE tasks[ask.task]]
    BY <1>1, <1>2
  <1>4. pc'[r] = First(ask.kind) /\ UNCHANGED <<tables>>
    BY <1>1, <1>2 DEF Receive
  <1>5. ask.kind \in AllKinds
    BY ProjectConstantsOK DEF Asks
  <1>. QED BY <1>2, <1>3, <1>4, <1>5

LEMMA NextAsks ==
  ASSUME TypeInv, Next
  PROVE  AsksOK'
  <1> USE ProjectConstantsOK DEF TypeInv
  <1>. SUFFICES ASSUME NEW r \in Requests, pc'[r] \in Active
                PROVE  /\ req'[r].ask.kind \in {"updateTask", "comment"}
                             <=> req'[r].ask.task # None
                       /\ req'[r].ask.kind \in {"addMember", "removeMember"}
                             => req'[r].ask.target \in Users
                       /\ req'[r].ask.target = None => req'[r].ask.kind = "updateTask"
                       /\ req'[r].ask.kind = "comment" => req'[r].ask.target = "nobody"
                       /\ pc'[r] = "project" =>
                            req'[r].ask.kind \in {"createTask", "updateTask", "comment"}
                       /\ pc'[r] = "target" =>
                            req'[r].ask.kind \in {"addMember", "removeMember"}
                       /\ pc'[r] \in {"assignee", "inProject"} =>
                            /\ req'[r].ask.kind \in {"createTask", "updateTask"}
                            /\ req'[r].ask.target \in Users
    BY DEF AsksOK, Ask
  <1>1. RequestMoves(r) /\ pc'[r] # "idle"
    BY NextMoves DEF Active
  <1>2. CASE Receive(r)
    BY <1>2, ReceivedAsks DEF First
  <1>3. CASE Stays(r)
    <2>1. pc'[r] = pc[r] /\ req'[r].ask = req[r].ask
      BY <1>3 DEF Stays
    <2>. QED BY <2>1 DEF AsksOK, Ask
  <1>4. CASE Advances(r)
    <2>1. pc[r] \in Active /\ req'[r].ask = req[r].ask
      BY <1>4 DEF Advances, CheckAccess, CheckProject, CheckAssignee, CheckInProject, Check,
         FindTarget, Active
    <2>2. pc \in [Requests -> Active \cup {"idle"}]
      BY DEF TypeOK, RequestsOK
    <2>3. /\ Ask(r).kind \in AllKinds
          /\ ToWrite(Ask(r)) = "assignee" => Ask(r).target \in Users
          /\ ToWrite(Ask(r)) \in {"assignee", "write"}
      BY <2>1, KindsAre DEF TypeOK, ToWrite, Assignees
    <2>4. CASE CheckAccess(r)
      <3>1. pc'[r] \in {AfterAccess(Ask(r)), "idle"}
        BY <2>2, <2>4 DEF CheckAccess, Check, Goto
      <3>2. /\ AfterAccess(Ask(r)) = "project" => Ask(r).kind \in {"updateTask", "comment"}
            /\ AfterAccess(Ask(r)) = "target" => Ask(r).kind \in {"addMember", "removeMember"}
            /\ AfterAccess(Ask(r)) = "assignee" =>
                 Ask(r).kind = "createTask" /\ Ask(r).target \in Users
            /\ AfterAccess(Ask(r)) # "inProject"
        BY <2>3 DEF AfterAccess, AllKinds
      <3>. QED BY <1>1, <2>1, <3>1, <3>2 DEF AsksOK, Ask
    <2>5. CASE CheckProject(r)
      <3>1. /\ pc[r] = "project" /\ pc'[r] \in {"access", "assignee", "write", "idle"}
            /\ pc'[r] = "assignee" => Ask(r).target \in Users
        BY <2>2, <2>3, <2>5 DEF CheckProject, AfterProject, Check, Goto
      <3>2. pc'[r] = "assignee" => Ask(r).kind \in {"createTask", "updateTask"}
        <4>1. Ask(r).kind = "comment" => Ask(r).target = "nobody"
          BY <2>1, <3>1 DEF AsksOK
        <4>. QED BY <2>1, <3>1, <4>1, ProjectConstantsOK DEF AsksOK
      <3>. QED BY <1>1, <2>1, <3>1, <3>2 DEF AsksOK, Ask
    <2>6. CASE CheckAssignee(r)
      <3>1. pc[r] = "assignee" /\ pc'[r] \in {"inProject", "idle"}
        BY <2>2, <2>6 DEF CheckAssignee, Check, Goto
      <3>. QED BY <1>1, <2>1, <3>1 DEF AsksOK, Ask
    <2>7. CASE CheckInProject(r) \/ FindTarget(r)
      <3>1. pc'[r] \in {"write", "idle"}
        BY <2>2, <2>7 DEF CheckInProject, FindTarget, Check, Goto
      <3>. QED BY <1>1, <2>1, <3>1 DEF AsksOK, Ask
    <2>. QED BY <1>4, <2>4, <2>5, <2>6, <2>7 DEF Advances
  <1>. QED BY <1>1, <1>2, <1>3, <1>4 DEF RequestMoves

\* The types of ProjectTasks, and that every request asks what its kind allows.
THEOREM ProjectTypes == Spec => []TypeInv
  <1>1. Init => TypeInv
    <2>. SUFFICES ASSUME Init
                  PROVE  TypeInv
      OBVIOUS
    <2>1. RequestsOK /\ AsksOK
      BY DEF Init, RequestsOK, AsksOK, Active
    <2>2. /\ role \in [Users -> Roles \cup {None}] /\ members \in [Users -> Nat \cup {None}]
          /\ tasks \in [Tasks -> Assignees \cup {None}]
      BY ProjectConstantsOK DEF Init
    <2>. QED BY <2>1, <2>2 DEF Init, TypeInv, TypeOK
  <1>2. TypeInv /\ [Next]_vars => TypeInv'
    <2>1. ASSUME TypeInv, Next
          PROVE  TypeOK'
      BY <2>1, ReceiveKeeps, ChecksKeep, WritesKeep, SetRoleKeeps DEF TypeInv, Next, Step
    <2>2. ASSUME TypeInv, UNCHANGED vars
          PROVE  TypeInv'
      BY <2>2 DEF TypeInv, TypeOK, RequestsOK, AsksOK, Ask, vars, tables, bounds, history
    <2>. QED BY <2>1, <2>2, NextAsks DEF TypeInv
  <1>. QED BY <1>1, <1>2, PTL DEF Spec

\* The WHERE clauses of the lists and the checks on one task and one project
\* are the same rule.
THEOREM ListsAreAccess == Spec => []ListsMatchAccess
  <1>1. TypeInv => ListsMatchAccess
    BY ProjectConstantsOK DEF TypeInv, TypeOK, ListsMatchAccess, ListedTasks, ListWhere,
       CanAccessTask, HasProjectAccess, ProjectListed, Roles, AGENCY_ROLES
  <1>. QED BY <1>1, ProjectTypes, PTL

-----------------------------------------------------------------------------
(* Requests nothing has overtaken.                                          *)

Clean(r) == pc[r] \in Active /\ ~req[r].overtaken

Assigns(r) ==
  Ask(r).kind \in {"createTask", "updateTask"} /\ Ask(r).target \notin {"nobody", None}

\* It is past the read that decides whether it may.
Cleared(r) == pc[r] # "access" /\ (pc[r] = "project" => Ask(r).kind # "createTask")

\* What such a request has found to be so still is.
CleanInv ==
  \A r \in Requests : Clean(r) =>
    /\ Ask(r).task # None =>
         tasks[Ask(r).task] = req[r].assignee /\ req[r].assignee # None
    /\ Cleared(r) => Permitted(Ask(r), req[r].assignee)
    /\ pc[r] = "inProject" \/ (pc[r] = "write" /\ Assigns(r)) =>
         role[Ask(r).target] \notin {None, "CLIENT_VIEW"}
    /\ pc[r] = "write" /\ Assigns(r) => members[Ask(r).target] # None
    /\ pc[r] = "write" /\ Ask(r).kind = "addMember" => role[Ask(r).target] # None

\* A step that takes something from a request overtakes it.
LEMMA CleanStays ==
  ASSUME TypeInv, Next, NEW r \in Requests, Clean(r), Stays(r), Clean(r)'
  PROVE  /\ \A u \in {Ask(r).by, Ask(r).target} \cap Users :
              role'[u] = role[u] /\ (members[u] # None => members'[u] # None)
         /\ Ask(r).task # None /\ tasks[Ask(r).task] # None =>
              tasks'[Ask(r).task] = tasks[Ask(r).task]
  <1> USE ProjectConstantsOK DEF TypeInv
  <1>1. /\ role \in [Users -> Roles \cup {None}]
        /\ members \in [Users -> Nat \cup {None}]
        /\ tasks \in [Tasks -> Assignees \cup {None}]
        /\ pc[r] # "idle" /\ r \in InFlight /\ req[r] \in RequestRecs
        /\ lastRow \in Nat
    BY KindsAre DEF TypeOK, Clean, InFlight, Active
  <1>2. ~req'[r].overtaken /\ pc'[r] = pc[r]
    BY DEF Clean, Stays
  <1>3. ASSUME req'[r] = [req[r] EXCEPT !.overtaken = TRUE]
        PROVE  FALSE
    BY <1>1, <1>2, <1>3 DEF RequestRecs
  <1>4. ASSUME NEW q \in Requests, NEW rs, Finish(q, rs)
        PROVE  r \notin rs
    <2>1. pc \in [Requests -> Active \cup {"idle"}]
      BY DEF TypeOK, RequestsOK
    <2>2. q # r
      BY <1>1, <1>2, <1>4, <2>1 DEF Finish
    <2>. QED BY <1>3, <1>4, <2>2 DEF Finish
  <1>5. ASSUME NEW q \in Requests,
               \/ Receive(q) \/ CheckAccess(q) \/ CheckProject(q) \/ CheckAssignee(q)
               \/ CheckInProject(q) \/ FindTarget(q) \/ Fail(q) \/ UpdateProject(q)
               \/ WriteComment(q)
        PROVE  UNCHANGED <<role, members, tasks>>
    BY <1>5 DEF Receive, CheckAccess, CheckProject, CheckAssignee, CheckInProject,
       FindTarget, Fail, UpdateProject, WriteComment, Check, Goto, tables
  <1>6. ASSUME NEW q \in Requests, CreateTask(q)
        PROVE  /\ UNCHANGED <<role, members>>
               /\ \A t \in Tasks : tasks[t] # None => tasks'[t] = tasks[t]
    BY <1>1, <1>6 DEF CreateTask, Assign
  <1>7. ASSUME NEW q \in Requests, UpdateTask(q)
        PROVE  /\ UNCHANGED <<role, members>>
               /\ \A t \in Tasks : t = Ask(r).task => tasks'[t] = tasks[t]
    <2>. SUFFICES ASSUME Ask(q).target # None
                  PROVE  /\ UNCHANGED <<role, members>>
                         /\ \A t \in Tasks : t = Ask(r).task => tasks'[t] = tasks[t]
      BY <1>7 DEF UpdateTask
    <2>1. r \notin On(Ask(q).task)
      BY <1>4, <1>7 DEF UpdateTask
    <2>2. Ask(r).task # Ask(q).task
      BY <1>1, <2>1 DEF On
    <2>. QED BY <1>1, <1>7, <2>2 DEF UpdateTask, Assign
  <1>8. ASSUME NEW q \in Requests, AddMember(q)
        PROVE  /\ UNCHANGED <<role, tasks>>
               /\ \A u \in Users : members[u] # None => members'[u] # None
    BY <1>1, <1>8 DEF AddMember
  <1>9. ASSUME NEW q \in Requests, RemoveMember(q)
        PROVE  /\ UNCHANGED <<role, tasks>>
               /\ \A u \in {Ask(r).by, Ask(r).target} \cap Users : members'[u] = members[u]
    <2>1. r \notin About(Ask(q).target)
      BY <1>4, <1>9 DEF RemoveMember
    <2>2. Ask(q).target \notin {Ask(r).by, Ask(r).target}
      BY <1>1, <2>1 DEF About
    <2>. QED BY <1>1, <1>9, <2>2 DEF RemoveMember
  <1>10. ASSUME NEW q \in Requests, DeleteProject(q)
         PROVE  FALSE
    BY <1>1, <1>4, <1>10 DEF DeleteProject
  <1>11. ASSUME NEW v \in Users, SetRole(v)
         PROVE  /\ UNCHANGED <<members, tasks>>
                /\ \A u \in {Ask(r).by, Ask(r).target} \cap Users : role'[u] = role[u]
    <2>1. r \notin About(v)
      BY <1>3, <1>11 DEF SetRole, Overtake
    <2>2. v \notin {Ask(r).by, Ask(r).target}
      BY <1>1, <2>1 DEF About
    <2>. QED BY <1>1, <1>11, <2>2 DEF SetRole
  <1>12. Ask(r).task \in Tasks \cup {None}
    BY KindsAre DEF Clean, TypeOK
  <1>13. CASE \E q \in Requests : Step(q)
    BY <1>5, <1>6, <1>7, <1>8, <1>9, <1>10, <1>12, <1>13 DEF Step, Write
  <1>14. CASE \E v \in Users : SetRole(v)
    BY <1>11, <1>12, <1>14
  <1>. QED BY <1>13, <1>14 DEF Next

LEMMA NextClean ==
  ASSUME TypeInv, CleanInv, Next
  PROVE  CleanInv'
  <1> USE ProjectConstantsOK DEF TypeInv
  <1>. DEFINE
         TaskIs(r)   == Ask(r).task # None =>
                          tasks[Ask(r).task] = req[r].assignee /\ req[r].assignee # None
         Allowed(r)  == Cleared(r) => Permitted(Ask(r), req[r].assignee)
         RoleIs(r)   == pc[r] = "inProject" \/ (pc[r] = "write" /\ Assigns(r)) =>
                          role[Ask(r).target] \notin {None, "CLIENT_VIEW"}
         MemberIs(r) == pc[r] = "write" /\ Assigns(r) => members[Ask(r).target] # None
         AddedIs(r)  == pc[r] = "write" /\ Ask(r).kind = "addMember" =>
                          role[Ask(r).target] # None
  <1>. SUFFICES ASSUME NEW r \in Requests, Clean(r)'
                PROVE  TaskIs(r)' /\ Allowed(r)' /\ RoleIs(r)' /\ MemberIs(r)' /\ AddedIs(r)'
    BY DEF CleanInv
  <1>1. RequestMoves(r) /\ pc'[r] \in Active /\ pc'[r] # "idle" /\ ~req'[r].overtaken
    BY NextMoves DEF Clean, Active
  <1>2. CASE Receive(r)
    <2>1. /\ pc'[r] \in {"access", "project"} /\ ~Cleared(r)' /\ tasks' = tasks
      BY <1>2, ReceivedAsks DEF tables, First, Cleared, Ask
    <2>2. TaskIs(r)'
      BY <1>2, <2>1, ReceivedAsks DEF Ask
    <2>. QED BY <2>1, <2>2
  <1>3. CASE Stays(r)
    <2>1. pc'[r] = pc[r] /\ req'[r] = req[r] /\ Clean(r) /\ Ask(r)' = Ask(r)
      BY <1>1, <1>3 DEF Stays, Clean, Ask
    <2>2. TaskIs(r) /\ Allowed(r) /\ RoleIs(r) /\ MemberIs(r) /\ AddedIs(r)
      BY <2>1 DEF CleanInv
    <2>3. /\ Ask(r).by \in Users
          /\ Ask(r).kind = "addMember" => Ask(r).target \in Users
          /\ Assigns(r) => Ask(r).target \in Users
      BY <2>1, KindsAre DEF Clean, TypeOK, AsksOK, Assigns, Assignees
    <2>4. /\ role'[Ask(r).by] = role[Ask(r).by]
          /\ members[Ask(r).by] # None => members'[Ask(r).by] # None
      BY <1>3, <2>1, <2>3, CleanStays
    <2>5. Ask(r).target \in Users =>
            /\ role'[Ask(r).target] = role[Ask(r).target]
            /\ members[Ask(r).target] # None => members'[Ask(r).target] # None
      BY <1>3, <2>1, CleanStays
    <2>6. TaskIs(r)'
      <3>1. Ask(r).task # None /\ tasks[Ask(r).task] # None =>
              tasks'[Ask(r).task] = tasks[Ask(r).task]
        BY <1>3, <2>1, CleanStays
      <3>. QED BY <2>1, <2>2, <3>1
    <2>7. Allowed(r)'
      BY <2>1, <2>2, <2>4 DEF Permitted, CanAccessTask, HasProjectAccess, Cleared
    <2>8. RoleIs(r)' /\ MemberIs(r)' /\ AddedIs(r)'
      <3>1. pc[r] = "inProject" => Assigns(r)
        BY <2>1 DEF AsksOK, Assigns, Clean
      <3>2. Assigns(r)' <=> Assigns(r)
        BY <2>1 DEF Assigns
      <3>. QED BY <2>1, <2>2, <2>3, <2>5, <3>1, <3>2
    <2>. QED BY <2>6, <2>7, <2>8
  <1>4. CASE Advances(r)
    <2>1. /\ UNCHANGED <<role, project, members, tasks>> /\ req'[r].assignee = req[r].assignee
          /\ Ask(r)' = Ask(r) /\ ~req[r].overtaken
      BY <1>1, <1>4 DEF Advances, tables, Ask
    <2>2. Clean(r) /\ Ask(r).kind \in AllKinds
      <3>1. pc[r] \in Active
        BY <1>4 DEF Advances, CheckAccess, CheckProject, CheckAssignee, CheckInProject, Check,
           FindTarget, Active
      <3>. QED BY <2>1, <3>1, KindsAre DEF Clean, TypeOK
    <2>3. TaskIs(r) /\ Allowed(r) /\ RoleIs(r)
      BY <2>2 DEF CleanInv
    <2>4. Permitted(Ask(r), req[r].assignee)' <=> Permitted(Ask(r), req[r].assignee)
      BY <2>1 DEF Permitted, CanAccessTask, HasProjectAccess
    <2>5. TaskIs(r)'
      BY <2>1, <2>3
    <2>6. pc \in [Requests -> Active \cup {"idle"}]
      BY DEF TypeOK, RequestsOK
    <2>7. Assigns(r)' <=> Assigns(r)
      BY <2>1 DEF Assigns
    <2>8. CASE CheckAccess(r)
      <3>1. Permitted(Ask(r), req[r].assignee) /\ pc'[r] = AfterAccess(Ask(r))
        BY <1>1, <2>6, <2>8 DEF CheckAccess, Check, Goto
      <3>2. /\ pc'[r] # "inProject"
            /\ pc'[r] = "write" => ~Assigns(r) /\ Ask(r).kind # "addMember"
        BY <2>2, <3>1 DEF AfterAccess, ToWrite, AllKinds, Assigns
      <3>. QED BY <2>1, <2>4, <2>5, <2>7, <3>1, <3>2
    <2>9. CASE CheckProject(r)
      <3>1. /\ pc[r] = "project" /\ pc'[r] \in {"access", "assignee", "write"}
            /\ pc'[r] = "write" => ~Assigns(r)
            /\ pc'[r] # "access" => Cleared(r)
        BY <1>1, <2>6, <2>9
        DEF CheckProject, AfterProject, ToWrite, Check, Goto, Assigns, Cleared
      <3>2. Ask(r).kind # "addMember"
        BY <2>2, <3>1 DEF AsksOK, Clean
      <3>. QED BY <2>1, <2>3, <2>4, <2>5, <2>7, <3>1, <3>2 DEF Cleared
    <2>10. CASE CheckAssignee(r)
      <3>1. /\ pc[r] = "assignee" /\ pc'[r] = "inProject"
            /\ role[Ask(r).target] \notin {None, "CLIENT_VIEW"}
        BY <1>1, <2>6, <2>10 DEF CheckAssignee, Check, Goto
      <3>. QED BY <2>1, <2>3, <2>4, <2>5, <2>7, <3>1 DEF Cleared
    <2>11. CASE CheckInProject(r)
      <3>1. /\ pc[r] = "inProject" /\ pc'[r] = "write" /\ members[Ask(r).target] # None
        BY <1>1, <2>6, <2>11 DEF CheckInProject, Check, Goto
      <3>2. Ask(r).kind # "addMember"
        BY <2>2, <3>1 DEF AsksOK, Clean
      <3>. QED BY <2>1, <2>3, <2>4, <2>5, <2>7, <3>1, <3>2 DEF Cleared
    <2>12. CASE FindTarget(r)
      <3>1. pc[r] = "target" /\ pc'[r] = "write"
            /\ (Ask(r).kind = "addMember" => role[Ask(r).target] # None)
        BY <1>1, <2>6, <2>12 DEF FindTarget, Check, Goto
      <3>2. ~Assigns(r)
        BY <2>2, <3>1 DEF AsksOK, Clean, Assigns
      <3>. QED BY <2>1, <2>3, <2>4, <2>5, <2>7, <3>1, <3>2 DEF Cleared
    <2>. QED BY <1>4, <2>8, <2>9, <2>10, <2>11, <2>12 DEF Advances
  <1>. QED BY <1>1, <1>2, <1>3, <1>4 DEF RequestMoves

\* A request that nothing has overtaken still stands where its checks left it:
\* what they found true of roles, members and assignees is true now.
THEOREM CleanHolds == Spec => []CleanInv
  <1>1. Init => CleanInv
    BY DEF Init, CleanInv, Clean, Active
  <1>2. TypeInv /\ CleanInv /\ [Next]_vars => CleanInv'
    <2>1. ASSUME CleanInv, UNCHANGED vars
          PROVE  CleanInv'
      BY <2>1 DEF CleanInv, Clean, Cleared, Assigns, Ask, Permitted, CanAccessTask,
         HasProjectAccess, vars, tables
    <2>. QED BY <2>1, NextClean
  <1>. QED BY <1>1, <1>2, ProjectTypes, PTL DEF Spec

\* Whoever is about to write may, or could when the request began and lost the
\* right while it was in flight.
THEOREM WritesAreAllowed == Spec => []WritesWereAllowed
  <1>1. TypeInv /\ CleanInv => WritesWereAllowed
    <2>. SUFFICES ASSUME TypeInv, CleanInv, NEW r \in Requests, pc[r] = "write",
                         ~req[r].overtaken
                  PROVE  LET t == Ask(r).task IN
                         Permitted(Ask(r), IF t # None /\ tasks[t] # None THEN tasks[t]
                                           ELSE req[r].assignee)
      BY DEF WritesWereAllowed
    <2>1. Clean(r)
      BY DEF Clean, Active
    <2>. QED BY <2>1 DEF CleanInv, Cleared
  <1>. QED BY <1>1, ProjectTypes, CleanHolds, PTL

LEMMA NextStrays ==
  ASSUME TypeInv, CleanInv, StrayRowsHaveCause, Next
  PROVE  StrayRowsHaveCause'
  <1> USE ProjectConstantsOK DEF TypeInv
  <1>1. /\ role \in [Users -> Roles \cup {None}]
        /\ members \in [Users -> Nat \cup {None}]
        /\ tasks \in [Tasks -> Assignees \cup {None}]
        /\ lastRow \in Nat
    BY DEF TypeOK
  <1>2. ASSUME NEW r \in Requests,
               \/ Receive(r) \/ CheckAccess(r) \/ CheckProject(r) \/ CheckAssignee(r)
               \/ CheckInProject(r) \/ FindTarget(r) \/ Fail(r) \/ UpdateProject(r)
               \/ WriteComment(r)
        PROVE  UNCHANGED <<role, members, tasks, strayed, behind>>
    BY <1>2 DEF Receive, CheckAccess, CheckProject, CheckAssignee, CheckInProject,
       FindTarget, Fail, UpdateProject, WriteComment, Check, Goto, tables, history
  <1>3. UNCHANGED <<role, members, tasks, strayed, behind>> => StrayRowsHaveCause'
    BY DEF StrayRowsHaveCause, MayBeAssigned
  <1>4. ASSUME NEW r \in Requests, NEW t \in Tasks, Assign(r, t), pc[r] = "write",
               Ask(r).kind \in {"createTask", "updateTask"}, Ask(r).target # None,
               UNCHANGED <<role, members, behind>>
        PROVE  StrayRowsHaveCause'
    <2>1. ~req[r].overtaken /\ Ask(r).target # "nobody" => MayBeAssigned(Ask(r).target)
      <3>1. ~req[r].overtaken => Clean(r)
        BY <1>4 DEF Clean, Active
      <3>. QED BY <1>4, <3>1 DEF CleanInv, MayBeAssigned, Assigns
    <2>2. tasks'[t] = Ask(r).target /\ \A x \in Tasks \ {t} : tasks'[x] = tasks[x]
      BY <1>1, <1>4 DEF Assign
    <2>3. \A x \in Tasks \ {t} : x \in strayed => x \in strayed'
      BY <1>4 DEF Assign
    <2>4. Ask(r).target \in Users /\ ~MayBeAssigned(Ask(r).target) => t \in strayed'
      BY <1>4, <2>1 DEF Assign
    <2>5. \A u : MayBeAssigned(u)' <=> MayBeAssigned(u)
      BY <1>4 DEF MayBeAssigned
    <2>. QED BY <1>4, <2>2, <2>3, <2>4, <2>5 DEF StrayRowsHaveCause
  <1>5. ASSUME NEW r \in Requests, CreateTask(r)
        PROVE  StrayRowsHaveCause'
    <2>1. Ask(r).target # None
      BY <1>5 DEF CreateTask, Writes, AsksOK, Active
    <2>. QED BY <1>4, <1>5, <2>1 DEF CreateTask, Writes
  <1>6. ASSUME NEW r \in Requests, UpdateTask(r)
        PROVE  StrayRowsHaveCause'
    <2>1. Ask(r).task \in Tasks
      BY <1>6, KindsAre DEF UpdateTask, Writes, TypeOK, AsksOK, Active
    <2>. QED BY <1>3, <1>4, <1>6, <2>1 DEF UpdateTask, Writes
  <1>7. ASSUME NEW r \in Requests, AddMember(r)
        PROVE  StrayRowsHaveCause'
    <2>1. ~req[r].overtaken => role[Ask(r).target] # None
      BY <1>7 DEF AddMember, Writes, CleanInv, Clean, Active
    <2>2. \A u \in Users : u # Ask(r).target => members'[u] = members[u]
      BY <1>1, <1>7 DEF AddMember
    <2>3. \A u \in Users : MayBeAssigned(u) => MayBeAssigned(u)'
      BY <1>1, <1>7 DEF AddMember, MayBeAssigned
    <2>. QED BY <1>7, <2>1, <2>2, <2>3 DEF AddMember, StrayRowsHaveCause
  <1>8. ASSUME NEW r \in Requests, RemoveMember(r)
        PROVE  StrayRowsHaveCause'
    <2>1. \A u \in Users : u # Ask(r).target =>
            members'[u] = members[u] /\ (MayBeAssigned(u)' <=> MayBeAssigned(u))
      BY <1>1, <1>8 DEF RemoveMember, MayBeAssigned
    <2>2. Ask(r).target \in Users => members'[Ask(r).target] = None
      BY <1>1, <1>8 DEF RemoveMember
    <2>. QED BY <1>8, <2>1, <2>2 DEF RemoveMember, AssignedTo, StrayRowsHaveCause
  <1>9. ASSUME NEW r \in Requests, DeleteProject(r)
        PROVE  StrayRowsHaveCause'
    BY <1>9 DEF DeleteProject, StrayRowsHaveCause
  <1>10. ASSUME NEW v \in Users, SetRole(v)
         PROVE  StrayRowsHaveCause'
    <2>1. \A u \in Users : u # v => role'[u] = role[u] /\ (MayBeAssigned(u)' <=> MayBeAssigned(u))
      BY <1>1, <1>10 DEF SetRole, MayBeAssigned
    <2>2. MayBeAssigned(v) /\ ~MayBeAssigned(v)' => role'[v] \in {None, "CLIENT_VIEW"}
      BY <1>1, <1>10 DEF SetRole, MayBeAssigned
    <2>. QED BY <1>10, <2>1, <2>2 DEF SetRole, AssignedTo, StrayRowsHaveCause
  <1>. QED
    BY <1>2, <1>3, <1>5, <1>6, <1>7, <1>8, <1>9, <1>10 DEF Next, Step, Write

\* An assignee who could not be assigned now, and a project row of a stranger to
\* the workspace, were left behind by a removal, a demotion or a late write.
THEOREM StrayRowsAreExplained == Spec => []StrayRowsHaveCause
  <1>1. Init => StrayRowsHaveCause
    BY ProjectConstantsOK DEF Init, StrayRowsHaveCause
  <1>2. TypeInv /\ CleanInv /\ StrayRowsHaveCause /\ [Next]_vars => StrayRowsHaveCause'
    <2>1. ASSUME StrayRowsHaveCause, UNCHANGED vars
          PROVE  StrayRowsHaveCause'
      BY <2>1 DEF StrayRowsHaveCause, MayBeAssigned, vars, tables, history
    <2>. QED BY <2>1, NextStrays
  <1>. QED BY <1>1, <1>2, ProjectTypes, CleanHolds, PTL DEF Spec
=============================================================================
