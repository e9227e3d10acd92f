--------------------------- MODULE WebPagesProofs ---------------------------
(***************************************************************************)
(* Proofs about the task page and the project page (WebPages): what a save *)
(* sends of the due date, which status a move is asked for in, and why a   *)
(* query of the page may hold old data.                                    *)
(***************************************************************************)
EXTENDS WebPages, SequenceTheorems, TLAPS

-----------------------------------------------------------------------------
(* Types.                                                                  *)

DueValues == Dues \cup {None}
Assignees == Staff \cup {"nobody"}
Answers == {None, "ok", "refused", "lost"}

Forms ==
  [editing : BOOLEAN, due : DueValues, assignee : Assignees, touched : BOOLEAN,
   moved : BOOLEAN, panel : BOOLEAN,
   asked : {None} \cup [to : {"PRODUCTION"}, seen : Statuses, late : BOOLEAN],
   chosen : SUBSET Clients, bell : BOOLEAN]

\* The requests each mutation is put together of.
Asks(k) ==
  CASE k = "save"   -> {"add", "update", "due"}
    [] k = "create" -> {"add", "create"}
    [] OTHER        -> {k}

Asked(k) ==
  {r \in Requests : /\ r.req \in Asks(k)
                    /\ k \in {"save", "create"} /\ r.req = "add" => r.who \in Staff}

JobRecs(k) ==
  [todo : Seq(Asked(k)) \ {<< >>}, answer : Answers, made : BOOLEAN, touched : BOOLEAN,
   moved : BOOLEAN, seen : Statuses, late : BOOLEAN]

\* What the forms need to know of the data of a query.
Data(q, d) ==
  /\ q = "task" => d \in [status : Statuses, due : DueValues, assignee : Assignees]
  /\ q = "transitions" => d \in Statuses

\* The queries that are switched off only with the page.
Steady(q) == q \notin {"list", "outside"}

QueriesOK ==
  /\ DOMAIN cache = Queries /\ DOMAIN fetch = Queries /\ DOMAIN cause = Queries
  /\ marked \subseteq Queries
  /\ \A q \in Queries : /\ Data(q, cache[q])
                        /\ fetch[q] # None => Data(q, fetch[q]) /\ (Enabled(q) \/ ~Steady(q))

JobsOK ==
  /\ DOMAIN job = Mutations
  /\ \A k \in Mutations : job[k] # None => k \in visit.acts /\ job[k] \in JobRecs(k)

BoundsOK == acts \in 0..MaxActs /\ others \in 0..MaxOthers /\ faults \in 0..MaxFaults

WebTypeOK ==
  /\ visit \in Visits /\ db \in Rows /\ form \in Forms /\ broken \in BOOLEAN
  /\ QueriesOK /\ JobsOK /\ BoundsOK

-----------------------------------------------------------------------------
(* The rows, and what a GET answers of them.                               *)

LEMMA SeeIs ==
  ASSUME NEW rows
  PROVE  /\ See(rows, "task") = [status |-> rows.status, due |-> rows.due,
                                 assignee |-> rows.assignee]
         /\ See(rows, "transitions") = rows.status
         /\ See(rows, "comments") = rows.comments
         /\ See(rows, "members") = rows.project
         /\ See(rows, "outside") = Clients \ rows.project
         /\ See(rows, "tasks") = rows.tasks
         /\ See(rows, "count") = Cardinality(rows.unread)
         /\ See(rows, "list") = rows.unread
  BY DEF See

LEMMA SeeData ==
  ASSUME NEW rows \in Rows, NEW q \in Queries
  PROVE  Data(q, See(rows, q))
  BY SeeIs DEF Rows, Data, DueValues, Assignees

LEMMA SteadyIsEnabled ==
  ASSUME NEW q \in Queries, Steady(q), visit' = visit
  PROVE  Enabled(q) <=> Enabled(q)'
  BY DEF Steady, Enabled, Agency, Queries

\* The kinds of requests.
LEMMA RequestKinds ==
  ASSUME NEW r \in Requests
  PROVE  /\ r.req \in {"add", "remove", "update", "create", "comment", "readAll", "move",
                       "read", "due"}
         /\ r.req \in {"add", "remove"} => r.who \in People
         /\ r.req \in {"update", "create"} => r.who \in Assignees
         /\ r.req = "move" => r.to \in Statuses /\ r.clients \subseteq Clients
         /\ r.req = "read" => r.notice \in 0..MaxOthers
         /\ r.req = "due" => r.due \in DueValues
  BY DEF Requests, Assignees, DueValues

LEMMA MovedIs ==
  ASSUME NEW rows \in Rows, NEW to \in Statuses, NEW clients \in SUBSET Clients
  PROVE  /\ Moved(rows, to, clients) \in Rows
         /\ Moved(rows, to, clients).status = to
         /\ Moved(rows, to, clients).due = rows.due
         /\ Moved(rows, to, clients).assignee = rows.assignee
         /\ Moved(rows, to, clients).tasks = rows.tasks
         /\ Moved(rows, to, clients).unread = rows.unread
  <1>. DEFINE comments == IF RequiresComment(rows.status, to) THEN rows.comments + 1
                          ELSE rows.comments
              project == rows.project \cup clients
  <1>1. comments \in Nat /\ project \in SUBSET People
    BY DEF Rows, People
  <1>2. Moved(rows, to, clients) =
          [rows EXCEPT !.status = to, !.project = project, !.comments = comments]
    BY DEF Moved
  <1>. HIDE DEF comments, project
  <1>. QED BY <1>1, <1>2 DEF Rows

\* What a request makes of the rows, field by field.
LEMMA AfterIs ==
  ASSUME db \in Rows, NEW r \in Requests
  PROVE  /\ After(r) \in Rows
         /\ r.req # "move" => After(r).status = db.status
         /\ r.req # "due" => After(r).due = db.due
         /\ r.req # "update" => After(r).assignee = db.assignee
         /\ r.req \notin {"add", "remove", "move"} => After(r).project = db.project
         /\ r.req = "add" => After(r).project = db.project \cup {r.who}
         /\ r.req \notin {"comment", "move"} => After(r).comments = db.comments
         /\ r.req # "create" => After(r).tasks = db.tasks
         /\ r.req \notin {"read", "readAll"} => After(r).unread = db.unread
         /\ r.req = "move" => After(r).status = r.to
  <1>. USE RequestKinds DEF Rows, People
  <1>1. CASE r.req = "add"
    <2>1. After(r) = [db EXCEPT !.project = @ \cup {r.who}]
      BY <1>1 DEF After
    <2>. QED BY <1>1, <2>1
  <1>2. CASE r.req = "remove"
    <2>1. After(r) = [db EXCEPT !.project = @ \ {r.who}]
      BY <1>2 DEF After
    <2>. QED BY <1>2, <2>1
  <1>3. CASE r.req = "update"
    <2>1. After(r) = [db EXCEPT !.assignee = r.who]
      BY <1>3 DEF After
    <2>. QED BY <1>3, <2>1 DEF Assignees
  <1>4. CASE r.req = "create"
    <2>1. After(r) = [db EXCEPT !.tasks = @ + 1]
      BY <1>4 DEF After
    <2>. QED BY <1>4, <2>1
  <1>5. CASE r.req = "due"
    <2>1. After(r) = [db EXCEPT !.due = r.due]
      BY <1>5 DEF After
    <2>. QED BY <1>5, <2>1 DEF DueValues
  <1>6. CASE r.req = "comment"
    <2>1. After(r) = [db EXCEPT !.comments = @ + 1]
      BY <1>6 DEF After
    <2>. QED BY <1>6, <2>1
  <1>7. CASE r.req = "read"
    <2>1. After(r) = [db EXCEPT !.unread = @ \ {r.notice}]
      BY <1>7 DEF After
    <2>. QED BY <1>7, <2>1
  <1>8. CASE r.req = "readAll"
    <2>1. After(r) = [db EXCEPT !.unread = {}]
      BY <1>8 DEF After
    <2>. QED BY <1>8, <2>1
  <1>9. CASE r.req = "move"
    <2>1. After(r) = IF r.to = db.status THEN db ELSE Moved(db, r.to, r.clients)
      BY <1>9 DEF After
    <2>. QED BY <1>9, <2>1, MovedIs
  <1>. QED BY <1>1, <1>2, <1>3, <1>4, <1>5, <1>6, <1>7, <1>8, <1>9

-----------------------------------------------------------------------------
(* The requests of a mutation.                                             *)

LEMMA JobIsNotNone ==
  ASSUME NEW k \in Mutations, NEW j \in JobRecs(k)
  PROVE  j # None /\ j \in Jobs /\ j.todo # << >>
  <1>1. Asked(k) \subseteq Requests
    BY DEF Asked
  <1>2. j.todo \in Seq(Requests) /\ j.todo # << >>
    BY <1>1 DEF JobRecs
  <1>3. j \in Jobs
    BY <1>2 DEF JobRecs, Jobs, Answers
  <1>. QED BY <1>2, <1>3, NoneIsNoJob

LEMMA AskedFor ==
  /\ \A a \in Staff : Request("add", a) \in Asked("save") \cap Asked("create")
  /\ \A a \in Assignees : /\ Request("update", a) \in Asked("save")
                          /\ Request("create", a) \in Asked("create")
  /\ \A d \in DueValues : DueOn(d) \in Asked("save") \cap Asked("due")
  /\ \A p \in People : /\ Request("add", p) \in Asked("add")
                       /\ Request("remove", p) \in Asked("remove")
  /\ Request("comment", None) \in Asked("comment")
  /\ Request("readAll", None) \in Asked("readAll")
  /\ \A to \in Statuses, clients \in SUBSET Clients, comment \in BOOLEAN :
       MoveTo(to, clients, comment) \in Asked("move")
  /\ \A n \in 0..MaxOthers : [req |-> "read", notice |-> n] \in Asked("read")
  <1>. USE DEF Asked, Asks, Requests, People
  <1>1. \A a \in Staff : Request("add", a) \in Asked("save") \cap Asked("create")
    BY DEF Request
  <1>2. \A a \in Assignees : /\ Request("update", a) \in Asked("save")
                             /\ Request("create", a) \in Asked("create")
    BY DEF Request, Assignees
  <1>3. \A d \in DueValues : DueOn(d) \in Asked("save") \cap Asked("due")
    BY DEF DueOn, DueValues
  <1>4. \A p \in People : /\ Request("add", p) \in Asked("add")
                          /\ Request("remove", p) \in Asked("remove")
    BY DEF Request
  <1>5. /\ Request("comment", None) \in Asked("comment")
        /\ Request("readAll", None) \in Asked("readAll")
    BY DEF Request
  <1>6. \A to \in Statuses, clients \in SUBSET Clients, comment \in BOOLEAN :
          MoveTo(to, clients, comment) \in Asked("move")
    BY DEF MoveTo
  <1>7. \A n \in 0..MaxOthers : [req |-> "read", notice |-> n] \in Asked("read")
    OBVIOUS
  <1>. QED BY <1>1, <1>2, <1>3, <1>4, <1>5, <1>6, <1>7

LEMMA OneRequest ==
  ASSUME NEW S, NEW r \in S
  PROVE  <<r>> \in Seq(S) \ {<< >>} /\ Len(<<r>>) = 1 /\ <<r>>[1] = r
  OBVIOUS

LEMMA EnsureAssigneeIs ==
  ASSUME NEW a \in Assignees
  PROVE  \/ EnsureAssignee(a) = << >>
         \/ a \in Staff /\ EnsureAssignee(a) = <<Request("add", a)>>
  BY DEF EnsureAssignee, Assignees

\* The assignee is added first, or not: then comes what was asked for.
LEMMA StartRequests ==
  ASSUME NEW S, NEW a \in Assignees, NEW r \in S, a \in Staff => Request("add", a) \in S
  PROVE  EnsureAssignee(a) \o <<r>> \in Seq(S) \ {<< >>}
  <1>1. EnsureAssignee(a) \in Seq(S)
    <2>1. CASE EnsureAssignee(a) = << >>
      BY <2>1
    <2>2. CASE a \in Staff /\ EnsureAssignee(a) = <<Request("add", a)>>
      <3>. DEFINE first == Request("add", a)
      <3>1. first \in S
        BY <2>2
      <3>. HIDE DEF first
      <3>2. <<first>> \in Seq(S)
        BY <3>1
      <3>. QED BY <2>2, <3>2 DEF first
    <2>. QED BY <2>1, <2>2, EnsureAssigneeIs
  <1>2. <<r>> \in Seq(S) /\ Len(<<r>>) = 1
    OBVIOUS
  <1>. DEFINE first == EnsureAssignee(a)
              sent == <<r>>
  <1>3. first \o sent \in Seq(S) /\ Len(first \o sent) = Len(first) + 1
    BY <1>1, <1>2
  <1>4. Len(first) \in Nat
    BY <1>1
  <1>. QED BY <1>3, <1>4

\* A save sends a due date after that, or nothing more.
LEMMA MoreRequests ==
  ASSUME NEW S, NEW first \in Seq(S) \ {<< >>}, NEW last \in Seq(S)
  PROVE  first \o last \in Seq(S) \ {<< >>}
  <1>1. first \o last \in Seq(S) /\ Len(first \o last) = Len(first) + Len(last)
    OBVIOUS
  <1>2. Len(first) \in Nat \ {0} /\ Len(last) \in Nat
    OBVIOUS
  <1>. QED BY <1>1, <1>2

LEMMA QueriesStay ==
  ASSUME QueriesOK, UNCHANGED <<visit, cache, fetch, marked>>, DOMAIN cause' = Queries
  PROVE  QueriesOK'
  BY SteadyIsEnabled DEF QueriesOK

\* A button starts a mutation.
LEMMA SendTypes ==
  ASSUME WebTypeOK, NEW k \in Mutations, NEW requests \in Seq(Asked(k)) \ {<< >>},
         Ready(k), Send(k, requests)
  PROVE  QueriesOK' /\ JobsOK' /\ BoundsOK'
  <1>. DEFINE j == [todo |-> requests, answer |-> None, made |-> FALSE,
                    touched |-> form.touched, moved |-> form.moved,
                    seen |-> cache["transitions"],
                    late |-> cache["transitions"] # db.status]
  <1>1. j \in JobRecs(k)
    BY DEF JobRecs, Answers, WebTypeOK, Forms, QueriesOK, Data, Queries
  <1>2. job' = [job EXCEPT ![k] = j] /\ UNCHANGED <<visit, cache, fetch, marked, cause>>
    BY DEF Send
  <1>3. JobsOK'
    BY <1>1, <1>2 DEF WebTypeOK, JobsOK, Ready
  <1>4. QueriesOK'
    BY <1>2, QueriesStay DEF WebTypeOK, QueriesOK
  <1>5. BoundsOK'
    BY WebConstantsOK DEF Send, Ready, WebTypeOK, BoundsOK
  <1>. QED BY <1>3, <1>4, <1>5

\* A button of the offers leads to another status; it asks for a comment only on
\* the way back to production.
LEMMA OfferIs ==
  ASSUME NEW o \in Offers
  PROVE  /\ o.to \in Statuses /\ o.to # cache["transitions"]
         /\ o.requiresComment => o.to = "PRODUCTION"
  <1>. DEFINE from == cache["transitions"]
  <1>1. PICK to \in GetAllowedTargetStatuses(visit.role, from) :
          o = [to |-> to, requiresComment |-> RequiresComment(from, to)]
    BY DEF Offers, BuildAllowedTransitionTargets
  <1>2. PICK rule \in TRANSITION_RULES : rule.from = from /\ to = rule.to
    BY <1>1 DEF GetAllowedTargetStatuses
  <1>3. rule.to \in Statuses /\ rule.from # rule.to
    BY DEF TRANSITION_RULES, Rule, Statuses
  <1>. QED BY <1>1, <1>2, <1>3 DEF RequiresComment

-----------------------------------------------------------------------------
(* Every step keeps the types.                                             *)

LEMMA FillTypes ==
  ASSUME WebTypeOK, NEW new \in Forms, Fill(new)
  PROVE  WebTypeOK'
  BY QueriesStay DEF Fill, WebTypeOK, QueriesOK, JobsOK, bounds, BoundsOK

LEMMA UserTypes ==
  ASSUME WebTypeOK, User
  PROVE  WebTypeOK'
  <1>typed. form \in Forms /\ cache["transitions"] \in Statuses
    BY DEF WebTypeOK, QueriesOK, Data, Queries
  <1>sent. ASSUME NEW k \in Mutations, NEW requests \in Seq(Asked(k)) \ {<< >>},
                  Ready(k), Send(k, requests), form' \in Forms
           PROVE  WebTypeOK'
    BY <1>sent, SendTypes DEF WebTypeOK, Send
  <1>1. ASSUME NEW c \in Clients, ToggleClient(c) PROVE WebTypeOK'
    <2>. DEFINE new == [form EXCEPT !.chosen = IF c \in @ THEN @ \ {c} ELSE @ \cup {c}]
    <2>1. new \in Forms
      BY <1>typed DEF Forms
    <2>. QED BY <1>1, <2>1, FillTypes DEF ToggleClient
  <1>2. ASSUME NEW o \in Offers, HandleTransition(o) PROVE WebTypeOK'
    <2>1. CASE o.requiresComment
      <3>. DEFINE asked == [to |-> o.to, seen |-> cache["transitions"],
                            late |-> cache["transitions"] # db.status]
      <3>1. asked \in [to : {"PRODUCTION"}, seen : Statuses, late : BOOLEAN]
        BY <1>typed, <2>1, OfferIs
      <3>2. [form EXCEPT !.asked = asked] \in Forms
        BY <1>typed, <3>1 DEF Forms
      <3>. QED BY <1>2, <2>1, <3>2, FillTypes DEF HandleTransition
    <2>2. CASE ~o.requiresComment
      <3>. DEFINE clients == IF o.to = "CLIENT_HANDOFF" THEN form.chosen ELSE {}
      <3>1. MoveTo(o.to, clients, FALSE) \in Asked("move")
        BY <1>typed, OfferIs, AskedFor DEF Forms
      <3>2. Ready("move") /\ Send("move", <<MoveTo(o.to, clients, FALSE)>>) /\ form' = form
        BY <1>2, <2>2 DEF HandleTransition
      <3>. QED BY <1>typed, <1>sent, <3>1, <3>2, OneRequest DEF Mutations
    <2>. QED BY <2>1, <2>2
  <1>3. CASE HandleTransitionWithComment
    <2>. DEFINE j == [todo |-> <<MoveTo(form.asked.to, {}, TRUE)>>, answer |-> None,
                      made |-> FALSE, touched |-> FALSE, moved |-> FALSE,
                      seen |-> form.asked.seen, late |-> form.asked.late]
    <2>1. form.asked \in [to : {"PRODUCTION"}, seen : Statuses, late : BOOLEAN]
      BY <1>3, <1>typed DEF HandleTransitionWithComment, Forms
    <2>2. MoveTo(form.asked.to, {}, TRUE) \in Asked("move")
      BY <2>1, AskedFor DEF Statuses
    <2>3. <<MoveTo(form.asked.to, {}, TRUE)>> \in Seq(Asked("move")) \ {<< >>}
      BY <2>2, OneRequest
    <2>4. j \in JobRecs("move")
      BY <2>1, <2>3 DEF JobRecs, Answers
    <2>5. job' = [job EXCEPT !["move"] = j] /\ "move" \in visit.acts /\ acts < MaxActs
      BY <1>3 DEF HandleTransitionWithComment, Ready
    <2>6. JobsOK'
      BY <1>3, <2>4, <2>5 DEF HandleTransitionWithComment, WebTypeOK, JobsOK, Mutations
    <2>7. BoundsOK'
      BY <1>3, <2>5, WebConstantsOK DEF HandleTransitionWithComment, WebTypeOK, BoundsOK
    <2>. QED BY <1>3, <2>6, <2>7, QueriesStay
             DEF HandleTransitionWithComment, WebTypeOK, QueriesOK
  <1>4. CASE CancelPendingTransition
    <2>1. [form EXCEPT !.asked = None] \in Forms
      BY <1>typed DEF Forms
    <2>. QED BY <1>4, <2>1, FillTypes DEF CancelPendingTransition
  <1>5. CASE OpenDueDateForm \/ CancelDueDateForm
    <2>1. [form EXCEPT !.panel = TRUE] \in Forms /\ [form EXCEPT !.panel = FALSE] \in Forms
      BY <1>typed DEF Forms
    <2>. QED BY <1>5, <2>1, FillTypes DEF OpenDueDateForm, CancelDueDateForm
  <1>6. ASSUME NEW d \in Dues, HandleQuickDueSubmit(d) PROVE WebTypeOK'
    <2>1. DueOn(d) \in Asked("due")
      BY AskedFor DEF DueValues
    <2>. QED BY <1>6, <1>typed, <1>sent, <2>1, OneRequest DEF HandleQuickDueSubmit, Mutations
  <1>7. CASE StartEditing
    <2>. DEFINE task == cache["task"]
    <2>1. task.due \in DueValues /\ task.assignee \in Assignees
      BY DEF WebTypeOK, QueriesOK, Data, Queries
    <2>2. DueOutdated \in BOOLEAN
      BY DEF DueOutdated
    <2>3. [form EXCEPT !.editing = TRUE, !.due = task.due, !.assignee = task.assignee,
                       !.touched = FALSE, !.moved = DueOutdated] \in Forms
      BY <1>typed, <2>1, <2>2 DEF Forms
    <2>. QED BY <1>7, <2>3, FillTypes DEF StartEditing
  <1>8. CASE EditTask
    <2>1. \A a \in Assignees : [form EXCEPT !.assignee = a] \in Forms
      BY <1>typed DEF Forms
    <2>2. \A d \in DueValues : [form EXCEPT !.due = d, !.touched = TRUE] \in Forms
      BY <1>typed DEF Forms
    <2>. QED BY <1>8, <2>1, <2>2, FillTypes DEF EditTask, Assignees, DueValues
  <1>9. CASE CancelEditing
    <2>1. [Closed(form) EXCEPT !.panel = FALSE] \in Forms
      BY <1>typed DEF Forms, Closed, DueValues, Assignees
    <2>. QED BY <1>9, <2>1, FillTypes DEF CancelEditing
  <1>10. CASE SaveEdit
    <2>. DEFINE a == form.assignee
                dueSent == <<DueOn(form.due)>>
    <2>1. a \in Assignees /\ form.due \in DueValues
      BY <1>typed DEF Forms
    <2>2. dueSent \in Seq(Asked("save")) /\ << >> \in Seq(Asked("save"))
      BY <2>1, AskedFor, OneRequest
    <2>3. /\ Request("update", a) \in Asked("save")
          /\ a \in Staff => Request("add", a) \in Asked("save")
      BY <2>1, AskedFor
    <2>4. \A last \in {dueSent, << >>} :
            EnsureAssignee(a) \o <<Request("update", a)>> \o last
              \in Seq(Asked("save")) \ {<< >>}
      BY <2>1, <2>2, <2>3, StartRequests, MoreRequests
    <2>5. PICK last \in {dueSent, << >>} :
            Send("save", EnsureAssignee(a) \o <<Request("update", a)>> \o last)
      BY <1>10 DEF SaveEdit
    <2>. QED BY <1>10, <1>typed, <1>sent, <2>4, <2>5 DEF SaveEdit, Mutations
  <1>11. ASSUME NEW a \in Assignees, CreateTask(a) PROVE WebTypeOK'
    <2>1. /\ Request("create", a) \in Asked("create")
          /\ a \in Staff => Request("add", a) \in Asked("create")
      BY AskedFor
    <2>2. EnsureAssignee(a) \o <<Request("create", a)>> \in Seq(Asked("create")) \ {<< >>}
      BY <2>1, StartRequests
    <2>. QED BY <1>11, <1>typed, <1>sent, <2>2 DEF CreateTask, Mutations
  <1>12. ASSUME NEW p \in People, AddProjectMember(p) \/ RemoveProjectMember(p)
         PROVE  WebTypeOK'
    <2>1. /\ <<Request("add", p)>> \in Seq(Asked("add")) \ {<< >>}
          /\ <<Request("remove", p)>> \in Seq(Asked("remove")) \ {<< >>}
      BY AskedFor, OneRequest
    <2>. QED BY <1>12, <1>typed, <1>sent, <2>1
             DEF AddProjectMember, RemoveProjectMember, Mutations
  <1>13. CASE AddComment
    <2>1. <<Request("comment", None)>> \in Seq(Asked("comment")) \ {<< >>}
      BY AskedFor, OneRequest
    <2>. QED BY <1>13, <1>typed, <1>sent, <2>1 DEF AddComment, Mutations
  <1>14. CASE ToggleBell
    <2>1. form' \in Forms
      BY <1>14, <1>typed DEF ToggleBell, Forms
    <2>2. BoundsOK'
      BY <1>14, WebConstantsOK DEF ToggleBell, WebTypeOK, BoundsOK
    <2>. QED BY <1>14, <2>1, <2>2, QueriesStay DEF ToggleBell, WebTypeOK, QueriesOK, JobsOK
  <1>15. CASE MarkAllRead
    <2>1. <<Request("readAll", None)>> \in Seq(Asked("readAll")) \ {<< >>}
      BY AskedFor, OneRequest
    <2>. QED BY <1>15, <1>typed, <1>sent, <2>1 DEF MarkAllRead, Mutations
  <1>16. ASSUME NEW n \in 0..MaxOthers, MarkRead(n) PROVE WebTypeOK'
    <2>1. <<[req |-> "read", notice |-> n]>> \in Seq(Asked("read")) \ {<< >>}
      BY AskedFor, OneRequest
    <2>2. form' \in Forms
      BY <1>16, <1>typed DEF MarkRead, Forms
    <2>. QED BY <1>16, <1>sent, <2>1, <2>2 DEF MarkRead, Mutations
  <1>. QED BY <1>1, <1>2, <1>3, <1>4, <1>5, <1>6, <1>7, <1>8, <1>9, <1>10, <1>11, <1>12,
              <1>13, <1>14, <1>15, <1>16 DEF User, Assignees

\* What others do to the rows.
LEMMA ByOthersIs ==
  ASSUME db \in Rows, NEW field \in Fields, NEW rows \in ByOthers(field)
  PROVE  rows \in Rows
  <1>1. CASE field = "status"
    BY <1>1, MovedIs DEF ByOthers
  <1>2. CASE field = "due"
    BY <1>2 DEF ByOthers, Rows
  <1>3. CASE field = "assignee"
    BY <1>3 DEF ByOthers, Rows
  <1>4. CASE field = "project"
    BY <1>4 DEF ByOthers, Rows
  <1>5. CASE field = "comments"
    BY <1>5 DEF ByOthers, Rows
  <1>6. CASE field = "tasks"
    BY <1>6 DEF ByOthers, Rows
  <1>. QED BY <1>1, <1>2, <1>3, <1>4, <1>5, <1>6 DEF Fields

LEMMA OthersCount ==
  ASSUME WebTypeOK, OthersAct
  PROVE  others' \in 0..MaxOthers
  <1>1. others < MaxOthers /\ others' = others + 1
    BY DEF OthersAct
  <1>2. others \in Nat /\ MaxOthers \in Nat
    BY WebConstantsOK DEF WebTypeOK, BoundsOK
  <1>. QED BY <1>1, <1>2

\* The rows others leave, with the bell they may ring; the forms and the
\* mutations under way learn of it.
LEMMA OthersActIs ==
  ASSUME WebTypeOK, OthersAct
  PROVE  /\ db' \in Rows
         /\ form' = [form EXCEPT !.moved = @ \/ (form.editing /\ db'.due # db.due),
                                 !.asked = IF @ = None \/ db'.status = db.status THEN @
                                           ELSE [@ EXCEPT !.late = TRUE]]
         /\ job' = [k \in Mutations |->
              IF job[k] = None THEN None
              ELSE [job[k] EXCEPT !.moved = @ \/ db'.due # db.due,
                                  !.late = @ \/ db'.status # db.status]]
         /\ Blame("others", db')
  <1>1. PICK rows \in UNION {ByOthers(field) : field \in visit.others} :
          LET rung == IF rows.status = "CLIENT_HANDOFF" /\ db.status # "CLIENT_HANDOFF"
                      THEN rows ELSE [rows EXCEPT !.unread = @ \cup {others'}]
              late(x) == x = None \/ rows.status = db.status IN
          /\ db' = rung
          /\ Blame("others", rung)
          /\ form' = IF late(form.asked) THEN FormAfter(rows)
                     ELSE [FormAfter(rows) EXCEPT !.asked.late = TRUE]
          /\ job' = [k \in Mutations |->
               IF job[k] = None THEN None
               ELSE [job[k] EXCEPT !.moved = @ \/ rows.due # db.due,
                                   !.late = @ \/ rows.status # db.status]]
    BY DEF OthersAct
  <1>2. rows \in Rows
    <2>1. PICK field \in visit.others : rows \in ByOthers(field)
      BY <1>1
    <2>2. field \in Fields
      BY WebConstantsOK DEF WebTypeOK
    <2>. QED BY <2>1, <2>2, ByOthersIs DEF WebTypeOK
  <1>3. others' \in 0..MaxOthers
    BY OthersCount
  <1>4. [rows EXCEPT !.unread = @ \cup {others'}] \in Rows
    BY <1>2, <1>3 DEF Rows
  <1>5. db' \in Rows /\ db'.status = rows.status /\ db'.due = rows.due
    BY <1>1, <1>2, <1>4 DEF Rows
  <1>6. form' = [form EXCEPT !.moved = @ \/ (form.editing /\ rows.due # db.due),
                             !.asked = IF @ = None \/ rows.status = db.status THEN @
                                       ELSE [@ EXCEPT !.late = TRUE]]
    BY <1>1, form \in Forms DEF FormAfter, Forms, WebTypeOK
  <1>. QED BY <1>1, <1>5, <1>6

LEMMA OthersActTypes ==
  ASSUME WebTypeOK, OthersAct
  PROVE  WebTypeOK'
  <1>1. form' \in Forms
    <2>. DEFINE asked == IF form.asked = None \/ db'.status = db.status THEN form.asked
                         ELSE [form.asked EXCEPT !.late = TRUE]
    <2>1. asked \in {None} \cup [to : {"PRODUCTION"}, seen : Statuses, late : BOOLEAN]
      BY DEF WebTypeOK, Forms
    <2>2. form' = [form EXCEPT !.moved = form.moved \/ (form.editing /\ db'.due # db.due),
                               !.asked = asked]
      BY OthersActIs DEF WebTypeOK, Forms
    <2>. HIDE DEF asked
    <2>. QED BY <2>1, <2>2 DEF WebTypeOK, Forms
  <1>2. JobsOK'
    <2>1. ASSUME NEW k \in Mutations, job[k] # None
          PROVE  job'[k] \in JobRecs(k) /\ k \in visit.acts
      <3>1. job'[k] = [job[k] EXCEPT !.moved = @ \/ db'.due # db.due,
                                     !.late = @ \/ db'.status # db.status]
        BY <2>1, OthersActIs
      <3>2. job[k] \in JobRecs(k) /\ k \in visit.acts
        BY <2>1 DEF WebTypeOK, JobsOK
      <3>. QED BY <3>1, <3>2 DEF JobRecs
    <2>2. visit' = visit /\ job' = [k \in Mutations |-> job'[k]]
          /\ \A k \in Mutations : job[k] = None => job'[k] = None
      BY OthersActIs DEF OthersAct
    <2>. QED BY <2>1, <2>2 DEF JobsOK
  <1>3. QueriesOK'
    <2>1. DOMAIN cause' = Queries
      BY OthersActIs DEF Blame
    <2>. QED BY <2>1, QueriesStay DEF OthersAct, WebTypeOK
  <1>4. BoundsOK'
    <2>1. UNCHANGED <<acts, faults>>
      BY DEF OthersAct
    <2>. QED BY <2>1, OthersCount DEF WebTypeOK, BoundsOK
  <1>5. UNCHANGED <<visit, broken>>
    BY DEF OthersAct
  <1>. QED BY <1>1, <1>2, <1>3, <1>4, <1>5, OthersActIs DEF WebTypeOK

\* A request that is served, or refused.
LEMMA ServeIs ==
  ASSUME WebTypeOK, NEW k \in Mutations, Serve(k)
  PROVE  LET r == Head(job[k].todo) IN
         /\ job[k] \in JobRecs(k) /\ job[k].answer = None
         /\ r \in Asked(k) /\ r \in Requests
         /\ \/ /\ Accepted(r) /\ db' = After(r) /\ db' \in Rows /\ Blame(k, db')
               /\ form' = [form EXCEPT !.moved = @ \/ (form.editing /\ db'.due # db.due)]
               /\ job' = [j \in Mutations |->
                    IF j = k THEN [job[k] EXCEPT !.answer = "ok", !.made = db' # db]
                    ELSE IF job[j] = None THEN None
                    ELSE [job[j] EXCEPT !.moved = @ \/ db'.due # db.due]]
            \/ /\ job' = [job EXCEPT ![k] = [@ EXCEPT !.answer = "refused"]]
               /\ UNCHANGED <<db, form, cause>>
  <1>1. job[k] # None /\ job[k] \in JobRecs(k) /\ job[k].answer = None
    BY DEF Serve, WebTypeOK, JobsOK
  <1>2. job[k].todo \in Seq(Asked(k)) \ {<< >>}
    BY <1>1 DEF JobRecs
  <1>. DEFINE todo == job[k].todo
              S == Asked(k)
  <1>3. Head(todo) \in S
    <2>. HIDE DEF todo, S
    <2>1. todo \in Seq(S) /\ todo # << >>
      BY <1>2 DEF todo, S
    <2>. QED BY <2>1
  <1>4. Head(todo) \in Requests
    BY <1>3 DEF Asked
  <1>5. Accepted(Head(todo)) /\ db' = After(Head(todo)) => db' \in Rows
    BY <1>4, AfterIs DEF WebTypeOK
  <1>. QED BY <1>1, <1>3, <1>4, <1>5 DEF Serve, FormAfter

LEMMA ServeTypes ==
  ASSUME WebTypeOK, NEW k \in Mutations, Serve(k)
  PROVE  WebTypeOK'
  <1>1. db' \in Rows
    BY ServeIs DEF WebTypeOK
  <1>2. form' \in Forms
    <2>1. [form EXCEPT !.moved = form.moved \/ (form.editing /\ db'.due # db.due)] \in Forms
      BY DEF WebTypeOK, Forms
    <2>. QED BY <2>1, ServeIs DEF WebTypeOK
  <1>3. DOMAIN cause' = Queries
    BY ServeIs DEF Blame, WebTypeOK, QueriesOK
  <1>4. JobsOK'
    <2>. DEFINE served == [job[k] EXCEPT !.answer = "ok", !.made = db' # db]
                refused == [job[k] EXCEPT !.answer = "refused"]
    <2>1. served \in JobRecs(k) /\ refused \in JobRecs(k) /\ k \in visit.acts
      BY ServeIs DEF JobRecs, Answers, Serve, WebTypeOK, JobsOK
    <2>2. \A j \in Mutations : job[j] # None =>
             /\ j \in visit.acts /\ job[j] \in JobRecs(j)
             /\ [job[j] EXCEPT !.moved = @ \/ db'.due # db.due] \in JobRecs(j)
      BY DEF JobRecs, WebTypeOK, JobsOK
    <2>. HIDE DEF served, refused
    <2>3. \/ job' = [j \in Mutations |->
                 IF j = k THEN served
                 ELSE IF job[j] = None THEN None
                 ELSE [job[j] EXCEPT !.moved = @ \/ db'.due # db.due]]
          \/ job' = [job EXCEPT ![k] = refused]
      BY ServeIs DEF served, refused, WebTypeOK, JobsOK
    <2>4. visit' = visit /\ DOMAIN job = Mutations
      BY DEF Serve, WebTypeOK, JobsOK
    <2>. QED BY <2>1, <2>2, <2>3, <2>4 DEF JobsOK
  <1>. QED BY <1>1, <1>2, <1>3, <1>4, QueriesStay DEF Serve, WebTypeOK, BoundsOK, bounds

\* The same, field by field: of the other mutations, and of the one that is served.
LEMMA ServeFields ==
  ASSUME WebTypeOK, NEW k \in Mutations, Serve(k)
  PROVE  /\ form'.editing = form.editing /\ form'.due = form.due
         /\ form'.touched = form.touched /\ form'.asked = form.asked
         /\ form'.moved = (form.moved \/ (form.editing /\ db'.due # db.due))
         /\ \A j \in Mutations \ {k} :
              /\ job'[j] # None <=> job[j] # None
              /\ job[j] # None =>
                   /\ job'[j].todo = job[j].todo /\ job'[j].answer = job[j].answer
                   /\ job'[j].made = job[j].made /\ job'[j].touched = job[j].touched
                   /\ job'[j].seen = job[j].seen /\ job'[j].late = job[j].late
                   /\ job[j].moved => job'[j].moved
         /\ job[k] # None /\ job'[k] # None
         /\ job'[k].todo = job[k].todo /\ job'[k].touched = job[k].touched
         /\ job'[k].seen = job[k].seen /\ job'[k].late = job[k].late
         /\ job'[k].moved = job[k].moved
         /\ \/ /\ job'[k].answer = "ok" /\ job'[k].made = (db' # db)
               /\ Accepted(Head(job[k].todo)) /\ db' = After(Head(job[k].todo))
               /\ Blame(k, db')
            \/ job'[k].answer = "refused" /\ UNCHANGED <<db, cause>>
  <1>. DEFINE r == Head(job[k].todo)
              served == /\ Accepted(r) /\ db' = After(r) /\ db' \in Rows /\ Blame(k, db')
                        /\ form' = [form EXCEPT !.moved = @ \/ (form.editing /\ db'.due # db.due)]
                        /\ job' = [j \in Mutations |->
                             IF j = k THEN [job[k] EXCEPT !.answer = "ok", !.made = db' # db]
                             ELSE IF job[j] = None THEN None
                             ELSE [job[j] EXCEPT !.moved = @ \/ db'.due # db.due]]
              refused == /\ job' = [job EXCEPT ![k] = [@ EXCEPT !.answer = "refused"]]
                         /\ UNCHANGED <<db, form, cause>>
  <1>1. served \/ refused
    BY ServeIs
  <1>2. form \in Forms /\ DOMAIN job = Mutations
    BY DEF WebTypeOK, JobsOK
  <1>3. \A j \in Mutations : job[j] # None => job[j] \in JobRecs(j)
    BY DEF WebTypeOK, JobsOK
  <1>4. job[k] # None
    BY DEF Serve
  <1>5. WebTypeOK'
    BY ServeTypes
  <1>6. \A j \in Mutations : \A rec \in JobRecs(j) : rec # None
    BY JobIsNotNone
  <1>7. CASE served
    <2>1. /\ form'.editing = form.editing /\ form'.due = form.due
          /\ form'.touched = form.touched /\ form'.asked = form.asked
          /\ form'.moved = (form.moved \/ (form.editing /\ db'.due # db.due))
      BY <1>2, <1>7 DEF Forms
    <2>2. ASSUME NEW j \in Mutations \ {k}
          PROVE  /\ job'[j] # None <=> job[j] # None
                 /\ job[j] # None =>
                   /\ job'[j].todo = job[j].todo /\ job'[j].answer = job[j].answer
                   /\ job'[j].made = job[j].made /\ job'[j].touched = job[j].touched
                   /\ job'[j].seen = job[j].seen /\ job'[j].late = job[j].late
                   /\ job[j].moved => job'[j].moved
      <3>1. CASE job[j] = None
        BY <1>7, <3>1
      <3>2. CASE job[j] # None
        <4>1. job'[j] = [job[j] EXCEPT !.moved = @ \/ db'.due # db.due]
          BY <1>7, <3>2
        <4>2. job[j] \in JobRecs(j)
          BY <1>3, <3>2
        <4>3. job'[j] \in JobRecs(j)
          BY <4>1, <4>2 DEF JobRecs
        <4>4. job'[j] # None
          BY <1>6, <4>3
        <4>. QED BY <3>2, <4>1, <4>2, <4>4 DEF JobRecs
      <3>. QED BY <3>1, <3>2
    <2>3. job'[k] = [job[k] EXCEPT !.answer = "ok", !.made = db' # db]
      BY <1>7
    <2>4. job[k] \in JobRecs(k)
      BY <1>3, <1>4
    <2>5. job'[k] \in JobRecs(k)
      BY <2>3, <2>4 DEF JobRecs, Answers
    <2>6. job'[k] # None
      BY <1>6, <2>5
    <2>. QED BY <1>4, <1>7, <2>1, <2>2, <2>3, <2>4, <2>6 DEF JobRecs
  <1>8. CASE refused
    <2>1. job'[k] = [job[k] EXCEPT !.answer = "refused"]
      BY <1>2, <1>8
    <2>2. job[k] \in JobRecs(k)
      BY <1>3, <1>4
    <2>3. job'[k] \in JobRecs(k)
      BY <2>1, <2>2 DEF JobRecs, Answers
    <2>4. job'[k] # None
      BY <1>6, <2>3
    <2>5. \A j \in Mutations \ {k} : job'[j] = job[j]
      BY <1>2, <1>8
    <2>6. form.moved \in BOOLEAN
      BY <1>2 DEF Forms
    <2>. QED BY <1>4, <1>8, <2>1, <2>2, <2>4, <2>5, <2>6 DEF JobRecs
  <1>. QED BY <1>1, <1>7, <1>8

\* And what others do to the form and to the mutations under way.
LEMMA OthersFields ==
  ASSUME WebTypeOK, OthersAct
  PROVE  /\ form'.editing = form.editing /\ form'.due = form.due
         /\ form'.touched = form.touched
         /\ form'.moved = (form.moved \/ (form.editing /\ db'.due # db.due))
         /\ form'.asked # None =>
              /\ form.asked # None
              /\ form'.asked.to = form.asked.to /\ form'.asked.seen = form.asked.seen
              /\ form'.asked.late = (form.asked.late \/ db'.status # db.status)
         /\ \A j \in Mutations : job'[j] # None <=> job[j] # None
         /\ \A j \in Mutations : job[j] # None =>
              /\ job'[j].todo = job[j].todo /\ job'[j].answer = job[j].answer
              /\ job'[j].made = job[j].made /\ job'[j].touched = job[j].touched
              /\ job'[j].seen = job[j].seen
              /\ job'[j].late = (job[j].late \/ db'.status # db.status)
              /\ job[j].moved => job'[j].moved
  <1>1. form \in Forms
    BY DEF WebTypeOK
  <1>2. /\ form'.editing = form.editing /\ form'.due = form.due
        /\ form'.touched = form.touched
        /\ form'.moved = (form.moved \/ (form.editing /\ db'.due # db.due))
    BY <1>1, OthersActIs DEF Forms
  <1>3. ASSUME form'.asked # None
        PROVE  /\ form.asked # None
               /\ form'.asked.to = form.asked.to /\ form'.asked.seen = form.asked.seen
               /\ form'.asked.late = (form.asked.late \/ db'.status # db.status)
    <2>1. form'.asked = IF form.asked = None \/ db'.status = db.status THEN form.asked
                        ELSE [form.asked EXCEPT !.late = TRUE]
      BY <1>1, OthersActIs DEF Forms
    <2>2. form.asked # None
      BY <1>3, <2>1
    <2>3. form.asked \in [to : {"PRODUCTION"}, seen : Statuses, late : BOOLEAN]
      BY <1>1, <2>2 DEF Forms
    <2>. QED BY <2>1, <2>2, <2>3
  <1>4. ASSUME NEW j \in Mutations, job[j] # None
        PROVE  /\ job'[j] # None
               /\ job'[j].todo = job[j].todo /\ job'[j].answer = job[j].answer
               /\ job'[j].made = job[j].made /\ job'[j].touched = job[j].touched
               /\ job'[j].seen = job[j].seen
               /\ job'[j].late = (job[j].late \/ db'.status # db.status)
               /\ job[j].moved => job'[j].moved
    <2>1. job'[j] = [job[j] EXCEPT !.moved = @ \/ db'.due # db.due,
                                   !.late = @ \/ db'.status # db.status]
      BY <1>4, OthersActIs
    <2>2. job[j] \in JobRecs(j)
      BY <1>4 DEF WebTypeOK, JobsOK
    <2>3. job'[j] \in JobRecs(j)
      BY <2>1, <2>2 DEF JobRecs
    <2>. QED BY <2>1, <2>2, <2>3, JobIsNotNone DEF JobRecs
  <1>5. \A j \in Mutations : job[j] = None => job'[j] = None
    BY OthersActIs
  <1>. QED BY <1>2, <1>3, <1>4, <1>5

\* A mutation that goes on or ends.
LEMMA JobEnds ==
  ASSUME JobsOK, NEW k \in Mutations, visit' = visit,
         job' = [job EXCEPT ![k] = None]
  PROVE  JobsOK'
  BY DEF JobsOK

LEMMA JobGoesOn ==
  ASSUME JobsOK, NEW k \in Mutations, visit' = visit, job[k] # None,
         NEW j \in JobRecs(k), job' = [job EXCEPT ![k] = j]
  PROVE  JobsOK'
  BY DEF JobsOK

LEMMA ProceedIs ==
  ASSUME WebTypeOK, NEW k \in Mutations, Proceed(k)
  PROVE  /\ job' = [job EXCEPT ![k] = [@ EXCEPT !.todo = Tail(job[k].todo), !.answer = None]]
         /\ [job[k] EXCEPT !.todo = Tail(job[k].todo), !.answer = None] \in JobRecs(k)
         /\ \A S : job[k].todo \in Seq(S) => Tail(job[k].todo) \in Seq(S)
         /\ job[k] # None /\ job[k] \in JobRecs(k) /\ Len(job[k].todo) > 1
  <1>1. job[k] # None /\ job[k] \in JobRecs(k) /\ Len(job[k].todo) > 1
    BY DEF Proceed, WebTypeOK, JobsOK
  <1>. DEFINE todo == job[k].todo
  <1>2. \A S : todo \in Seq(S) => Tail(todo) \in Seq(S) /\ Len(Tail(todo)) = Len(todo) - 1
    <2>. HIDE DEF todo
    <2>1. ASSUME NEW S, todo \in Seq(S)
          PROVE  Tail(todo) \in Seq(S) /\ Len(Tail(todo)) = Len(todo) - 1
      BY <1>1, <2>1 DEF todo
    <2>. QED BY <2>1
  <1>3. todo \in Seq(Asked(k))
    BY <1>1 DEF JobRecs
  <1>4. Tail(todo) \in Seq(Asked(k)) \ {<< >>}
    <2>. DEFINE rest == Tail(todo)
    <2>1. rest \in Seq(Asked(k)) /\ Len(rest) = Len(todo) - 1
      BY <1>2, <1>3
    <2>2. Len(todo) \in Nat /\ Len(todo) > 1
      BY <1>1, <1>3
    <2>. HIDE DEF rest, todo
    <2>3. rest \in Seq(Asked(k)) \ {<< >>}
      BY <2>1, <2>2
    <2>. QED BY <2>3 DEF rest
  <1>5. job' = [job EXCEPT ![k] = [@ EXCEPT !.todo = Tail(todo), !.answer = None]]
    BY <1>1 DEF Proceed, JobRecs
  <1>6. [job[k] EXCEPT !.todo = Tail(todo), !.answer = None] \in JobRecs(k)
    BY <1>1, <1>4 DEF JobRecs, Answers
  <1>. QED BY <1>1, <1>2, <1>5, <1>6

\* What each mutation has fetched again.
LEMMA InvalidatedIs ==
  /\ \A k \in {"move", "due"} : Invalidated(k) = OfTask \cup OfBell
  /\ Invalidated("save") = OfTask \cup OfBell \cup {"members"}
  /\ Invalidated("comment") = {"comments"} \cup OfBell
  /\ Invalidated("create") = {"tasks"}
  /\ \A k \in {"add", "remove"} : Invalidated(k) = {"members", "outside"}
  /\ \A k \in {"read", "readAll"} : Invalidated(k) = OfBell
  /\ \A k \in Mutations : Invalidated(k) \subseteq Queries
  <1>1. /\ \A k \in {"move", "due"} : Invalidated(k) = OfTask \cup OfBell
        /\ Invalidated("save") = OfTask \cup OfBell \cup {"members"}
        /\ Invalidated("comment") = {"comments"} \cup OfBell
        /\ Invalidated("create") = {"tasks"}
        /\ \A k \in {"add", "remove"} : Invalidated(k) = {"members", "outside"}
        /\ \A k \in {"read", "readAll"} : Invalidated(k) = OfBell
    BY DEF Invalidated
  <1>2. OfTask \subseteq Queries /\ OfBell \subseteq Queries
    BY DEF OfTask, OfBell, Queries
  <1>. QED BY <1>1, <1>2 DEF Mutations, Queries

LEMMA WebTypesNext == WebTypeOK /\ [Next]_vars => WebTypeOK'
  <1>. SUFFICES ASSUME WebTypeOK, [Next]_vars PROVE WebTypeOK'
    OBVIOUS
  <1>1. CASE User
    BY <1>1, UserTypes
  <1>2. CASE OthersAct
    BY <1>2, OthersActTypes
  <1>3. CASE LoseFetch
    <2>1. faults' \in 0..MaxFaults
      BY <1>3, WebConstantsOK DEF LoseFetch, WebTypeOK, BoundsOK
    <2>2. QueriesOK'
      BY <1>3, SteadyIsEnabled DEF LoseFetch, WebTypeOK, QueriesOK
    <2>. QED BY <1>3, <2>1, <2>2 DEF LoseFetch, WebTypeOK, JobsOK, BoundsOK
  <1>4. ASSUME NEW q \in Queries, Fetch(q) PROVE WebTypeOK'
    <2>1. Data(q, See(db, q)) /\ Enabled(q)
      BY <1>4, SeeData DEF Fetch, WebTypeOK
    <2>2. QueriesOK'
      BY <1>4, <2>1, SteadyIsEnabled DEF Fetch, WebTypeOK, QueriesOK
    <2>. QED BY <1>4, <2>2 DEF Fetch, WebTypeOK, JobsOK, BoundsOK, bounds
  <1>5. ASSUME NEW q \in Queries, Arrive(q) PROVE WebTypeOK'
    <2>1. Data(q, fetch[q])
      BY <1>5 DEF Arrive, WebTypeOK, QueriesOK
    <2>2. DOMAIN cause' = Queries /\ DOMAIN cache' = Queries /\ DOMAIN fetch' = Queries
      BY <1>5 DEF Arrive, WebTypeOK, QueriesOK
    <2>3. marked' \subseteq Queries /\ broken' \in BOOLEAN
      BY <1>5 DEF Arrive, WebTypeOK, QueriesOK
    <2>4. \A x \in Queries : /\ cache'[x] = IF x = q THEN fetch[q] ELSE cache[x]
                             /\ fetch'[x] = IF x = q THEN None ELSE fetch[x]
      BY <1>5 DEF Arrive, WebTypeOK, QueriesOK
    <2>5. visit' = visit
      BY <1>5 DEF Arrive
    <2>6. QueriesOK'
      BY <2>1, <2>2, <2>3, <2>4, <2>5, SteadyIsEnabled DEF WebTypeOK, QueriesOK
    <2>. QED BY <1>5, <2>3, <2>6 DEF Arrive, WebTypeOK, JobsOK, BoundsOK, bounds
  <1>6. ASSUME NEW k \in Mutations, Serve(k) PROVE WebTypeOK'
    BY <1>6, ServeTypes
  <1>7. ASSUME NEW k \in Mutations, Proceed(k) PROVE WebTypeOK'
    <2>1. JobsOK'
      <3>. DEFINE j == [job[k] EXCEPT !.todo = Tail(job[k].todo), !.answer = None]
      <3>1. j \in JobRecs(k) /\ job' = [job EXCEPT ![k] = j] /\ job[k] # None
        BY <1>7, ProceedIs
      <3>. HIDE DEF j
      <3>. QED BY <1>7, <3>1, JobGoesOn DEF Proceed, WebTypeOK
    <2>. QED BY <1>7, <2>1, QueriesStay DEF Proceed, WebTypeOK, BoundsOK, bounds, QueriesOK
  <1>8. ASSUME NEW k \in Mutations, Succeed(k) PROVE WebTypeOK'
    <2>1. JobsOK'
      BY <1>8, JobEnds DEF Succeed, WebTypeOK
    <2>2. form' \in Forms
      BY <1>8 DEF Succeed, FormAfterSuccess, Closed, Forms, DueValues, Assignees, WebTypeOK
    <2>3. marked' \subseteq Queries
      BY <1>8, InvalidatedIs DEF Succeed, Invalidate, WebTypeOK, QueriesOK
    <2>4. QueriesOK'
      BY <1>8, <2>3, SteadyIsEnabled DEF Succeed, Invalidate, WebTypeOK, QueriesOK
    <2>. QED BY <1>8, <2>1, <2>2, <2>4 DEF Succeed, WebTypeOK, BoundsOK, bounds
  <1>9. ASSUME NEW k \in Mutations, GiveUp(k) PROVE WebTypeOK'
    <2>1. JobsOK'
      BY <1>9, JobEnds DEF GiveUp, WebTypeOK
    <2>2. form' \in Forms
      <3>1. form \in Forms
        BY DEF WebTypeOK
      <3>2. CASE form.asked # None /\ k = "move"
        <4>. DEFINE late == form.asked.late \/ form.asked.seen # db.status
                    asked == [form.asked EXCEPT !.late = late]
        <4>1. asked \in [to : {"PRODUCTION"}, seen : Statuses, late : BOOLEAN]
          BY <3>1, <3>2 DEF Forms
        <4>2. form' = [form EXCEPT !.asked = asked]
          BY <1>9, <3>1, <3>2 DEF GiveUp, Forms
        <4>. HIDE DEF asked
        <4>. QED BY <3>1, <4>1, <4>2 DEF Forms
      <3>3. CASE ~(form.asked # None /\ k = "move")
        BY <1>9, <3>1, <3>3 DEF GiveUp
      <3>. QED BY <3>2, <3>3
    <2>. QED BY <1>9, <2>1, <2>2, QueriesStay DEF GiveUp, WebTypeOK, BoundsOK, bounds, QueriesOK
  <1>10. ASSUME NEW k \in Mutations, LoseCall(k) PROVE WebTypeOK'
    <2>1. JobsOK'
      <3>. DEFINE j == [job[k] EXCEPT !.answer = "lost"]
      <3>1. job[k] # None /\ j \in JobRecs(k)
        BY <1>10 DEF LoseCall, WebTypeOK, JobsOK, JobRecs, Answers
      <3>2. job' = [job EXCEPT ![k] = j]
        BY <1>10 DEF LoseCall
      <3>. HIDE DEF j
      <3>. QED BY <1>10, <3>1, <3>2, JobGoesOn DEF LoseCall, WebTypeOK
    <2>2. faults' \in 0..MaxFaults
      BY <1>10, WebConstantsOK DEF LoseCall, WebTypeOK, BoundsOK
    <2>. QED BY <1>10, <2>1, <2>2, QueriesStay DEF LoseCall, WebTypeOK, BoundsOK, QueriesOK
  <1>11. CASE UNCHANGED vars
    BY <1>11, QueriesStay DEF vars, bounds, WebTypeOK, QueriesOK, JobsOK, BoundsOK
  <1>. QED BY <1>1, <1>2, <1>3, <1>4, <1>5, <1>6, <1>7, <1>8, <1>9, <1>10, <1>11
           DEF Next, Answered

LEMMA InitWebTypes == Init => WebTypeOK
  <1>. SUFFICES ASSUME Init PROVE WebTypeOK
    OBVIOUS
  <1>1. PICK s \in visit.finds, p \in SUBSET People :
          db = [status |-> s, due |-> None, assignee |-> "nobody", project |-> p,
                comments |-> 0, tasks |-> 0, unread |-> visit.unread]
    BY DEF Init
  <1>2. visit \in Visits /\ s \in Statuses /\ visit.unread \subseteq 0..MaxOthers
    BY WebConstantsOK DEF Init
  <1>3. db \in Rows
    BY <1>1, <1>2 DEF Rows
  <1>4. form \in Forms
    BY DEF Init, NoForm, Forms, DueValues, Assignees
  <1>5. \A q \in Queries : Data(q, cache[q]) /\ fetch[q] = None
    BY <1>3, SeeData DEF Init, Data
  <1>6. QueriesOK
    BY <1>5 DEF QueriesOK, Init, Queries
  <1>7. JobsOK
    BY DEF Init, JobsOK
  <1>8. BoundsOK
    BY WebConstantsOK DEF Init, BoundsOK
  <1>9. broken = FALSE
    BY DEF Init
  <1>. QED BY <1>2, <1>3, <1>4, <1>6, <1>7, <1>8, <1>9 DEF WebTypeOK

\* The types of the pages, for any number of people and any visits: among them that
\* only queries which are switched on are being fetched, but for the two that other
\* things than the page switch off, and that a move asks for a comment only on the
\* way back to production.
THEOREM WebPagesTypes == Spec => []TypeOK
  <1>1. WebTypeOK => TypeOK
    <2>. SUFFICES ASSUME WebTypeOK PROVE TypeOK
      OBVIOUS
    <2>1. \A k \in Mutations : job[k] # None =>
            k \in visit.acts /\ job[k] \in Jobs /\ job[k].todo # << >>
      BY JobIsNotNone DEF WebTypeOK, JobsOK
    <2>2. /\ form.asked # None => form.asked.to = "PRODUCTION"
          /\ form.chosen \subseteq Clients /\ form.due \in Dues \cup {None}
      BY DEF WebTypeOK, Forms, DueValues
    <2>. QED BY <2>1, <2>2 DEF WebTypeOK, TypeOK, QueriesOK, Steady, BoundsOK
  <1>. QED BY <1>1, InitWebTypes, WebTypesNext, PTL DEF Spec

-----------------------------------------------------------------------------
(* A due date that nobody touched.                                         *)

NoDue == {r \in Requests : r.req # "due"}

\* A form that still says the date it was filled in with, and that has heard of no
\* other, agrees with the server, with the cache, and with what is being fetched;
\* a save that came from such a form sends no date.
DueInv ==
  /\ form.editing /\ ~form.touched /\ ~form.moved =>
       /\ form.due = db.due /\ cache["task"].due = db.due
       /\ fetch["task"] # None => fetch["task"].due = db.due
  /\ job["save"] # None /\ ~job["save"].touched /\ ~job["save"].moved =>
       job["save"].todo \in Seq(NoDue)

LEMMA DueFrame ==
  ASSUME WebTypeOK, DueInv, db'.due = db.due, UNCHANGED <<cache, fetch>>,
         form'.editing => /\ form.editing /\ form'.due = form.due
                          /\ form'.touched = form.touched /\ form'.moved = form.moved,
         job'["save"] # None => /\ job["save"] # None
                                /\ job'["save"].touched = job["save"].touched
                                /\ job'["save"].moved = job["save"].moved
                                /\ job'["save"].todo = job["save"].todo
  PROVE  DueInv'
  BY DEF DueInv

\* A form or a save that learns of another date.
LEMMA DueLearns ==
  ASSUME WebTypeOK, DueInv, UNCHANGED <<cache, fetch>>,
         form'.editing = form.editing, form'.due = form.due, form'.touched = form.touched,
         form'.moved = (form.moved \/ (form.editing /\ db'.due # db.due)),
         job'["save"] # None =>
           /\ job["save"] # None
           /\ job'["save"].touched = job["save"].touched
           /\ job'["save"].todo = job["save"].todo
           /\ job["save"].moved => job'["save"].moved
  PROVE  DueInv'
  BY DEF DueInv

\* Another mutation than a save is sent.
LEMMA DueSend ==
  ASSUME WebTypeOK, DueInv, NEW k \in Mutations \ {"save"}, NEW requests, Send(k, requests),
         form'.editing = form.editing, form'.due = form.due,
         form'.touched = form.touched, form'.moved = form.moved
  PROVE  DueInv'
  BY DEF Send, DueInv, WebTypeOK, JobsOK

LEMMA DueUser ==
  ASSUME WebTypeOK, DueInv, User
  PROVE  DueInv'
  <1>typed. form \in Forms
    BY DEF WebTypeOK
  <1>fill. ASSUME NEW new \in Forms, Fill(new), new.editing = form.editing,
                  new.due = form.due, new.touched = form.touched, new.moved = form.moved
           PROVE  DueInv'
    BY <1>fill DEF Fill, DueInv
  <1>1. ASSUME NEW c \in Clients, ToggleClient(c) PROVE DueInv'
    <2>. DEFINE new == [form EXCEPT !.chosen = IF c \in @ THEN @ \ {c} ELSE @ \cup {c}]
    <2>1. /\ new \in Forms /\ new.editing = form.editing
          /\ new.due = form.due /\ new.touched = form.touched /\ new.moved = form.moved
      BY <1>typed DEF Forms
    <2>. QED BY <1>1, <1>fill, <2>1 DEF ToggleClient
  <1>2. ASSUME NEW o \in Offers, HandleTransition(o) PROVE DueInv'
    <2>1. CASE o.requiresComment
      BY <1>2, <1>typed, <2>1 DEF HandleTransition, Fill, DueInv, Forms
    <2>2. CASE ~o.requiresComment
      BY <1>2, <2>2, DueSend DEF HandleTransition, Mutations
    <2>. QED BY <2>1, <2>2
  <1>3. CASE HandleTransitionWithComment
    BY <1>3 DEF HandleTransitionWithComment, DueInv, WebTypeOK, JobsOK, Mutations
  <1>4. CASE CancelPendingTransition
    BY <1>4, <1>typed DEF CancelPendingTransition, Fill, DueInv, Forms
  <1>5. CASE OpenDueDateForm \/ CancelDueDateForm
    BY <1>5, <1>typed DEF OpenDueDateForm, CancelDueDateForm, Fill, DueInv, Forms
  <1>6. ASSUME NEW d \in Dues, HandleQuickDueSubmit(d) PROVE DueInv'
    BY <1>6, DueSend DEF HandleQuickDueSubmit, Mutations
  <1>7. CASE StartEditing
    <2>1. form'.due = cache["task"].due /\ form'.moved = DueOutdated
      BY <1>7, <1>typed DEF StartEditing, Fill, Forms
    <2>. QED BY <1>7, <2>1 DEF StartEditing, Fill, DueInv, DueOutdated
  <1>8. CASE EditTask
    BY <1>8, <1>typed DEF EditTask, Fill, DueInv, Forms
  <1>9. CASE CancelEditing
    <2>1. form'.editing = FALSE
      BY <1>9, <1>typed DEF CancelEditing, Fill, Closed, Forms
    <2>. QED BY <1>9, <2>1 DEF CancelEditing, Fill, DueInv
  <1>10. CASE SaveEdit
    <2>. DEFINE a == form.assignee
                first == EnsureAssignee(a) \o <<Request("update", a)>>
    <2>1. PICK reason \in BOOLEAN :
            /\ reason => form.touched
            /\ Send("save", first \o (IF form.due # cache["task"].due \/ reason
                                      THEN <<DueOn(form.due)>> ELSE << >>))
      BY <1>10 DEF SaveEdit
    <2>2. form.editing /\ form' = form
      BY <1>10 DEF SaveEdit
    <2>3. /\ job'["save"].touched = form.touched /\ job'["save"].moved = form.moved
          /\ job'["save"].todo = first \o (IF form.due # cache["task"].due \/ reason
                                           THEN <<DueOn(form.due)>> ELSE << >>)
          /\ UNCHANGED <<db, cache, fetch>>
      BY <2>1 DEF Send, WebTypeOK, JobsOK, Mutations
    <2>4. ASSUME ~form.touched, ~form.moved PROVE job'["save"].todo \in Seq(NoDue)
      <3>1. job'["save"].todo = first \o << >>
        BY <2>1, <2>2, <2>3, <2>4 DEF DueInv
      <3>2. /\ a \in Assignees /\ Request("update", a) \in NoDue
            /\ a \in Staff => Request("add", a) \in NoDue
        <4>1. a \in Assignees
          BY <1>typed DEF Forms
        <4>2. /\ Request("update", a) \in Requests
              /\ a \in Staff => Request("add", a) \in Requests
          BY <4>1, AskedFor DEF Asked
        <4>. QED BY <4>1, <4>2 DEF NoDue, Request
      <3>3. first \in Seq(NoDue) \ {<< >>}
        BY <3>2, StartRequests
      <3>4. first \o << >> \in Seq(NoDue)
        BY <3>3, MoreRequests
      <3>. QED BY <3>1, <3>4
    <2>. QED BY <2>2, <2>3, <2>4 DEF DueInv
  <1>11. ASSUME NEW a \in Assignees, CreateTask(a) PROVE DueInv'
    BY <1>11, DueSend DEF CreateTask, Mutations
  <1>12. ASSUME NEW p \in People, AddProjectMember(p) \/ RemoveProjectMember(p) PROVE DueInv'
    BY <1>12, DueSend DEF AddProjectMember, RemoveProjectMember, Mutations
  <1>13. CASE AddComment
    BY <1>13, DueSend DEF AddComment, Mutations
  <1>14. CASE ToggleBell
    BY <1>14, <1>typed DEF ToggleBell, DueInv, Forms
  <1>15. CASE MarkAllRead
    BY <1>15, DueSend DEF MarkAllRead, Mutations
  <1>16. ASSUME NEW n \in 0..MaxOthers, MarkRead(n) PROVE DueInv'
    <2>1. /\ form'.editing = form.editing /\ form'.due = form.due
          /\ form'.touched = form.touched /\ form'.moved = form.moved
      BY <1>16, <1>typed DEF MarkRead, Forms
    <2>. QED BY <1>16, <2>1, DueSend DEF MarkRead, Mutations
  <1>. QED BY <1>1, <1>2, <1>3, <1>4, <1>5, <1>6, <1>7, <1>8, <1>9, <1>10, <1>11, <1>12,
              <1>13, <1>14, <1>15, <1>16 DEF User, Assignees

LEMMA DueNext == WebTypeOK /\ DueInv /\ [Next]_vars => DueInv'
  <1>. SUFFICES ASSUME WebTypeOK, DueInv, [Next]_vars PROVE DueInv'
    OBVIOUS
  <1>typed. form \in Forms /\ DOMAIN job = Mutations /\ "save" \in Mutations
    BY DEF WebTypeOK, JobsOK, Mutations
  <1>1. CASE User
    BY <1>1, DueUser
  <1>2. CASE OthersAct
    <2>1. UNCHANGED <<cache, fetch>>
      BY <1>2 DEF OthersAct
    <2>. QED BY <1>2, <1>typed, <2>1, OthersFields, DueLearns
  <1>3. CASE LoseFetch
    BY <1>3 DEF LoseFetch, DueInv, WebTypeOK, QueriesOK, Queries
  <1>4. ASSUME NEW q \in Queries, Fetch(q) PROVE DueInv'
    BY <1>4, SeeIs DEF Fetch, DueInv, WebTypeOK, QueriesOK, Queries
  <1>5. ASSUME NEW q \in Queries, Arrive(q) PROVE DueInv'
    BY <1>5 DEF Arrive, DueInv, WebTypeOK, QueriesOK, Queries
  <1>6. ASSUME NEW k \in Mutations, Serve(k) PROVE DueInv'
    <2>1. UNCHANGED <<cache, fetch>>
      BY <1>6 DEF Serve
    <2>2. job'["save"] # None => /\ job["save"] # None
                                 /\ job'["save"].touched = job["save"].touched
                                 /\ job'["save"].todo = job["save"].todo
                                 /\ job["save"].moved => job'["save"].moved
      BY <1>6, <1>typed, ServeFields
    <2>. QED BY <1>6, <2>1, <2>2, ServeFields, DueLearns
  <1>7. ASSUME NEW k \in Mutations, Proceed(k) PROVE DueInv'
    <2>1. UNCHANGED <<db, cache, fetch, form>>
      BY <1>7 DEF Proceed
    <2>2. CASE k = "save"
      <3>. DEFINE rest == Tail(job["save"].todo)
      <3>1. /\ job'["save"].todo = rest
            /\ job'["save"].touched = job["save"].touched
            /\ job'["save"].moved = job["save"].moved /\ job["save"] # None
        <4>1. /\ job'["save"] = [job["save"] EXCEPT !.todo = rest, !.answer = None]
              /\ job["save"] \in JobRecs("save") /\ job["save"] # None
          BY <1>7, <1>typed, <2>2, ProceedIs
        <4>. HIDE DEF rest
        <4>. QED BY <4>1 DEF JobRecs
      <3>2. job["save"].todo \in Seq(NoDue) => Tail(job["save"].todo) \in Seq(NoDue)
        BY <1>7, <2>2, ProceedIs
      <3>. QED BY <2>1, <3>1, <3>2 DEF DueInv
    <2>3. CASE k # "save"
      BY <1>7, <1>typed, <2>1, <2>3, DueFrame DEF Proceed
    <2>. QED BY <2>2, <2>3
  <1>8. ASSUME NEW k \in Mutations, Succeed(k) PROVE DueInv'
    <2>1. fetch'["task"] # None => fetch'["task"] = fetch["task"]
      BY <1>8 DEF Succeed, Invalidate, Queries
    <2>2. UNCHANGED <<db, cache>>
      BY <1>8 DEF Succeed
    <2>3. form'.editing => /\ form.editing /\ form'.due = form.due
                           /\ form'.touched = form.touched /\ form'.moved = form.moved
      BY <1>8, <1>typed DEF Succeed, FormAfterSuccess, Closed, Forms
    <2>4. job'["save"] # None => job'["save"] = job["save"]
      BY <1>8, <1>typed DEF Succeed
    <2>. QED BY <2>1, <2>2, <2>3, <2>4 DEF DueInv
  <1>9. ASSUME NEW k \in Mutations, GiveUp(k) PROVE DueInv'
    <2>1. UNCHANGED <<db, cache, fetch>>
      BY <1>9 DEF GiveUp
    <2>2. /\ form'.editing = form.editing /\ form'.due = form.due
          /\ form'.touched = form.touched /\ form'.moved = form.moved
      BY <1>9, <1>typed DEF GiveUp, Forms
    <2>3. job'["save"] # None => job'["save"] = job["save"]
      BY <1>9, <1>typed DEF GiveUp
    <2>. QED BY <2>1, <2>2, <2>3, DueFrame
  <1>10. ASSUME NEW k \in Mutations, LoseCall(k) PROVE DueInv'
    <2>1. UNCHANGED <<db, cache, fetch, form>>
      BY <1>10 DEF LoseCall
    <2>2. job["save"] # None => job["save"] \in JobRecs("save")
      BY <1>typed DEF WebTypeOK, JobsOK
    <2>3. job'["save"] = job["save"] \/ (/\ job["save"] # None
                                         /\ job'["save"] = [job["save"] EXCEPT !.answer = "lost"])
      BY <1>10, <1>typed DEF LoseCall
    <2>. QED BY <2>1, <2>2, <2>3, DueFrame DEF JobRecs
  <1>11. CASE UNCHANGED vars
    BY <1>11, DueFrame DEF vars
  <1>. QED BY <1>1, <1>2, <1>3, <1>4, <1>5, <1>6, <1>7, <1>8, <1>9, <1>10, <1>11
           DEF Next, Answered

\* A save whose user has not touched the due date sends one only if the date has
\* moved since the form was filled in, for all dates and any number of fetches,
\* moves and saves between (useTaskPageModel.ts, TaskEditForm).
THEOREM UntouchedDueSafe == Spec => []UntouchedDueIsKept
  <1>1. Init => WebTypeOK /\ DueInv
    <2>1. Init => DueInv
      BY DEF Init, NoForm, DueInv, Mutations
    <2>. QED BY <2>1, InitWebTypes
  <1>2. WebTypeOK /\ DueInv /\ [Next]_vars => (WebTypeOK /\ DueInv)'
    BY WebTypesNext, DueNext
  <1>3. DueInv => UntouchedDueIsKept
    <2>. SUFFICES ASSUME DueInv, job["save"] # None, ~job["save"].touched, ~job["save"].moved,
                         NEW i \in DOMAIN job["save"].todo
                  PROVE  job["save"].todo[i].req # "due"
      BY DEF UntouchedDueIsKept
    <2>1. job["save"].todo \in Seq(NoDue)
      BY DEF DueInv
    <2>2. job["save"].todo[i] \in NoDue
      BY <2>1
    <2>. QED BY <2>2 DEF NoDue
  <1>. QED BY <1>1, <1>2, <1>3, PTL DEF Spec

-----------------------------------------------------------------------------
(* The status a move is asked for in.                                      *)

\* A move is one request, to another status than the one its button was shown for;
\* so is the move that waits for a comment.
MoveInv ==
  /\ form.asked # None => form.asked.to # form.asked.seen
  /\ job["move"] # None => /\ Len(job["move"].todo) = 1
                           /\ Head(job["move"].todo).to # job["move"].seen
  /\ MovesAreOnWhatWasSeen

\* A step that leaves the status, the move and the form that waits for a comment.
LEMMA MoveFrame ==
  ASSUME WebTypeOK, MoveInv, db'.status = db.status,
         form'.asked # None => form'.asked = form.asked,
         job'["move"] # None <=> job["move"] # None,
         job["move"] # None => /\ job'["move"].todo = job["move"].todo
                               /\ job'["move"].answer = job["move"].answer
                               /\ job'["move"].made = job["move"].made
                               /\ job'["move"].seen = job["move"].seen
                               /\ job'["move"].late = job["move"].late
  PROVE  MoveInv'
  BY DEF MoveInv, MovesAreOnWhatWasSeen

LEMMA MoveSend ==
  ASSUME WebTypeOK, MoveInv, NEW k \in Mutations \ {"move"}, NEW requests, Send(k, requests),
         form'.asked = form.asked
  PROVE  MoveInv'
  <1>1. job'["move"] = job["move"] /\ db' = db
    BY DEF Send, WebTypeOK, JobsOK
  <1>. QED BY <1>1, MoveFrame

LEMMA MoveUser ==
  ASSUME WebTypeOK, MoveInv, User
  PROVE  MoveInv'
  <1>typed. form \in Forms
    BY DEF WebTypeOK
  <1>fill. ASSUME NEW new \in Forms, Fill(new), new.asked \in {None, form.asked}
           PROVE  MoveInv'
    BY <1>fill, MoveFrame DEF Fill
  <1>1. ASSUME NEW c \in Clients, ToggleClient(c) PROVE MoveInv'
    <2>. DEFINE new == [form EXCEPT !.chosen = IF c \in @ THEN @ \ {c} ELSE @ \cup {c}]
    <2>1. new \in Forms /\ new.asked = form.asked
      BY <1>typed DEF Forms
    <2>. QED BY <1>1, <1>fill, <2>1 DEF ToggleClient
  <1>2. ASSUME NEW o \in Offers, HandleTransition(o) PROVE MoveInv'
    <2>1. CASE o.requiresComment
      <3>. DEFINE asked == [to |-> o.to, seen |-> cache["transitions"],
                            late |-> cache["transitions"] # db.status]
      <3>1. form' = [form EXCEPT !.asked = asked] /\ UNCHANGED <<db, job>>
        BY <1>2, <2>1 DEF HandleTransition, Fill
      <3>2. form'.asked = asked /\ job["move"] = None
        BY <1>2, <1>typed, <3>1 DEF HandleTransition, Ready, Forms
      <3>3. /\ asked.to # asked.seen
            /\ asked.seen # db.status => asked.late
        BY OfferIs
      <3>. HIDE DEF asked
      <3>. QED BY <3>1, <3>2, <3>3 DEF MoveInv, MovesAreOnWhatWasSeen
    <2>2. CASE ~o.requiresComment
      <3>. DEFINE clients == IF o.to = "CLIENT_HANDOFF" THEN form.chosen ELSE {}
                  request == MoveTo(o.to, clients, FALSE)
      <3>1. Send("move", <<request>>) /\ form' = form
        BY <1>2, <2>2 DEF HandleTransition
      <3>2. request.to = o.to /\ o.to # cache["transitions"]
        BY OfferIs DEF MoveTo
      <3>. HIDE DEF request
      <3>3. /\ job'["move"].todo = <<request>> /\ job'["move"].seen = cache["transitions"]
            /\ cache["transitions"] # db.status => job'["move"].late
            /\ job'["move"].answer = None /\ db' = db
        BY <3>1 DEF Send, WebTypeOK, JobsOK, Mutations
      <3>4. job["move"] = None /\ Len(<<request>>) = 1 /\ Head(<<request>>) = request
        BY <1>2, OneRequest DEF HandleTransition, Ready
      <3>5. /\ Len(job'["move"].todo) = 1
            /\ Head(job'["move"].todo).to # job'["move"].seen
        BY <3>2, <3>3, <3>4
      <3>6. MovesAreOnWhatWasSeen'
        BY <3>1, <3>3, <3>4, WebConstantsOK DEF MoveInv, MovesAreOnWhatWasSeen
      <3>. QED BY <3>1, <3>5, <3>6 DEF MoveInv
    <2>. QED BY <2>1, <2>2
  <1>3. CASE HandleTransitionWithComment
    <2>. DEFINE request == MoveTo(form.asked.to, {}, TRUE)
    <2>1. request.to = form.asked.to /\ form.asked # None /\ job["move"] = None
      BY <1>3 DEF MoveTo, HandleTransitionWithComment, Ready
    <2>2. /\ job'["move"].todo = <<request>> /\ job'["move"].seen = form.asked.seen
          /\ job'["move"].late = form.asked.late /\ job'["move"].answer = None
          /\ UNCHANGED <<db, form>>
      BY <1>3 DEF HandleTransitionWithComment, WebTypeOK, JobsOK, Mutations
    <2>. HIDE DEF request
    <2>3. Len(<<request>>) = 1 /\ Head(<<request>>) = request
      BY OneRequest
    <2>. QED BY <2>1, <2>2, <2>3, WebConstantsOK DEF MoveInv, MovesAreOnWhatWasSeen
  <1>4. CASE CancelPendingTransition
    <2>1. [form EXCEPT !.asked = None] \in Forms
      BY <1>typed DEF Forms
    <2>. QED BY <1>4, <1>typed, <1>fill, <2>1 DEF CancelPendingTransition, Forms
  <1>5. CASE OpenDueDateForm \/ CancelDueDateForm
    <2>1. form'.asked = form.asked /\ UNCHANGED <<db, job>>
      BY <1>5, <1>typed DEF OpenDueDateForm, CancelDueDateForm, Fill, Forms
    <2>. QED BY <2>1, MoveFrame
  <1>6. ASSUME NEW d \in Dues, HandleQuickDueSubmit(d) PROVE MoveInv'
    BY <1>6, MoveSend DEF HandleQuickDueSubmit, Mutations
  <1>7. CASE StartEditing \/ EditTask \/ CancelEditing
    <2>1. form'.asked = form.asked /\ UNCHANGED <<db, job>>
      BY <1>7, <1>typed DEF StartEditing, EditTask, CancelEditing, Closed, Fill, Forms
    <2>. QED BY <2>1, MoveFrame
  <1>8. CASE SaveEdit
    BY <1>8, MoveSend DEF SaveEdit, Mutations
  <1>9. ASSUME NEW a \in Assignees, CreateTask(a) PROVE MoveInv'
    BY <1>9, MoveSend DEF CreateTask, Mutations
  <1>10. ASSUME NEW p \in People, AddProjectMember(p) \/ RemoveProjectMember(p) PROVE MoveInv'
    BY <1>10, MoveSend DEF AddProjectMember, RemoveProjectMember, Mutations
  <1>11. CASE AddComment \/ MarkAllRead
    BY <1>11, MoveSend DEF AddComment, MarkAllRead, Mutations
  <1>12. CASE ToggleBell
    <2>1. form'.asked = form.asked /\ UNCHANGED <<db, job>>
      BY <1>12, <1>typed DEF ToggleBell, Forms
    <2>. QED BY <2>1, MoveFrame
  <1>13. ASSUME NEW n \in 0..MaxOthers, MarkRead(n) PROVE MoveInv'
    <2>1. form'.asked = form.asked
      BY <1>13, <1>typed DEF MarkRead, Forms
    <2>. QED BY <1>13, <2>1, MoveSend DEF MarkRead, Mutations
  <1>. QED BY <1>1, <1>2, <1>3, <1>4, <1>5, <1>6, <1>7, <1>8, <1>9, <1>10, <1>11, <1>12,
              <1>13 DEF User, Assignees

\* Only a move changes the status.
LEMMA MoveServe ==
  ASSUME WebTypeOK, MoveInv, NEW k \in Mutations, Serve(k)
  PROVE  MoveInv'
  <1>. DEFINE r == Head(job[k].todo)
  <1>1. r \in Asked(k) /\ r \in Requests /\ job[k].answer = None
    BY ServeIs
  <1>2. CASE k # "move"
    <2>1. r.req # "move"
      BY <1>1, <1>2 DEF Asked, Asks, Mutations
    <2>2. db'.status = db.status
      BY <1>1, <2>1, ServeFields, AfterIs DEF WebTypeOK
    <2>. QED BY <1>2, <2>2, ServeFields, MoveFrame DEF Mutations
  <1>3. CASE k = "move"
    <2>1. r.req = "move"
      BY <1>1, <1>3 DEF Asked, Asks
    <2>2. /\ job["move"] # None /\ job'["move"] # None
          /\ job'["move"].todo = job["move"].todo
          /\ job'["move"].seen = job["move"].seen /\ job'["move"].late = job["move"].late
          /\ form'.asked = form.asked
          /\ job'["move"].answer = "ok" \/ job'["move"].answer = "refused"
          /\ job'["move"].answer = "ok" => /\ job'["move"].made = (db' # db)
                                           /\ db' = After(r)
      BY <1>3, ServeFields
    <2>3. ASSUME job'["move"].answer = "ok", ~job'["move"].made
          PROVE  job["move"].late
      <3>1. db.status = r.to
        BY <1>1, <2>1, <2>2, <2>3, AfterIs DEF WebTypeOK
      <3>2. job["move"].seen # db.status
        BY <1>3, <2>2, <3>1 DEF MoveInv
      <3>. QED BY <1>1, <1>3, <2>2, <3>2 DEF MoveInv, MovesAreOnWhatWasSeen
    <2>. QED BY <2>2, <2>3, WebConstantsOK DEF MoveInv, MovesAreOnWhatWasSeen
  <1>. QED BY <1>2, <1>3

LEMMA MoveNext == WebTypeOK /\ MoveInv /\ [Next]_vars => MoveInv'
  <1>. SUFFICES ASSUME WebTypeOK, MoveInv, [Next]_vars PROVE MoveInv'
    OBVIOUS
  <1>typed. form \in Forms /\ DOMAIN job = Mutations /\ "move" \in Mutations
    BY DEF WebTypeOK, JobsOK, Mutations
  <1>move. job["move"] # None => job["move"] \in JobRecs("move")
    BY <1>typed DEF WebTypeOK, JobsOK
  <1>1. CASE User
    BY <1>1, MoveUser
  <1>2. CASE OthersAct
    <2>. DEFINE j == job["move"]
    <2>1. /\ job'["move"] # None <=> job["move"] # None
          /\ j # None =>
               /\ job'["move"].todo = j.todo /\ job'["move"].answer = j.answer
               /\ job'["move"].made = j.made /\ job'["move"].seen = j.seen
               /\ job'["move"].late = (j.late \/ db'.status # db.status)
      BY <1>2, <1>typed, OthersFields
    <2>2. form'.asked # None =>
            /\ form.asked # None
            /\ form'.asked.to = form.asked.to /\ form'.asked.seen = form.asked.seen
            /\ form'.asked.late = (form.asked.late \/ db'.status # db.status)
      BY <1>2, OthersFields
    <2>. QED BY <2>1, <2>2 DEF MoveInv, MovesAreOnWhatWasSeen
  <1>3. CASE LoseFetch
    BY <1>3, MoveFrame DEF LoseFetch
  <1>4. ASSUME NEW q \in Queries, Fetch(q) \/ Arrive(q) PROVE MoveInv'
    BY <1>4, MoveFrame DEF Fetch, Arrive
  <1>5. ASSUME NEW k \in Mutations, Serve(k) PROVE MoveInv'
    BY <1>5, MoveServe
  <1>6. ASSUME NEW k \in Mutations, Proceed(k) PROVE MoveInv'
    <2>1. k # "move"
      <3>. SUFFICES ASSUME k = "move" PROVE FALSE
        OBVIOUS
      <3>1. job["move"] # None /\ Len(job["move"].todo) > 1
        BY <1>6, ProceedIs
      <3>2. Len(job["move"].todo) = 1
        BY <3>1 DEF MoveInv
      <3>. QED BY <3>1, <3>2
    <2>. QED BY <1>6, <1>typed, <2>1, MoveFrame DEF Proceed
  <1>7. ASSUME NEW k \in Mutations, Succeed(k) PROVE MoveInv'
    <2>1. db' = db /\ \A j \in Mutations : job'[j] = IF j = k THEN None ELSE job[j]
      BY <1>7, <1>typed DEF Succeed
    <2>2. CASE k = "move"
      <3>1. form'.asked = None
        BY <1>7, <1>typed, <2>2 DEF Succeed, FormAfterSuccess, Forms
      <3>. QED BY <1>typed, <2>1, <2>2, <3>1 DEF MoveInv, MovesAreOnWhatWasSeen
    <2>3. CASE k # "move"
      <3>1. form'.asked = form.asked
        BY <1>7, <1>typed, <2>3 DEF Succeed, FormAfterSuccess, Closed, Forms
      <3>. QED BY <1>typed, <2>1, <2>3, <3>1, MoveFrame
    <2>. QED BY <2>2, <2>3
  <1>8. ASSUME NEW k \in Mutations, GiveUp(k) PROVE MoveInv'
    <2>1. db' = db /\ \A j \in Mutations : job'[j] = IF j = k THEN None ELSE job[j]
      BY <1>8, <1>typed DEF GiveUp
    <2>2. CASE k = "move" /\ form.asked # None
      <3>1. form'.asked = [form.asked EXCEPT !.late = @ \/ form.asked.seen # db.status]
        BY <1>8, <1>typed, <2>2 DEF GiveUp, Forms
      <3>2. form.asked \in [to : {"PRODUCTION"}, seen : Statuses, late : BOOLEAN]
        BY <1>typed, <2>2 DEF Forms
      <3>3. /\ form'.asked.to = form.asked.to /\ form'.asked.seen = form.asked.seen
            /\ form'.asked.late = (form.asked.late \/ form.asked.seen # db.status)
        BY <3>1, <3>2
      <3>. QED BY <1>typed, <2>1, <2>2, <3>3 DEF MoveInv, MovesAreOnWhatWasSeen
    <2>3. CASE k = "move" /\ form.asked = None
      <3>1. form' = form
        BY <1>8, <2>3 DEF GiveUp
      <3>. QED BY <1>typed, <2>1, <2>3, <3>1 DEF MoveInv, MovesAreOnWhatWasSeen
    <2>4. CASE k # "move"
      <3>1. form' = form
        BY <1>8, <2>4 DEF GiveUp
      <3>. QED BY <1>typed, <2>1, <2>4, <3>1, MoveFrame
    <2>. QED BY <2>2, <2>3, <2>4
  <1>9. ASSUME NEW k \in Mutations, LoseCall(k) PROVE MoveInv'
    <2>1. UNCHANGED <<db, form>>
      BY <1>9 DEF LoseCall
    <2>2. CASE k = "move"
      <3>1. job["move"] # None /\ job'["move"] = [job["move"] EXCEPT !.answer = "lost"]
        BY <1>9, <1>typed, <2>2 DEF LoseCall
      <3>2. job'["move"] \in JobRecs("move")
        BY <1>move, <3>1 DEF JobRecs, Answers
      <3>3. job'["move"] # None
        BY <3>2, JobIsNotNone DEF Mutations
      <3>4. /\ job'["move"].todo = job["move"].todo /\ job'["move"].answer = "lost"
            /\ job'["move"].seen = job["move"].seen
        BY <1>move, <3>1 DEF JobRecs
      <3>. QED BY <2>1, <3>1, <3>3, <3>4, WebConstantsOK DEF MoveInv, MovesAreOnWhatWasSeen
    <2>3. CASE k # "move"
      BY <1>9, <1>typed, <2>1, <2>3, MoveFrame DEF LoseCall
    <2>. QED BY <2>2, <2>3
  <1>10. CASE UNCHANGED vars
    BY <1>10, MoveFrame DEF vars
  <1>. QED BY <1>1, <1>2, <1>3, <1>4, <1>5, <1>6, <1>7, <1>8, <1>9, <1>10 DEF Next, Answered

\* A move is asked for in the status its button was shown for, a form that waits
\* for a comment is about the status the task is in, and a move that is answered
\* well was made, whatever is fetched, lost and done elsewhere in between: unless
\* somebody else moved the task, or the user was faster than the page
\* (useTaskTransitions.ts, TasksService.transition).
THEOREM MovesSafe == Spec => []MovesAreOnWhatWasSeen
  <1>1. Init => WebTypeOK /\ MoveInv
    <2>1. Init => MoveInv
      BY DEF Init, NoForm, MoveInv, MovesAreOnWhatWasSeen, Mutations
    <2>. QED BY <2>1, InitWebTypes
  <1>2. WebTypeOK /\ MoveInv /\ [Next]_vars => (WebTypeOK /\ MoveInv)'
    BY WebTypesNext, MoveNext
  <1>3. MoveInv => MovesAreOnWhatWasSeen
    BY DEF MoveInv
  <1>. QED BY <1>1, <1>2, <1>3, PTL DEF Spec

-----------------------------------------------------------------------------
(* Why a query may hold old data.                                          *)

\* What a mutation changes is what its success fetches again, and what a handoff
\* and the creation of a task change besides.
Follows(k, q) ==
  \/ q \in Invalidated(k)
  \/ k = "move" /\ q \in {"members", "outside"}
  \/ k = "create" /\ q = "members"

Explained(q) ==
  \/ cause[q] \in {"others", "failed"}
  \/ cause[q] = "overtaken" /\ q \in {"list", "outside"}
  \/ cause[q] = "move" /\ q \in {"members", "outside"}
  \/ cause[q] = "create" /\ q = "members"
  \/ cause[q] \in Mutations /\ job[cause[q]] # None

\* Old data that is there, and old data that is about to be, have an explanation.
CauseInv ==
  \A q \in Queries :
    /\ cause[q] \in Mutations => Follows(cause[q], q)
    /\ Stale(q) => q \in marked \/ Explained(q)
    /\ fetch[q] # None /\ fetch[q] # See(db, q) => Explained(q)

LEMMA CauseFrame ==
  ASSUME CauseInv, UNCHANGED <<db, cache, cause>>, marked \subseteq marked',
         \A q \in Queries : fetch'[q] \in {None, fetch[q], See(db, q)},
         \A k \in Mutations : job[k] # None => job'[k] # None
  PROVE  CauseInv'
  BY DEF CauseInv, Explained, Stale

\* Whoever changed the rows is to blame.
LEMMA CauseBlame ==
  ASSUME CauseInv, WebTypeOK, NEW who, Blame(who, db'), UNCHANGED <<cache, fetch, marked>>,
         \A k \in Mutations : job[k] # None => job'[k] # None,
         \/ who = "others"
         \/ /\ who \in Mutations /\ job'[who] # None
            /\ \A q \in Queries : See(db', q) # See(db, q) => Follows(who, q)
  PROVE  CauseInv'
  <1>. SUFFICES ASSUME NEW q \in Queries
                PROVE  /\ cause'[q] \in Mutations => Follows(cause'[q], q)
                       /\ Stale(q)' => q \in marked' \/ Explained(q)'
                       /\ fetch'[q] # None /\ fetch'[q] # See(db', q) => Explained(q)'
    BY DEF CauseInv, Follows, Invalidated, OfTask, OfBell
  <1>1. CASE See(db', q) # See(db, q)
    <2>1. cause'[q] = who
      BY <1>1 DEF Blame
    <2>2. who = "others" => who \notin Mutations
      BY DEF Mutations
    <2>. QED BY <1>1, <2>1, <2>2 DEF Explained
  <1>2. CASE See(db', q) = See(db, q)
    <2>1. cause'[q] = cause[q]
      BY <1>2 DEF Blame
    <2>2. Explained(q) => Explained(q)'
      BY <2>1 DEF Explained
    <2>. QED BY <1>2, <2>1, <2>2 DEF CauseInv, Stale
  <1>. QED BY <1>1, <1>2

\* What a request changes of what the queries show.
LEMMA ServedFollows ==
  ASSUME WebTypeOK, NEW k \in Mutations, Serve(k), db' = After(Head(job[k].todo)),
         NEW q \in Queries, See(db', q) # See(db, q)
  PROVE  Follows(k, q)
  <1>. DEFINE r == Head(job[k].todo)
  <1>1. r \in Requests /\ r.req \in Asks(k)
        /\ (k \in {"save", "create"} /\ r.req = "add" => r.who \in Staff)
    BY ServeIs DEF Asked
  <1>. HIDE DEF r
  <1>2. /\ r.req # "move" => db'.status = db.status
        /\ r.req # "due" => db'.due = db.due
        /\ r.req # "update" => db'.assignee = db.assignee
        /\ r.req \notin {"add", "remove", "move"} => db'.project = db.project
        /\ r.req = "add" => db'.project = db.project \cup {r.who}
        /\ r.req \notin {"comment", "move"} => db'.comments = db.comments
        /\ r.req # "create" => db'.tasks = db.tasks
        /\ r.req \notin {"read", "readAll"} => db'.unread = db.unread
    BY <1>1, AfterIs DEF r, WebTypeOK
  <1>3. /\ r.req = "move" => k = "move"
        /\ r.req = "due" => k \in {"due", "save"}
        /\ r.req = "update" => k = "save"
        /\ r.req = "create" => k = "create"
        /\ r.req = "add" => k \in {"save", "create", "add"}
        /\ r.req = "remove" => k = "remove"
        /\ r.req = "comment" => k = "comment"
        /\ r.req = "read" => k = "read"
        /\ r.req = "readAll" => k = "readAll"
    BY <1>1 DEF Asks, Mutations
  <1>. USE SeeIs
  <1>4. CASE q = "task"
    <2>1. k \in {"move", "due", "save"}
      BY <1>2, <1>3, <1>4
    <2>. QED BY <1>4, <2>1, InvalidatedIs DEF Follows, OfTask
  <1>5. CASE q = "transitions"
    <2>1. k = "move"
      BY <1>2, <1>3, <1>5
    <2>. QED BY <1>5, <2>1, InvalidatedIs DEF Follows, OfTask
  <1>6. CASE q = "comments"
    <2>1. k \in {"move", "comment"}
      BY <1>2, <1>3, <1>6
    <2>. QED BY <1>6, <2>1, InvalidatedIs DEF Follows, OfTask
  <1>7. CASE q = "members"
    <2>1. k \in {"move", "save", "create", "add", "remove"}
      BY <1>2, <1>3, <1>7
    <2>. QED BY <1>7, <2>1, InvalidatedIs DEF Follows
  <1>8. CASE q = "outside"
    <2>0. Clients \ db'.project # Clients \ db.project
      <3>1. See(db, q) = Clients \ db.project /\ See(db', q) = Clients \ db'.project
        BY <1>8
      <3>. QED BY <3>1
    <2>1. k \in {"move", "save", "create", "add", "remove"}
      <3>1. db'.project # db.project
        BY <2>0
      <3>. QED BY <1>2, <1>3, <3>1
    <2>2. k \notin {"save", "create"}
      <3>. SUFFICES ASSUME k \in {"save", "create"} PROVE FALSE
        OBVIOUS
      <3>1. db'.project # db.project
        BY <2>0
      <3>2. r.req = "add"
        BY <1>2, <1>3, <3>1
      <3>3. r.who \in Staff
        BY <1>1, <3>2
      <3>4. Clients \ db'.project = Clients \ db.project
        BY <1>2, <3>2, <3>3, WebConstantsOK
      <3>. QED BY <2>0, <3>4
    <2>. QED BY <1>8, <2>1, <2>2, InvalidatedIs DEF Follows
  <1>9. CASE q = "tasks"
    <2>1. k = "create"
      BY <1>2, <1>3, <1>9
    <2>. QED BY <1>9, <2>1, InvalidatedIs DEF Follows
  <1>10. CASE q \in {"count", "list"}
    <2>1. k \in {"read", "readAll"}
      BY <1>2, <1>3, <1>10
    <2>. QED BY <1>10, <2>1, InvalidatedIs DEF Follows, OfBell
  <1>. QED BY <1>4, <1>5, <1>6, <1>7, <1>8, <1>9, <1>10 DEF Queries

LEMMA CauseUser ==
  ASSUME WebTypeOK, CauseInv, User
  PROVE  CauseInv'
  <1>frame. ASSUME UNCHANGED <<db, cache, fetch, marked, cause>>,
                   \A k \in Mutations : job[k] # None => job'[k] # None
            PROVE  CauseInv'
    BY <1>frame, CauseFrame
  <1>fill. ASSUME NEW new, Fill(new) PROVE CauseInv'
    BY <1>fill, <1>frame DEF Fill
  <1>send. ASSUME NEW k \in Mutations, NEW requests, Ready(k), Send(k, requests)
           PROVE  CauseInv'
    <2>1. UNCHANGED <<db, cache, fetch, marked, cause>>
      BY <1>send DEF Send
    <2>2. \A x \in Mutations : job[x] # None => job'[x] = job[x]
      BY <1>send DEF Send, Ready, WebTypeOK, JobsOK
    <2>. QED BY <1>frame, <2>1, <2>2
  <1>1. CASE \E c \in Clients : ToggleClient(c)
    BY <1>1, <1>fill DEF ToggleClient
  <1>2. ASSUME NEW o \in Offers, HandleTransition(o) PROVE CauseInv'
    BY <1>2, <1>fill, <1>send DEF HandleTransition, Mutations
  <1>3. CASE HandleTransitionWithComment
    <2>1. UNCHANGED <<db, cache, fetch, marked, cause>>
      BY <1>3 DEF HandleTransitionWithComment
    <2>2. \A x \in Mutations : job[x] # None => job'[x] = job[x]
      BY <1>3 DEF HandleTransitionWithComment, Ready, WebTypeOK, JobsOK
    <2>. QED BY <1>frame, <2>1, <2>2
  <1>4. CASE \/ CancelPendingTransition \/ OpenDueDateForm \/ CancelDueDateForm
             \/ StartEditing \/ EditTask \/ CancelEditing
    BY <1>4, <1>fill DEF CancelPendingTransition, OpenDueDateForm, CancelDueDateForm,
                         StartEditing, EditTask, CancelEditing
  <1>5. ASSUME NEW d \in Dues, HandleQuickDueSubmit(d) PROVE CauseInv'
    BY <1>5, <1>send DEF HandleQuickDueSubmit, Mutations
  <1>6. CASE SaveEdit
    BY <1>6, <1>send DEF SaveEdit, Mutations
  <1>7. ASSUME NEW a, CreateTask(a) PROVE CauseInv'
    BY <1>7, <1>send DEF CreateTask, Mutations
  <1>8. ASSUME NEW p, AddProjectMember(p) \/ RemoveProjectMember(p) PROVE CauseInv'
    BY <1>8, <1>send DEF AddProjectMember, RemoveProjectMember, Mutations
  <1>9. CASE AddComment \/ MarkAllRead
    BY <1>9, <1>send DEF AddComment, MarkAllRead, Mutations
  <1>10. CASE ToggleBell
    BY <1>10, <1>frame DEF ToggleBell
  <1>11. ASSUME NEW n, MarkRead(n) PROVE CauseInv'
    BY <1>11, <1>send DEF MarkRead, Mutations
  <1>. QED BY <1>1, <1>2, <1>3, <1>4, <1>5, <1>6, <1>7, <1>8, <1>9, <1>10, <1>11 DEF User

\* A mutation that succeeds has what it changed fetched again.
LEMMA CauseSucceed ==
  ASSUME WebTypeOK, CauseInv, NEW k \in Mutations, Succeed(k)
  PROVE  CauseInv'
  <1>1. /\ UNCHANGED <<db, cache>> /\ marked' = marked \cup Invalidated(k)
        /\ \A q \in Queries : fetch'[q] = IF q \in Invalidated(k) /\ Enabled(q) THEN None
                                          ELSE fetch[q]
        /\ \A q \in Queries : cause'[q] = IF Overtaken(q) /\ cause[q] = k THEN "overtaken"
                                          ELSE cause[q]
        /\ \A x \in Mutations : x # k => job'[x] = job[x]
    BY DEF Succeed, Invalidate, WebTypeOK, JobsOK
  <1>. SUFFICES ASSUME NEW q \in Queries
                PROVE  /\ cause'[q] \in Mutations => Follows(cause'[q], q)
                       /\ Stale(q)' => q \in marked' \/ Explained(q)'
                       /\ fetch'[q] # None /\ fetch'[q] # See(db', q) => Explained(q)'
    BY DEF CauseInv, Follows, Invalidated, OfTask, OfBell
  <1>2. CASE cause[q] # k
    <2>1. cause'[q] = cause[q] /\ (Explained(q) => Explained(q)')
      BY <1>1, <1>2 DEF Explained
    <2>. QED BY <1>1, <2>1 DEF CauseInv, Stale
  <1>3. CASE cause[q] = k /\ Overtaken(q)
    <2>1. cause'[q] = "overtaken" /\ "overtaken" \notin Mutations
      BY <1>1, <1>3 DEF Mutations
    <2>2. q \in {"list", "outside"}
      BY <1>3 DEF Overtaken, WebTypeOK, QueriesOK, Steady
    <2>. QED BY <2>1, <2>2 DEF Explained
  <1>4. CASE cause[q] = k /\ ~Overtaken(q)
    <2>1. cause'[q] = k /\ Follows(k, q)
      BY <1>1, <1>4 DEF CauseInv
    <2>2. CASE q \in Invalidated(k)
      BY <1>1, <1>4, <2>1, <2>2 DEF Overtaken
    <2>3. CASE q \notin Invalidated(k)
      BY <2>1, <2>3 DEF Follows, Explained
    <2>. QED BY <2>2, <2>3
  <1>. QED BY <1>2, <1>3, <1>4

LEMMA CauseNext == WebTypeOK /\ CauseInv /\ [Next]_vars => CauseInv'
  <1>. SUFFICES ASSUME WebTypeOK, CauseInv, [Next]_vars PROVE CauseInv'
    OBVIOUS
  <1>typed. DOMAIN job = Mutations
    BY DEF WebTypeOK, JobsOK
  <1>1. CASE User
    BY <1>1, CauseUser
  <1>2. CASE OthersAct
    <2>1. UNCHANGED <<cache, fetch, marked>>
      BY <1>2 DEF OthersAct
    <2>. QED BY <1>2, <2>1, OthersActIs, OthersFields, CauseBlame
  <1>3. CASE LoseFetch
    <2>1. \A q \in Queries : fetch'[q] \in {None, fetch[q]}
      BY <1>3 DEF LoseFetch, WebTypeOK, QueriesOK
    <2>. QED BY <1>3, <2>1, CauseFrame DEF LoseFetch
  <1>4. ASSUME NEW q \in Queries, Fetch(q) PROVE CauseInv'
    <2>1. \A x \in Queries : fetch'[x] \in {fetch[x], See(db, x)}
      BY <1>4 DEF Fetch, WebTypeOK, QueriesOK
    <2>. QED BY <1>4, <2>1, CauseFrame DEF Fetch
  <1>5. ASSUME NEW q \in Queries, Arrive(q) PROVE CauseInv'
    <2>1. /\ fetch[q] # None /\ cache'[q] = fetch[q] /\ fetch'[q] = None
          /\ \A x \in Queries \ {q} : cache'[x] = cache[x] /\ fetch'[x] = fetch[x]
          /\ marked' = marked \ {q} /\ UNCHANGED <<db, job>>
      BY <1>5 DEF Arrive, WebTypeOK, QueriesOK
    <2>2. /\ fetch[q] # See(db, q) => cause' = cause
          /\ fetch[q] = See(db, q) => cause'[q] = "none"
          /\ \A x \in Queries \ {q} : cause'[x] = cause[x]
      BY <1>5 DEF Arrive, WebTypeOK, QueriesOK
    <2>3. "none" \notin Mutations
      BY DEF Mutations
    <2>4. ASSUME NEW x \in Queries
          PROVE  /\ cause'[x] \in Mutations => Follows(cause'[x], x)
                 /\ Stale(x)' => x \in marked' \/ Explained(x)'
                 /\ fetch'[x] # None /\ fetch'[x] # See(db', x) => Explained(x)'
      <3>1. CASE x # q
        <4>1. Explained(x) => Explained(x)'
          BY <2>1, <2>2, <3>1 DEF Explained
        <4>. QED BY <2>1, <2>2, <3>1, <4>1 DEF CauseInv, Stale
      <3>2. CASE x = q /\ fetch[q] = See(db, q)
        BY <2>1, <2>2, <2>3, <3>2 DEF Stale
      <3>3. CASE x = q /\ fetch[q] # See(db, q)
        <4>1. Explained(q)'
          BY <2>1, <2>2, <3>3 DEF CauseInv, Explained
        <4>. QED BY <2>1, <2>2, <3>3, <4>1 DEF CauseInv
      <3>. QED BY <3>1, <3>2, <3>3
    <2>. QED BY <2>4 DEF CauseInv, Follows, Invalidated, OfTask, OfBell
  <1>6. ASSUME NEW k \in Mutations, Serve(k) PROVE CauseInv'
    <2>1. UNCHANGED <<cache, fetch, marked>>
      BY <1>6 DEF Serve
    <2>2. \A x \in Mutations : job[x] # None => job'[x] # None
      BY <1>6, ServeFields
    <2>3. CASE UNCHANGED <<db, cause>>
      BY <2>1, <2>2, <2>3, CauseFrame
    <2>4. CASE ~UNCHANGED <<db, cause>>
      <3>1. Blame(k, db') /\ db' = After(Head(job[k].todo)) /\ job'[k] # None
        BY <1>6, <2>4, ServeFields
      <3>2. \A q \in Queries : See(db', q) # See(db, q) => Follows(k, q)
        BY <1>6, <3>1, ServedFollows
      <3>. QED BY <2>1, <2>2, <3>1, <3>2, CauseBlame
    <2>. QED BY <2>3, <2>4
  <1>7. ASSUME NEW k \in Mutations, Proceed(k) \/ LoseCall(k) PROVE CauseInv'
    <2>1. UNCHANGED <<db, cache, fetch, marked, cause>>
      BY <1>7 DEF Proceed, LoseCall
    <2>2. WebTypeOK'
      BY <1>7, WebTypesNext DEF Next, Answered
    <2>3. \A x \in Mutations : x # k => job'[x] = job[x]
      BY <1>7, <1>typed DEF Proceed, LoseCall
    <2>4. job'[k] # None
      <3>1. job[k] # None /\ job[k] \in JobRecs(k)
        BY <1>7 DEF Proceed, LoseCall, WebTypeOK, JobsOK
      <3>2. CASE Proceed(k)
        BY <1>typed, <3>2, ProceedIs, JobIsNotNone
      <3>3. CASE LoseCall(k)
        <4>. DEFINE j == [job[k] EXCEPT !.answer = "lost"]
        <4>1. j \in JobRecs(k)
          BY <3>1 DEF JobRecs, Answers
        <4>2. job'[k] = j
          BY <1>typed, <3>3 DEF LoseCall
        <4>. HIDE DEF j
        <4>. QED BY <4>1, <4>2, JobIsNotNone
      <3>. QED BY <1>7, <3>2, <3>3
    <2>. QED BY <2>1, <2>3, <2>4, CauseFrame
  <1>8. ASSUME NEW k \in Mutations, Succeed(k) PROVE CauseInv'
    BY <1>8, CauseSucceed
  <1>9. ASSUME NEW k \in Mutations, GiveUp(k) PROVE CauseInv'
    <2>1. /\ UNCHANGED <<db, cache, fetch, marked>>
          /\ \A q \in Queries : cause'[q] = IF cause[q] = k THEN "failed" ELSE cause[q]
          /\ \A x \in Mutations : x # k => job'[x] = job[x]
      BY <1>9, <1>typed DEF GiveUp
    <2>2. "failed" \notin Mutations
      BY DEF Mutations
    <2>3. \A q \in Queries : Explained(q) => Explained(q)'
      BY <2>1 DEF Explained
    <2>4. \A q \in Queries : cause'[q] \in Mutations => Follows(cause'[q], q)
      BY <2>1, <2>2 DEF CauseInv
    <2>. QED BY <2>1, <2>3, <2>4 DEF CauseInv, Stale, Follows, Invalidated, OfTask, OfBell
  <1>10. CASE UNCHANGED vars
    BY <1>10, CauseFrame DEF vars
  <1>. QED BY <1>1, <1>2, <1>3, <1>4, <1>5, <1>6, <1>7, <1>8, <1>9, <1>10 DEF Next, Answered

\* A query of the page holds old data only while it is about to be fetched again or
\* the user's own mutation is on its way, or because somebody else changed it, a
\* chain failed half way or overtook a fetch of what was switched off: of all
\* mutations that succeed only a handoff and the creation of a task leave the
\* members out of date (useTaskMutations.ts, useProjectMembers.ts,
\* useProjectPageModel.ts, NotificationBell.tsx).
THEOREM StaleSafe == Spec => []StaleHasCause
  <1>1. Init => WebTypeOK /\ CauseInv
    <2>1. Init => CauseInv
      BY DEF Init, CauseInv, Stale, Mutations
    <2>. QED BY <2>1, InitWebTypes
  <1>2. WebTypeOK /\ CauseInv /\ [Next]_vars => (WebTypeOK /\ CauseInv)'
    BY WebTypesNext, CauseNext
  <1>3. WebTypeOK /\ CauseInv => StaleHasCause
    <2>1. WebTypeOK => visit.shows \subseteq Queries
      BY WebConstantsOK DEF WebTypeOK
    <2>. QED BY <2>1 DEF CauseInv, Explained, StaleHasCause
  <1>. QED BY <1>1, <1>2, <1>3, PTL DEF Spec

=============================================================================
