------------------------------ MODULE WebPages ------------------------------
(***************************************************************************)
(* One browser tab that shows the task page or the project page            *)
(* (apps/web/src/pages, hooks, components): what its queries have cached   *)
(* of the server's rows, the forms that are filled in from the cache, and  *)
(* the mutations, which are chains of requests put together when a button  *)
(* is clicked.  Other users change the rows in the meantime.               *)
(***************************************************************************)
EXTENDS TaskTransition, FiniteSets, Sequences

CONSTANTS
  None, Staff, Clients, Dues,
  Visits,      \* what the user comes for: [page, role, acts,
               \* shows, finds, unread, others]
  MaxActs,     \* bound: mutations started and clicks on the bell
  MaxOthers,   \* bound: changes made by others
  MaxFaults    \* bound: requests or answers lost

Queries == {"task", "transitions", "comments", "members", "outside", "tasks",
            "count", "list"}
Mutations == {"move", "due", "save", "comment", "create", "add", "remove",
              "read", "readAll"}
Pages == {"task", "project"}
Fields == {"status", "due", "assignee", "project", "comments", "tasks"}

ASSUME WebConstantsOK ==
  /\ Staff \cap Clients = {}
  /\ None \notin Staff \cup Clients \cup {"nobody", "ok", "refused", "lost"}
  /\ None \notin Dues
  /\ Visits \subseteq [page : Pages, role : Roles, acts : SUBSET Mutations,
                       shows : SUBSET Queries, finds : SUBSET Statuses,
                       unread : SUBSET {0}, others : SUBSET Fields]
  /\ MaxActs \in Nat /\ MaxOthers \in Nat /\ MaxFaults \in Nat

VARIABLES
  visit,
  db,       \* the server's rows, as far as the pages show them
  cache,    \* data of each query
  fetch,    \* by query: the answer on its way, or None
  marked,   \* queries invalidated and not fetched since
  broken,   \* the last fetch of the task failed: an error instead of the page
  form,
  job,      \* by mutation: the requests it has left, and the last answer
  acts, others, faults,
  cause     \* history: by query, who changed its data since it was fetched

bounds == <<acts, others, faults>>
vars == <<visit, db, cache, fetch, marked, broken, form, job, bounds, cause>>

People   == Staff \cup Clients
Rows     == [status : Statuses, due : Dues \cup {None}, assignee : Staff \cup {"nobody"},
             project : SUBSET People, comments : Nat, tasks : Nat,
             unread : SUBSET (0..MaxOthers)]

\* What a GET answers.
See(rows, q) ==
  CASE q = "task"        -> [status |-> rows.status, due |-> rows.due,
                             assignee |-> rows.assignee]
    [] q = "transitions" -> rows.status
    [] q = "comments"    -> rows.comments
    [] q = "members"     -> rows.project
    [] q = "outside"     -> Clients \ rows.project
    [] q = "tasks"       -> rows.tasks
    [] q = "count"       -> Cardinality(rows.unread)
    [] q = "list"        -> rows.unread

NoForm == [editing |-> FALSE, due |-> None, assignee |-> "nobody", touched |-> FALSE,
           moved |-> FALSE, panel |-> FALSE, asked |-> None, chosen |-> {},
           bell |-> FALSE]

\* The page has just been loaded; the clients outside are asked for when needed.
Init ==
  /\ visit \in Visits
  /\ \E s \in visit.finds, p \in SUBSET People :
       db = [status |-> s, due |-> None, assignee |-> "nobody", project |-> p,
             comments |-> 0, tasks |-> 0, unread |-> visit.unread]
  /\ cache = [q \in Queries |-> IF q = "outside" THEN {} ELSE See(db, q)]
  /\ fetch = [q \in Queries |-> None] /\ marked = {"outside"} /\ broken = FALSE
  /\ form = NoForm /\ job = [k \in Mutations |-> None]
  /\ acts = 0 /\ others = 0 /\ faults = 0
  /\ cause = [q \in Queries |-> "none"]

-----------------------------------------------------------------------------
(* The query cache.                                                         *)

Agency == visit.role \in AGENCY_ROLES
Offers == BuildAllowedTransitionTargets(visit.role, cache["transitions"])
MayHandOff == cache["task"].status = "INTERNAL_REVIEW"
                \/ \E o \in Offers : o.to = "CLIENT_HANDOFF"

\* The queries of the page that are switched on; "members" and "outside" do not
\* poll, and nothing says when they are fetched again.
Enabled(q) ==
  /\ q \in visit.shows
  /\ q \in {"task", "transitions", "comments"} => visit.page = "task"
  /\ q \in {"members", "outside"} => Agency
  /\ q = "outside" => visit.page = "task" /\ MayHandOff
  /\ q = "tasks" => visit.page = "project"
  /\ q = "list" => form.bell

Stale(q) == cache[q] # See(db, q)

\* A poll, a refetch or a look at the window again.  A fetch that brings what is
\* there already is left out.
Fetch(q) ==
  /\ Enabled(q) /\ fetch[q] = None /\ (Stale(q) \/ q \in marked)
  /\ fetch' = [fetch EXCEPT ![q] = See(db, q)]
  /\ UNCHANGED <<visit, db, cache, marked, broken, form, job, bounds, cause>>

Arrive(q) ==
  /\ fetch[q] # None
  /\ cache' = [cache EXCEPT ![q] = fetch[q]] /\ fetch' = [fetch EXCEPT ![q] = None]
  /\ marked' = marked \ {q} /\ broken' = (broken /\ q # "task")
  /\ cause' = IF fetch[q] = See(db, q) THEN [cause EXCEPT ![q] = "none"] ELSE cause
  /\ UNCHANGED <<visit, db, form, job, bounds>>

\* Lost, and so is the one retry: the data stays, but the task page shows an
\* error.  (Of another query, a fetch that is lost is as good as none.)
LoseFetch ==
  /\ fetch["task"] # None /\ fetch' = [fetch EXCEPT !["task"] = None]
  /\ faults < MaxFaults /\ faults' = faults + 1
  /\ broken' = TRUE
  /\ UNCHANGED <<visit, db, cache, marked, form, job, acts, others, cause>>

\* invalidateQueries: what is switched on is fetched afresh, a fetch on its way
\* is dropped.  A fetch of what has been switched off goes on: its answer may be
\* from before, and counts as fresh.
Invalidate(qs) ==
  /\ marked' = marked \cup qs
  /\ fetch' = [q \in Queries |-> IF q \in qs /\ Enabled(q) THEN None ELSE fetch[q]]

\* Switched off while it is fetched: the list of the bell that was closed, the
\* clients outside after the task has left the handoff.
Overtaken(q) == fetch[q] # None /\ ~Enabled(q)

\* Mutant of OfTask: the offered moves are forgotten.
OfTaskAlone == {"task", "comments", "tasks"}

OfTask == {"task", "transitions", "comments", "tasks"}   \* invalidateTask
OfBell == {"count", "list"}

\* What the success of each mutation invalidates.
Invalidated(k) ==
  CASE k \in {"move", "due"}   -> OfTask \cup OfBell
    [] k = "save"              -> OfTask \cup OfBell \cup {"members"}
    [] k = "comment"           -> {"comments"} \cup OfBell
    [] k = "create"            -> {"tasks"}
    [] k \in {"add", "remove"} -> {"members", "outside"}
    [] k \in {"read", "readAll"} -> OfBell

-----------------------------------------------------------------------------
(* The user.  A button is disabled while its mutation is pending.           *)

Ready(k) == /\ k \in visit.acts /\ job[k] = None /\ acts < MaxActs
            /\ visit.page = "task" => ~broken
CanEdit  == Agency /\ cache["task"].status # "DONE"

Send(k, requests) ==
  /\ job' = [job EXCEPT ![k] = [todo |-> requests, answer |-> None, made |-> FALSE,
                                touched |-> form.touched, moved |-> form.moved,
                                seen |-> cache["transitions"],
                                late |-> cache["transitions"] # db.status]]
  /\ acts' = acts + 1
  /\ UNCHANGED <<visit, db, cache, fetch, marked, broken, others, faults, cause>>

Fill(new) ==
  /\ form' = new
  /\ UNCHANGED <<visit, db, cache, fetch, marked, broken, job, bounds, cause>>

Request(what, who)  == [req |-> what, who |-> who]
MoveTo(to, clients, comment) ==
  [req |-> "move", to |-> to, clients |-> clients, comment |-> comment]
DueOn(date)         == [req |-> "due", due |-> date]

\* The picker offers the clients outside the project only.
ShowHandoffPicker == CanEdit /\ cache["outside"] # {} /\ MayHandOff

ToggleClient(c) ==
  /\ "move" \in visit.acts /\ ~broken /\ ShowHandoffPicker /\ c \in cache["outside"]
  /\ job["move"] = None /\ job["due"] = None
  /\ Fill([form EXCEPT !.chosen = IF c \in @ THEN @ \ {c} ELSE @ \cup {c}])

\* A button of the offers: the move, or the form that asks for its comment.
HandleTransition(o) ==
  /\ Ready("move") /\ job["due"] = None
  /\ o \in Offers /\ cache["task"].status # "DONE"
  /\ o.to = "CLIENT_HANDOFF" /\ ShowHandoffPicker => form.chosen # {}
  /\ IF o.requiresComment
     THEN Fill([form EXCEPT !.asked = [to |-> o.to, seen |-> cache["transitions"],
                                       late |-> cache["transitions"] # db.status]])
     ELSE /\ Send("move", <<MoveTo(o.to, IF o.to = "CLIENT_HANDOFF" THEN form.chosen
                                         ELSE {}, FALSE)>>)
          /\ UNCHANGED form

\* The form stays, with the target it was opened for, whatever is on offer now.
HandleTransitionWithComment ==
  /\ Ready("move") /\ form.asked # None
  /\ job' = [job EXCEPT !["move"] =
       [todo |-> <<MoveTo(form.asked.to, {}, TRUE)>>, answer |-> None, made |-> FALSE,
        touched |-> FALSE, moved |-> FALSE, seen |-> form.asked.seen,
        late |-> form.asked.late]]
  /\ acts' = acts + 1
  /\ UNCHANGED <<visit, db, cache, fetch, marked, broken, form, others, faults, cause>>

CancelPendingTransition ==
  form.asked # None /\ ~broken /\ Fill([form EXCEPT !.asked = None])

OpenDueDateForm ==
  /\ Ready("due") /\ job["move"] = None
  /\ CanEdit /\ ~form.editing /\ ~form.panel
  /\ Fill([form EXCEPT !.panel = TRUE])

\* The panel is on the card of the actions.
ShowActionsCard == /\ cache["task"].status # "DONE"
                   /\ Offers # {} \/ (CanEdit /\ ~form.editing)

CancelDueDateForm ==
  /\ form.panel /\ ShowActionsCard /\ ~broken /\ job["due"] = None
  /\ Fill([form EXCEPT !.panel = FALSE])

HandleQuickDueSubmit(date) ==
  /\ Ready("due") /\ form.panel /\ ShowActionsCard
  /\ Send("due", <<DueOn(date)>>) /\ UNCHANGED form

DueOutdated == \/ cache["task"].due # db.due
               \/ fetch["task"] # None /\ fetch["task"].due # db.due

\* Mutant: the form still holds the date of the last time it was open.
StartEditingKeepsDraft ==
  /\ Ready("save") /\ CanEdit /\ ~form.editing
  /\ Fill([form EXCEPT !.editing = TRUE, !.assignee = cache["task"].assignee,
             !.touched = FALSE, !.moved = DueOutdated])

\* The form copies what is cached.
StartEditing ==
  /\ Ready("save") /\ CanEdit /\ ~form.editing
  /\ Fill([form EXCEPT !.editing = TRUE, !.due = cache["task"].due,
             !.assignee = cache["task"].assignee, !.touched = FALSE,
             !.moved = DueOutdated])

\* What a closed form held is of no use: opening it fills it in again.
Closed(f) == [f EXCEPT !.editing = FALSE, !.due = None, !.assignee = "nobody",
                       !.touched = FALSE, !.moved = FALSE]

\* (What is typed while a save is on its way is left out.)
EditTask ==
  /\ form.editing /\ CanEdit /\ ~broken /\ job["save"] = None
  /\ \/ \E a \in Staff \cup {"nobody"} : Fill([form EXCEPT !.assignee = a])
     \/ \E d \in Dues \cup {None} : Fill([form EXCEPT !.due = d, !.touched = TRUE])

CancelEditing ==
  /\ form.editing /\ CanEdit /\ ~broken /\ job["save"] = None
  /\ Fill([Closed(form) EXCEPT !.panel = FALSE])

\* An assignee who is not among the cached members is added first.
EnsureAssignee(a) ==
  IF a = "nobody" \/ a \in cache["members"] THEN << >> ELSE <<Request("add", a)>>

\* The due date is sent if it is not the one cached by now, or with a reason.
SaveEdit ==
  /\ Ready("save") /\ form.editing /\ CanEdit
  /\ \E reason \in BOOLEAN :
       /\ reason => form.touched
       /\ Send("save", EnsureAssignee(form.assignee)
            \o <<Request("update", form.assignee)>>
            \o (IF form.due # cache["task"].due \/ reason
                THEN <<DueOn(form.due)>> ELSE << >>))
  /\ UNCHANGED form

\* On the project page, and below a task.
CreateTask(a) ==
  /\ Ready("create")
  /\ Send("create", EnsureAssignee(a) \o <<Request("create", a)>>) /\ UNCHANGED form

AddProjectMember(p) ==
  /\ Ready("add") /\ p \notin cache["members"]
  /\ Send("add", <<Request("add", p)>>) /\ UNCHANGED form

RemoveProjectMember(p) ==
  /\ Ready("remove") /\ p \in cache["members"]
  /\ Send("remove", <<Request("remove", p)>>) /\ UNCHANGED form

AddComment ==
  /\ Ready("comment") /\ Send("comment", <<Request("comment", None)>>) /\ UNCHANGED form

\* The bell.
ToggleBell ==
  /\ visit.acts \cap {"read", "readAll"} # {} /\ acts < MaxActs /\ acts' = acts + 1
  /\ form' = [form EXCEPT !.bell = ~@]
  /\ UNCHANGED <<visit, db, cache, fetch, marked, broken, job, others, faults, cause>>

\* "Open" also leaves the bell; "Mark read" does not.
MarkRead(n) ==
  /\ Ready("read") /\ form.bell /\ n \in cache["list"]
  /\ Send("read", <<[req |-> "read", notice |-> n]>>)
  /\ \E close \in BOOLEAN : form' = [form EXCEPT !.bell = ~close]

MarkAllRead ==
  /\ Ready("readAll") /\ form.bell /\ cache["count"] > 0
  /\ Send("readAll", <<Request("readAll", None)>>) /\ UNCHANGED form

-----------------------------------------------------------------------------
(* The server: every request is checked against the rows as they are.       *)

Accepted(r) ==
  CASE r.req = "add"                  -> r.who \notin db.project
    [] r.req \in {"update", "create"} -> r.who \in db.project \cup {"nobody"}
    [] r.req = "remove"               -> r.who \in db.project
    [] r.req = "move" ->
         \/ r.to = db.status
         \/ /\ Verdict(visit.role, db.status, r.to, r.comment) = "ok"
            /\ r.to = "CLIENT_HANDOFF" => r.clients \cup (db.project \cap Clients) # {}
    [] OTHER                          -> TRUE

Moved(rows, to, clients) ==
  [rows EXCEPT !.status = to, !.project = @ \cup clients,
     !.comments = IF RequiresComment(rows.status, to) THEN @ + 1 ELSE @]

After(r) ==
  CASE r.req = "add"     -> [db EXCEPT !.project = @ \cup {r.who}]
    [] r.req = "remove"  -> [db EXCEPT !.project = @ \ {r.who}]
    [] r.req = "update"  -> [db EXCEPT !.assignee = r.who]
    [] r.req = "create"  -> [db EXCEPT !.tasks = @ + 1]
    [] r.req = "due"     -> [db EXCEPT !.due = r.due]
    [] r.req = "comment" -> [db EXCEPT !.comments = @ + 1]
    [] r.req = "read"    -> [db EXCEPT !.unread = @ \ {r.notice}]
    [] r.req = "readAll" -> [db EXCEPT !.unread = {}]
    [] r.req = "move"    -> IF r.to = db.status THEN db ELSE Moved(db, r.to, r.clients)

\* Whoever changes what a query shows is to blame until the change is fetched.
Blame(who, rows) ==
  cause' = [q \in Queries |-> IF See(rows, q) # See(db, q) THEN who ELSE cause[q]]

\* The edit form and a save on its way learn that the due date is another one.
FormAfter(rows) == [form EXCEPT !.moved = @ \/ (form.editing /\ rows.due # db.due)]

Serve(k) ==
  /\ job[k] # None /\ job[k].answer = None
  /\ LET r == Head(job[k].todo) IN
     IF Accepted(r)
     THEN /\ db' = After(r) /\ Blame(k, db')
          /\ form' = FormAfter(db')
          /\ job' = [j \in Mutations |->
               IF j = k THEN [job[k] EXCEPT !.answer = "ok", !.made = db' # db]
               ELSE IF job[j] = None THEN None
               ELSE [job[j] EXCEPT !.moved = @ \/ db'.due # db.due]]
     ELSE /\ job' = [job EXCEPT ![k].answer = "refused"]
          /\ UNCHANGED <<db, form, cause>>
  /\ UNCHANGED <<visit, cache, fetch, marked, broken, bounds>>

\* The request or its answer is lost.
LoseCall(k) ==
  /\ job[k] # None /\ job[k].answer \in {None, "ok"}
  /\ faults < MaxFaults /\ faults' = faults + 1
  /\ job' = [job EXCEPT ![k].answer = "lost"]
  /\ UNCHANGED <<visit, db, cache, fetch, marked, broken, form, acts, others, cause>>

Proceed(k) ==
  /\ job[k] # None /\ job[k].answer = "ok" /\ Len(job[k].todo) > 1
  /\ job' = [job EXCEPT ![k].todo = Tail(@), ![k].answer = None]
  /\ UNCHANGED <<visit, db, cache, fetch, marked, broken, form, bounds, cause>>

\* Mutant: the form that asks for a comment stays open after another move.
FormAfterSuccessStays(k) ==
  CASE k = "move" -> [form EXCEPT !.chosen = {}, !.panel = FALSE]
    [] k = "due"  -> [form EXCEPT !.panel = FALSE]
    [] k = "save" -> Closed(form)
    [] OTHER      -> form

\* A success closes the forms it came from; a move closes the others as well.
FormAfterSuccess(k) ==
  CASE k = "move" -> [form EXCEPT !.asked = None, !.chosen = {}, !.panel = FALSE]
    [] k = "due"  -> [form EXCEPT !.panel = FALSE]
    [] k = "save" -> Closed(form)
    [] OTHER      -> form

Succeed(k) ==
  /\ job[k] # None /\ job[k].answer = "ok" /\ Len(job[k].todo) = 1
  /\ job' = [job EXCEPT ![k] = None]
  /\ form' = FormAfterSuccess(k)
  /\ Invalidate(Invalidated(k))
  /\ cause' = [q \in Queries |-> IF Overtaken(q) /\ cause[q] = k THEN "overtaken"
                                 ELSE cause[q]]
  /\ UNCHANGED <<visit, db, cache, broken, bounds>>

\* The error is shown; requests of the chain that were served stay served.
GiveUp(k) ==
  /\ job[k] # None /\ job[k].answer \in {"refused", "lost"}
  /\ job' = [job EXCEPT ![k] = None]
  /\ form' = IF form.asked # None /\ k = "move"
             THEN [form EXCEPT !.asked.late = @ \/ form.asked.seen # db.status] ELSE form
  /\ cause' = [q \in Queries |-> IF cause[q] = k THEN "failed" ELSE cause[q]]
  /\ UNCHANGED <<visit, db, cache, fetch, marked, broken, bounds>>

-----------------------------------------------------------------------------
(* Other users change the rows, and the bell rings, except for a handoff.   *)

ByOthers(field) ==
  CASE field = "status"   ->
         {Moved(db, s, {}) : s \in {x \in Statuses :
            /\ \E role \in Roles : CanTransition(role, db.status, x)
            /\ x = "CLIENT_HANDOFF" => db.project \cap Clients # {}}}
    [] field = "due"      -> {[db EXCEPT !.due = d] : d \in Dues}
    [] field = "assignee" -> {[db EXCEPT !.assignee = a] :
                                a \in (db.project \cap Staff) \cup {"nobody"}}
    [] field = "project"  -> {[db EXCEPT !.project = (@ \cup {p}) \ {x}] :
                                p \in People, x \in People}
    [] field = "comments" -> {[db EXCEPT !.comments = @ + 1]}
    [] field = "tasks"    -> {[db EXCEPT !.tasks = @ + 1]}

OthersAct ==
  /\ others < MaxOthers /\ others' = others + 1
  /\ \E rows \in UNION {ByOthers(field) : field \in visit.others} :
       LET rung == IF rows.status = "CLIENT_HANDOFF" /\ db.status # "CLIENT_HANDOFF"
                   THEN rows ELSE [rows EXCEPT !.unread = @ \cup {others'}]
           late(x) == x = None \/ rows.status = db.status IN
       /\ \E q \in visit.shows : See(rung, q) # See(db, q)
       /\ db' = rung
       /\ Blame("others", rung)
       /\ form' = IF late(form.asked) THEN FormAfter(rows)
                  ELSE [FormAfter(rows) EXCEPT !.asked.late = TRUE]
       /\ job' = [k \in Mutations |->
            IF job[k] = None THEN None
            ELSE [job[k] EXCEPT !.moved = @ \/ rows.due # db.due,
                                !.late = @ \/ rows.status # db.status]]
  /\ UNCHANGED <<visit, cache, fetch, marked, broken, acts, faults>>

User ==
  \/ \E c \in Clients : ToggleClient(c)
  \/ \E o \in Offers : HandleTransition(o)
  \/ HandleTransitionWithComment \/ CancelPendingTransition
  \/ OpenDueDateForm \/ CancelDueDateForm \/ (\E d \in Dues : HandleQuickDueSubmit(d))
  \/ StartEditing \/ EditTask \/ CancelEditing \/ SaveEdit
  \/ (\E a \in Staff \cup {"nobody"} : CreateTask(a))
  \/ (\E p \in People : AddProjectMember(p) \/ RemoveProjectMember(p))
  \/ AddComment \/ ToggleBell \/ MarkAllRead \/ (\E n \in 0..MaxOthers : MarkRead(n))

Answered(k) == Serve(k) \/ Proceed(k) \/ Succeed(k) \/ GiveUp(k)

Next ==
  \/ User \/ OthersAct \/ LoseFetch
  \/ \E q \in Queries : Fetch(q) \/ Arrive(q)
  \/ \E k \in Mutations : Answered(k) \/ LoseCall(k)

Spec == Init /\ [][Next]_vars

-----------------------------------------------------------------------------
Requests ==
  [req : {"add", "remove"}, who : People]
    \cup [req : {"update", "create"}, who : Staff \cup {"nobody"}]
    \cup [req : {"comment", "readAll"}, who : {None}]
    \cup [req : {"move"}, to : Statuses, clients : SUBSET Clients, comment : BOOLEAN]
    \cup [req : {"read"}, notice : 0..MaxOthers]
    \cup [req : {"due"}, due : Dues \cup {None}]

Jobs == [todo : Seq(Requests), answer : {None, "ok", "refused", "lost"},
         made : BOOLEAN, touched : BOOLEAN, moved : BOOLEAN, seen : Statuses, late : BOOLEAN]

ASSUME NoneIsNoJob == None \notin Jobs

TypeOK ==
  /\ visit \in Visits /\ db \in Rows /\ broken \in BOOLEAN /\ marked \subseteq Queries
  /\ \A q \in Queries : fetch[q] # None => Enabled(q) \/ q \in {"list", "outside"}
  /\ form.asked # None => form.asked.to = "PRODUCTION"
  /\ form.chosen \subseteq Clients /\ form.due \in Dues \cup {None}
  /\ \A k \in Mutations : job[k] # None =>
       k \in visit.acts /\ job[k] \in Jobs /\ job[k].todo # << >>
  /\ acts \in 0..MaxActs /\ others \in 0..MaxOthers /\ faults \in 0..MaxFaults

\* What a query shows is the server's, or the query is about to be fetched, or the
\* user's own mutation is still on its way, or others have changed it, or a chain
\* failed half way, or the mutation overtook a fetch of what was switched off in
\* between; of all mutations that succeed only a handoff and the creation
\* of a task leave the project's members (and the clients outside) out of date.
StaleHasCause ==
  \A q \in visit.shows : Stale(q) =>
    \/ q \in marked \/ cause[q] \in {"others", "failed"}
    \/ cause[q] = "overtaken" /\ q \in {"list", "outside"}
    \/ cause[q] = "move" /\ q \in {"members", "outside"}
    \/ cause[q] = "create" /\ q = "members"
    \/ cause[q] \in Mutations /\ job[cause[q]] # None

\* A save whose user has not touched the due date sends one only if the date has
\* moved since the form was filled in (and then sets it back to what it was).
UntouchedDueIsKept ==
  job["save"] # None /\ ~job["save"].touched =>
    \A i \in DOMAIN job["save"].todo :
      job["save"].todo[i].req = "due" => job["save"].moved

\* A move is asked for in the status its button was shown for, a form that waits
\* for a comment is about the status the task is in, and a move that is answered
\* well was made: unless somebody else moved the task, or the user was faster
\* than the page.
MovesAreOnWhatWasSeen ==
  /\ form.asked # None /\ form.asked.seen # db.status =>
       form.asked.late \/ job["move"] # None
  /\ job["move"] # None =>
       /\ job["move"].answer = None /\ job["move"].seen # db.status => job["move"].late
       /\ job["move"].answer = "ok" /\ ~job["move"].made => job["move"].late
=============================================================================
