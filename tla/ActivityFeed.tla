---------------------------- MODULE ActivityFeed ----------------------------
(***************************************************************************)
(* The activity feed of a project                                          *)
(* (apps/api/src/projects/project-activity.service.ts, activity-cursor.ts  *)
(* and the feed of apps/web/src/pages/ProjectPage.tsx).  A page merges     *)
(* three tables that are read by three statements, newest row first, and   *)
(* ends at a cursor, the time and id of its last row.  A row gets its time *)
(* when it is written and is seen when its transaction commits, so rows    *)
(* may turn up behind the cursor, and two rows may have one time.          *)
(***************************************************************************)
EXTENDS Integers, Sequences, FiniteSetsExt, SequencesExt

CONSTANTS
  FeedTables, \* task_events, comments and task_due_changes
  FeedTasks,  \* tasks of the project
  RowIds,     \* ids a row may get, of all tables; Nat in the order of cuids
  PageSize,   \* rows asked for at a time
  MaxLimit,   \* most rows that may be asked for (ProjectActivityQueryDto)
  MaxTime     \* bound: instants at which rows are written

ASSUME FeedConstantsOK ==
  /\ RowIds \subseteq Nat \ {0}
  /\ PageSize \in Nat \ {0} /\ MaxLimit \in Nat /\ MaxTime \in Nat \ {0}

Start == [at |-> MaxTime + 1, id |-> 0]     \* no cursor: before every row

VARIABLES
  now,      \* the wall clock
  rows,     \* committed rows: id, time, table, task
  writing,  \* rows written by transactions that are not committed yet
  visible,  \* tasks the reader may see (buildTaskListWhere)
  request,  \* what the reader asked for: limit and cursor, or none in flight
  unread,   \* tables the page in progress has still to read
  found,    \* rows its statements have returned
  shown,    \* rows the reader has got since it opened the feed, in order
  next,     \* nextCursor of the last page; Start before the first, End after the last
  due       \* history: rows to be shown, there when the feed was opened and seen ever since

feedVars == <<now, rows, writing, visible, request, unread, found, shown, next, due>>

End == [at |-> 0, id |-> 0]
Nothing == [limit |-> 0, cursor |-> Start]

\* orderBy createdAt desc, id desc; compareActivityItems is the same order.
Newer(r, q) == r.at > q.at \/ (r.at = q.at /\ r.id > q.id)

\* Mutant of Behind: the rows of the cursor's own instant are left out.
BehindByTime(r, cursor) == r.at < cursor.at

\* Mutant of Behind: the row of the cursor comes again.
BehindOrAt(r, cursor) == r.at < cursor.at \/ (r.at = cursor.at /\ r.id <= cursor.id)

\* buildActivityCursorWhere.
Behind(r, cursor) == r.at < cursor.at \/ (r.at = cursor.at /\ r.id < cursor.id)

Sorted(S) ==
  CHOOSE s \in [1..Cardinality(S) -> S] :
    \A i, j \in 1..Cardinality(S) : i < j => Newer(s[i], s[j])
Cut(s, n) == SubSeq(s, 1, IF Len(s) < n THEN Len(s) ELSE n)

-----------------------------------------------------------------------------
FeedInit ==
  /\ now = 1 /\ rows = {} /\ writing = {} /\ visible = FeedTasks
  /\ request = Nothing /\ unread = {} /\ found = {} /\ shown = <<>>
  /\ next = Start /\ due = {}

Tick == /\ now < MaxTime /\ now' = now + 1
        /\ UNCHANGED <<rows, writing, visible, request, unread, found, shown, next, due>>

\* A status change, a comment or a due date change is written, and commits.
WriteRow ==
  /\ \E id \in RowIds \ {r.id : r \in rows \cup writing}, table \in FeedTables, task \in FeedTasks :
       writing' = writing \cup {[id |-> id, at |-> now, table |-> table, task |-> task]}
  /\ UNCHANGED <<now, rows, visible, request, unread, found, shown, next, due>>

CommitRow ==
  /\ \E r \in writing : writing' = writing \ {r} /\ rows' = rows \cup {r}
  /\ UNCHANGED <<now, visible, request, unread, found, shown, next, due>>

\* A task enters or leaves the part of the board the reader sees.
Regroup ==
  /\ \E t \in FeedTasks :
       /\ visible' = IF t \in visible THEN visible \ {t} ELSE visible \cup {t}
       /\ due' = {r \in due : r.task # t}
  /\ UNCHANGED <<now, rows, writing, request, unread, found, shown, next>>

-----------------------------------------------------------------------------
Ask(limit, cursor) ==
  /\ request = Nothing
  /\ request' = [limit |-> limit, cursor |-> cursor]
  /\ unread' = FeedTables /\ found' = {}

\* The feed is opened, or opened again with more rows ("Load more" of the web
\* page): the new answer replaces the old one.
OpenFeed ==
  /\ \E limit \in {PageSize * k : k \in 1..3} :
       /\ limit <= MaxLimit
       /\ limit = PageSize \/ (Len(shown) = limit - PageSize /\ next # End)
       /\ Ask(limit, Start)
  /\ shown' = <<>> /\ next' = Start
  /\ due' = {r \in rows : r.task \in visible}
  /\ UNCHANGED <<now, rows, writing, visible>>

\* "Load more" past what the API accepts: the page has nothing under its new key.
LoadTooMuch ==
  /\ request = Nothing /\ next \notin {Start, End}
  /\ Len(shown) + PageSize > MaxLimit
  /\ shown' = <<>> /\ next' = End /\ due' = {}
  /\ UNCHANGED <<now, rows, writing, visible, request, unread, found>>

\* A caller of the API goes on behind the cursor.
NextPage ==
  /\ next \notin {Start, End}
  /\ Ask(PageSize, next)
  /\ UNCHANGED <<now, rows, writing, visible, shown, next, due>>

\* One of the three statements: take limit + 1 of the table's visible rows.
ReadTable ==
  \E table \in unread :
    LET seen == {r \in rows : /\ r.table = table /\ r.task \in visible
                              /\ Behind(r, request.cursor)} IN
    /\ found' = found \cup Range(Cut(Sorted(seen), request.limit + 1))
    /\ unread' = unread \ {table}
    /\ UNCHANGED <<now, rows, writing, visible, request, shown, next, due>>

\* nextCursor: where the next page starts, if there are more rows than asked for.
CursorAfter(items, page) ==
  IF Len(items) > request.limit
    THEN [at |-> Last(page).at, id |-> Last(page).id] ELSE End

\* The rows of the three tables are merged, sorted and cut.
AnswerPage ==
  /\ request # Nothing /\ unread = {}
  /\ LET items == Sorted(found)
         page  == Cut(items, request.limit) IN
     /\ shown' = shown \o page
     /\ next' = CursorAfter(items, page)
  /\ request' = Nothing /\ found' = {}
  /\ UNCHANGED <<now, rows, writing, visible, unread, due>>

FeedNext == \/ Tick \/ WriteRow \/ CommitRow \/ Regroup
            \/ OpenFeed \/ LoadTooMuch \/ NextPage \/ ReadTable \/ AnswerPage

FeedSpec == FeedInit /\ [][FeedNext]_feedVars

-----------------------------------------------------------------------------
\* However the pages are cut and whatever commits between them, the reader
\* gets the rows newest first and none of them twice.
FeedInOrder ==
  \A i \in 1..Len(shown) : \A j \in 1..(i - 1) : Newer(shown[j], shown[i])

\* A row that was there when the feed was opened, of a task the reader saw all
\* the time, is not skipped: the cursor never passes it unshown, at a page's
\* end or between rows of one instant.
NothingSkipped ==
  \A r \in due : next # Start /\ ~Behind(r, next) => r \in Range(shown)
=============================================================================
