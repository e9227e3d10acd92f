# ApproveFlow: verification of the approval flow and what surrounds it

ApproveFlow lets an agency and its clients move tasks through an approval flow.
This directory holds TLA+ specifications of the parts of its server and its web
client where order, failure and concurrency decide whether the product keeps its
promises, the TLC configurations that check them on small instances, and
machine-checked proofs (TLAPS) about server and client for instances of any size.

The specifications are translated from the code of `src/apps/api/src` and
`src/apps/web/src`. The product text `src/docs/product/approveflow-spec.md` is used
for one thing only: to say what the code promises (`TaskApproval`, and the remarks
in section 4).

## 1. The system

The server is a NestJS application over PostgreSQL (Prisma). Requests run
concurrently, several replicas may share the database, and every `await` of a
query lets other requests in. A `prisma.$transaction` runs at READ COMMITTED: an
UPDATE takes the row's lock until the end of the transaction, a plain read takes
none. Everything outside a transaction is a sequence of autonomous statements.
The web client (React with react-query) decides nothing the server does not
decide again, but it works on cached answers, and what it sends is put together
from them.

| Component | State | Operations | Meets | What is hard | What makes it correct |
|---|---|---|---|---|---|
| **Transition matrix** `tasks/domain/task-transition.ts` | none | `assertTransitionWithPayload`, `resolveTransition`, `buildAllowedTransitionTargets` | called by the lifecycle; offers go to the web client | two copies of the comment rule, a hand-written table | offers = accepted moves; no dead end; both sides needed for DONE |
| **Task lifecycle** `tasks/tasks.service.ts`, `tasks-transition.service.ts`, `common/*-access.ts`, `common/client-project-access.ts` | `tasks.status`, `task_events`, `client_handoff_acks`, `client_approval_actions`, comments of change requests, notifications | PATCH `/tasks/:id/status` | members and projects (reads, foreign keys), notifications (rows in its transaction), outbox (after it) | racing moves and decisions; role read before the transaction; rollback halfway; clients found in two reads; mail after the commit | log, status, consent records, answers and announcements agree; closure needs the client's consent to this round |
| **Due dates** `tasks.service.ts updateDue` | `tasks.due_at`, `task_due_changes` | PATCH `/tasks/:id/due` | tasks, projects | old value read before the transaction; row logged before the update that serializes | last commit wins, nothing applied unlogged, history names what was replaced |
| **Email outbox** `mail/email-outbox.service.ts`, `mail/mail.service.ts` | `email_outbox` rows: status, attempts, nextRetryAt, progress list | enqueue, poll (timer, and after an enqueue), claim, deliver, record | lifecycle (enqueue), SMTP server | lease, retries, crash between send and record, overlapping workers that overwrite each other | exclusive while leased, no duplicate without a cause, bounded retries, settled in the end |
| **Members and invites** `workspaces/workspace-members.service.ts`, `invites/workspace-invites.service.ts`, `auth.service.ts register` | `users`, `workspace_members`, `workspace_invites` | invite, update role, remove, register, accept | every permission check reads it | count-then-write, check-then-accept, account created before its invite is accepted | an admin remains; an invite is good for one acceptance; nobody who registered is left with a pending invite |
| **Tasks, comments, projects, visibility** `tasks/tasks.service.ts`, `tasks/comments`, `projects/*`, `common/task-scope.ts`, `common/task-access.ts` | `tasks` (assignee), `comments`, `projects`, `project_members` | create, edit, assign, comment, add and remove members, edit and delete the project | roles of the workspace; lifecycle and due dates (same rows) | checks before the write, none in its transaction; removal leaves rows behind; visibility written as a WHERE clause and as a check | what is written was allowed; stray assignees and members have a cause; lists show what can be opened |
| **Activity feed** `projects/project-activity.service.ts`, `activity-cursor.ts` | none | a page of three tables merged by time | events, comments, due changes | cursor over tables read one after another, rows committed late, equal times | newest first, nothing twice, nothing skipped |
| **Sessions** `auth/auth.service.ts`, `auth-token.service.ts`, `jwt.strategy.ts`, `auth-cookies.ts` | `users.tokenVersion`, cookies | login, refresh (rotation), logout, who am I | every request | two refreshes with one token, answers that set cookies out of order | one live version; a logout or a reset ends them all |
| **Password reset** `auth/password-reset.service.ts` | `password_reset_tokens`, `users.passwordHash` | ask for a link, reset | sessions, mail | delete and insert in two statements; check before the transaction | one use, one live link; sessions end |
| **Web API client** `web/src/api/client.ts`, `auth/AuthProvider.tsx` | one shared refresh promise per tab, the user that is shown | fetch, retry after 401, boot, sign in, sign out | sessions; two tabs share the cookies | many calls behind one refresh; a boot that a login overtakes | no call waits for nothing; nobody is signed out without a reason |
| **Task page, project page, bell** `web/src/pages`, `hooks`, `components` | cached queries, forms, mutations in flight | move, comment, edit, due date, create, members, mark read | the server's rows, changed by others too | late answers, chains of calls that fail halfway, forms filled from old data | quiet pages show the truth, saves change what was touched, moves are on what was seen |
| **Settings page** `web/src/pages/WorkspaceMembersPage.tsx`, `models/useWorkspaceMembersPageModel.ts`, `components/settings`, `components/ui/Dropdown.tsx` | drafts, inputs, open menus, dialogs, calls and the fetch of the members in flight | workspace and profile texts, roles, invites, removal, deletion | members and workspaces of the server | drafts that are kept while inputs are filled again; two calls about one member; a fetch that is dropped, refused or switched off | the last role picked is the one the table comes to show; a save sends what is shown |
| **Due date picker** `web/src/components/ui/DueDatePicker.tsx`, `DatePickerInput.tsx`, `lib/calendar.ts`, `lib/format.ts` | a day, the open month | pick, presets, clear, submit, display | statistics (`projects/project-stats.service.ts`) | a day in one clock, an instant in another | the day survives the way to the server and back |
| Project statistics | none | counts by status, overdue | tasks | the instant a task becomes overdue; DONE tasks are left out, which the pages do not do | counts every task that is not DONE and that a page calls overdue |
| Notifications `notifications` | `notifications` | notify, list, mark read | written by lifecycle and comments | read mark against a new row | the bell shows what is unread |
| Workspaces; login, landing and list pages; shared package; configuration, health, migrations | single writes, presentation or wiring | | | | |

`PROJECT.json` lists the same components with what is and is not modelled, and
every hazard at its line.

## 2. Modules

| Module | What it is | Its state and actions in the code |
|---|---|---|
| `TaskTransition` | the pure matrix as sets of rules and operators | `TRANSITION_RULES`, `Verdict` = `assertTransitionWithPayload`, offers |
| `TaskMatrix` | groups of roles that ask for one target after the other | each ask is one `assertTransitionWithPayload`; the two copies of the rules side by side |
| `TaskApproval` | abstract specification: a task's approval round as one variable with six moves | the product's bilateral bridges, no code |
| `TaskLifecycle` | concurrent status changes over the database | a request slot `r` has a place `pc[r]` between two awaits and what it read in `req[r]`; tables are variables; one action per database round trip |
| `TaskDue` | concurrent due date changes of one task | the same shape; `rowLock` is taken by the update only |
| `EmailOutbox` | rows, workers, lease, retries, crashes | a worker is one call of `processPending`; `job[w]` is its copy of the row |
| `MailDelivery` | abstract specification: a mail is handed to its recipients in a number of tries, until it is complete or given up | what the outbox promises, no code |
| `WorkspaceMembers` | roles, invites, registration | one action per statement, because almost nothing is in a transaction; users stand for their addresses |
| `ProjectTasks` | tasks, assignees, comments and members of one project | a request is checks, then one write; the workspace's roles change under it |
| `AuthSessions` | one account, one browser with several tabs | a call of `apiFetch` is sent, served (in one or two statements), and answered; its answer sets the cookies when it arrives; `renewal[t]` is the tab's `refreshPromise` |
| `ActivityFeed` | pages of the feed and the web page's way of loading more | one action per table that a page reads; rows get their time when written and are seen when committed |
| `WebPages` | task page, project page and bell in one tab | `cache[q]`, `fetch[q]` are a query and its answer on the way; `job[k]` is a mutation with the requests it has left; `form` is what the page holds between clicks: which panels are open, the date filled in, the move that waits for a comment |
| `Dropdown` | the drop-down list as operators on its state | open, close, arrows, hover, choice |
| `SettingsPage` | the settings page, composed with `Dropdown` | what is fetched, typed, displayed and in flight; `fetch` is the query of the members on its way: asked by a poll or an invalidation, answered or refused, arriving or lost, each a step; the server is used by others too |
| `DueDatePicker` | calendar days and instants in the browser | hours as numbers, `24 * d` is the midnight of day `d`; months, presets, conversion; what pages and statistics call overdue, before and after the task is DONE |
| `TaskLifecycleProofs`, `TaskDueProofs`, `EmailOutboxProofs`, `WorkspaceMembersProofs`, `ProjectTasksProofs`, `AuthSessionsProofs`, `WebPagesProofs`, and `WebClientProofs` (date picker, feed, settings page) | theorems, section 5 | |
| `MC*` | instances for TLC | constants, requests, visits, symmetry; `MCTables` also puts the matrix, the feed and the date picker, which share nothing, side by side |

`TaskLifecycle`, `WorkspaceMembers`, `ProjectTasks`, `WebPages` and `SettingsPage`
extend `TaskTransition` (roles and matrix); `TaskLifecycle` instantiates
`TaskApproval` under the refinement mapping `RoundOf`, which reads the round off the
*records* of a task (events, acknowledgements, decisions with the role that was
checked), not off its status. `EmailOutbox` instantiates `MailDelivery`: the tries of a
mail are its row's attempts, who got it is the mail server's knowledge (`delivered`),
and the two things that may befall a mail, overrun and unrecorded, are a lease that
ran out under a worker and a delivery nobody noted.

### How a request is cut into steps

A step ends where the code awaits the database. `TaskLifecycle`:

`Receive` (loadTask) → `ReadRole` → `CheckMembership` (client or member only) →
`CheckProject` (and the matrix, which reads nothing) → `AnswerNoop`, or
`CasHit`/`CasMiss` (UPDATE … WHERE id AND status) → after a miss `Reread`, after a
hit on a handoff `FindNamedClients` + `AddNamedClients` or `FindAllClients` +
`KeepProjectClients` → `Commit` → on a handoff `EnqueueMail`/`LoseMail` → `Return`. `Fail` may end any of them:
inside the transaction with a rollback, outside with nothing to undo.

What a transaction writes is invisible until it commits, so all its writes are
published by `Commit`; only its lock is visible before (`rowLock`). Reads made
inside the transaction of rows that others may change (the workspace's clients,
the project's members) are steps of their own. The compare-and-set waits while
another transaction holds the row, which is the guard on `rowLock` of `CasHit`.
`CasMiss` does not wait: the update's WHERE clause selects no row.

`SetRole`, `AddProjectMember`, `RemoveProjectMember` and `DeleteProject` are what the
other services do to the tables a status change reads. Deleting the project
waits for locked task rows and takes everything with a foreign key along;
notifications and queued mail have none and stay.

`ProjectTasks` cuts the services of tasks, comments and projects in the same way:
`CheckAccess` → `CheckProject` (a creation looks at the project first) → `CheckAssignee`
→ `CheckInProject` (if an assignee is named), or `FindTarget` (members), then the write
of the kind of request. An edit without an assignee leaves the task's alone. What a
database constraint refuses (a second membership, a row whose project is gone) is
the guard of the write; the error is `Fail`.

In `EmailOutbox` time is the flag `due[e]` (nextRetryAt ≤ now). A claim or a
backoff clears it and `TimePasses` sets it. The lease is 60 s, nothing renews it,
and one recipient alone may take 35 s of SMTP timeouts, so a lease may run out
under its worker; such lapses, and faults (crash, database error, lost SMTP
answer), are counted against bounds.

In `AuthSessions` a refused call that may be repeated joins its tab's renewal
(`Renew`), waits, and is sent once more when the promise resolves
(`RenewalArrives`) or fails with the others (`RenewalFails`). A token is its version
and the number of the password its chain of refreshes began with. Cookies run out
at any time, requests and answers are lost, tabs are loaded again.

In the web modules a click builds a chain of requests from what the page holds
(`Send`); the server takes them one by one (`Serve`), the chain goes on with each
good answer (`Proceed`) and ends with the success handler (`Succeed`), which
invalidates queries and closes forms, or with the error handler (`GiveUp`). Queries
are answered with the rows of the moment they are served and arrive later;
`OthersAct`, and `RolesElsewhere`, `TextsElsewhere` and `DeletedElsewhere` of the settings
page, are the other users.

### History variables

Some variables have no counterpart in the code and no action reads them; they
only let a property speak about the past: `seen`, `event`, `role` of requests and
events and `unmailed` in `TaskLifecycle`; `delivered`, `again`, `lapsed`, `unsure` in
`EmailOutbox`; `prev`, `at`, `seen`, `alone`, `commits` in `TaskDue`; `uses`, `shared`,
`overtaken`, `lowered`, `leftOut` and `stale` in `WorkspaceMembers`; `strayed`,
`behind` and `overtaken` (of a request) in `ProjectTasks`; `closed`, `by`, `excused`,
`overtook`, `uses`, `crossed` and the password number in tokens in `AuthSessions`;
`due` in `ActivityFeed`; `picked` in `DueDatePicker`; `cause`, and `late`, `seen`, `made`,
`touched`, `moved` of forms and jobs in `WebPages`; `overlaid`, `pick`, `overtaken` and `old`
of a fetch in `SettingsPage`. (`role` of an event is also the role the code checked the move with;
the code does not store it.)

`touched` is the one that an action looks at: a reason for a new due date counts as
touching it, so `SaveEdit` sends a reason only then.

## 3. Runs

All bounds are constants named in the modules: a request that could pass a bound
is not started, so nothing is cut off halfway.

| Run | Instance | Checks | Shows |
|---|---|---|---|
| `lifecycle_race` | manager and client, 2 slots, 5 events, 1 outside change, the way from BRIEF to the client's acceptance | `TypeOK`, `HistoryExplainsStatus`, `AnswersMatchHistory`, `HandoffHasRecipients`, `AnnouncementsMatchHistory`, `HandoffsAreMailed`, `LogIsAppendOnly` | log, answers, announcements and handoff mail agree under races, failures, demotions, removals and deletion; nothing logged is rewritten, nothing deleted comes back |
| `lifecycle_rounds` | 1 slot, 10 events, all statuses as targets, 1 outside change | `ApprovalIsBilateral`, `ConsentRecordsMatchHistory` | the service implements `TaskApproval` over lives with several rounds: recall, refusal, second handoff, closure; acknowledgements, decisions and change-request comments are those of the log |
| `lifecycle_live` | 2 slots, 3 events, fairness | `EveryRequestAnswered` | whoever waits for a row is answered, however the holder ends |
| `tables` | matrix: all 16 groups of roles × 7 statuses × 7 targets; feed: up to 3 rows of 2 tables and 2 tasks at 2 instants, pages of 1, at most 2; dates: clocks −11, 0, 11 and 12 hours from UTC, 4 instants, 4 days to click on, 7 months, open and DONE tasks | `OffersMatchVerdicts`, `BothSidesCloseATask`, `FeedInOrder`, `NothingSkipped`, `DaySurvives` | the offered moves are the accepted ones and a task can be finished by both sides only; the feed shows rows in order, once, and skips none that was there; a day comes back as it was picked, and pages and statistics agree on what is overdue as far as they do |
| `outbox_work` | 2 workers, 2 mails (2 clients and 1), polls of 1 row, 2 attempts, 1 lapse, 1 fault, fairness | `RecordsTellDeliveries`, `OneDelivererPerLease`, `DuplicatesHaveCause`, `RetriesAreBounded`, `MailIsDelivered`, `EveryMailSettled` | what the outbox guarantees, which exceptions it really has, and that it implements `MailDelivery` |
| `due_race` | one agency user, 2 slots, 2 dates, 3 rows, 1 outside change | `LastCommitWins`, `HistoryTrueUnlessOverlapped` | the due date is always the last committed change's; a row names the value it replaced unless another change was committed in between |
| `members_race` | an admin and a user without account, 2 slots, 2 invites, every kind of request (the user never acts on the own membership or gives a role back; invites are for members) | `AdminLossHasCause`, `InviteReuseHasCause`, `NoInviteStranded` | the overlaps and failures that lose an admin, reuse an invite or strand one are exactly the ones named |
| `members_oldinvite` | 1 slot | `AlwaysAnAdmin` is **violated** | even without concurrency the last admin can lose the role, to an old invite |
| `project_tasks` | a manager and a member, 1 task, 2 slots, 1 further membership row, 1 comment, 1 change of a role, every kind of request | `ListsMatchAccess`, `StrayRowsHaveCause`, `WritesWereAllowed` | lists agree with single-task access; an assignee or member who should not be there comes from a change that overlapped or followed the write |
| `sessions` | 2 tabs with 2 and 1 calls, 3 calls begun, 1 loss, 2 reset links | `SessionsKnowThePassword`, `LoggedOutUntilLogin`, `RefusalHasCause`, `LinksWorkOnce`, `NobodyWaitsForNothing`, `SignOutsAreMeant` | a logout or a reset ends every session; a tab is refused only for a reason that is named; no call waits for nothing |
| `web_pages` | one member of staff and one client, 6 kinds of visits, 2 acts, 1 change by others, 1 fault | `StaleHasCause`, `UntouchedDueIsKept`, `MovesAreOnWhatWasSeen` | what a page that has become quiet may still show wrongly, what a save may change, and from which status a move is sent |
| `settings` | the user, another admin and one more user; visits about texts (a user without a name), about rows and the own profile, or about invites; 2 calls, 1 change elsewhere or loss, 2 texts typed or roles picked | `LastPickWins`, `SavesWhatIsShown` | the role picked last is the role given, and the one the table shows or will show, with the one exception of section 4; a save sends what the inputs show |

Why these bounds. Two slots give every pair of requests every interleaving, and
slots are reused, so a third request may begin while the second runs. In
`lifecycle_race` five events reach a handoff, its acceptance and a recall with a
second handoff; whole lives need more, which `lifecycle_rounds` has (ten: two rounds
and closure) with one request at a time; races within such lives are covered by
`ConsentSafe`, which is proved for any number of requests. One task is enough: tasks share only the project's deletion, and the
proved theorems hold for any number. In the outbox a second mail is left to
the next poll, because a poll takes one row, one lapse puts two workers on one row, one fault hits each place
in turn, and two attempts give one retry and one giving up. The due date run
needs three rows for a history with an overlapped row between others. Two users
suffice for members: one admin to lose and one who is invited, joins, is
promoted and then finds the old invite. In `project_tasks` the manager writes while
the member is assigned, removed, demoted or taken in again. In `sessions` three
calls are what an overtaken refresh takes: two of one tab that share a renewal
and one of the other tab that rotates, logs out or resets in between. The feed
needs two rows at one instant and one that commits late; two tables show that
they are read one after the other. In `web_pages` and `settings` one change by
others between any two steps is what makes an answer, a form or a draft outdated;
the visits keep what does not interact apart.

The largest runs have 3.2 million states (`settings`), 2.3 million (`project_tasks`), 1.6
million (`lifecycle_race`) and 1.2 million (`web_pages`).

`SYMMETRY` permutes request slots (in `sessions` the two calls of one
tab, in `tables` tables and tasks of the feed), in runs without liveness; the
permuted values are interchangeable in every action. `CHECK_DEADLOCK FALSE` is used
where the system may stop: all mail is settled (`outbox_work`), the
project is deleted (`project_tasks`), the user has done what there is to do
(`sessions`, `web_pages`, `settings`), a group without roles asks nothing (`tables`).

Every property of a passing run has a mutant, an alternative definition in the
module with a plausible mistake (a forgotten condition of the compare-and-set, a
rollback that keeps the lock, notifications through the plain connection, an
uncounted attempt, a reset that keeps its link, a list without the member's WHERE
clause, a success handler that forgets a query, …); with the mutant in place of the
definition TLC finds the property violated. They stand right before the definition
they change and are used by nothing else.

### Fairness

`TaskLifecycle`: weak fairness of a request's own steps and of the response (the
event loop runs what is pending), and strong fairness of the compare-and-set,
because it is enabled only while the row is free and PostgreSQL grants row locks
in the order of arrival. `Fail` and the environment have none: nothing may depend
on a failure. `EmailOutbox`: weak fairness of each worker's steps (the interval
timer keeps polling; SMTP calls have timeouts) and of time. Faults and enqueueing
have none. The other modules state safety only: what a user or a browser does
next is up to them.

## 4. What the runs found

* **A workspace may lose its last admin** (`members_oldinvite`). Accepting an invite
  sets the role of the invite on an existing membership without
  `assertNotLastAdmin`. Two demotions or removals at once do it too, because
  count and write are separate statements; `AdminLossHasCause` says that
  there is no third way. In the same manner `InviteReuseHasCause` confines double
  acceptance to requests that both read the invite before either used it.

What the models show without a run of its own, as the exceptions that properties
name:

* **Two workers may deliver one mail.** The claim sets nextRetryAt 60 s ahead once; a
  delivery to several recipients may take longer, and the next poll of another
  replica (or of the same one, the timer does not wait) claims the row again,
  against the comment at `email-outbox.service.ts:86`. `DuplicatesHaveCause` says what
  is true: duplicates come only from a lapse, a lost SMTP answer or an unrecorded
  delivery.
* **The due date history may name a wrong old value.** `updateDue` logs the value it
  loaded before the transaction, while `approveflow-spec.md:44` promises old and new
  value. For the same reason the newest history row need not be the task's due
  date: rows are stamped when inserted and applied when the row lock is granted.
  `HistoryTrueUnlessOverlapped` confines the first to changes before which another one
  was committed after their load, and the second to overlapping transactions.
* **A created task may leave the members' list outdated.** `createTask` of the web
  client invalidates the tasks and not the members, although its chain may add the
  assignee to the project; the next task for the same assignee then tries to add
  the member again and is refused with a conflict, where the form says that the
  assignee will be added automatically. `StaleHasCause` names this case, and the
  handoff that adds clients, as the only successful calls that leave a list old.
* **The feed stops at a hundred rows.** Each "Load more" asks for a larger page, and the
  API takes at most 100: past that the request is refused and the page shows an
  empty feed (`LoadTooMuch`).
* **Noon in UTC is the next day for clocks twelve hours ahead or more**, so a due date is
  displayed a day late there; the form gets the right day back (`DaySurvives`).
* **A bell that is closed and opened again may show old notices.** The list is
  fetched only while the bell is open. Invalidating it does not reach a fetch that
  is under way while the bell is closed; the answer, from before a mark, counts as
  fresh. The page's list of clients outside the project is switched off in the same
  manner. `StaleHasCause` names both (`overtaken`); the attempt to prove it without
  them failed on this step. The run did not have it while all notices were
  written by others and MaxOthers was 1; now a visit may begin with an unread one.
* **The table of members may go back to an older role.** A changed role is shown only
  when the members have been fetched again; until then, and if the fetch fails, the
  table has the old role or an error. And as with the bell, a poll under way when the
  query is switched off (the user was a client for a while) is not dropped by an
  invalidation: its answer counts as fresh, and the table shows the role from before
  until the next poll. `LastPickWins` names this case (`overtaken`).
* **Pages and statistics disagree on finished tasks.** A page calls a task with a past due
  date overdue whatever its status; `overdueDue` counts only tasks that are not DONE
  (`project-stats.service.ts:32`). Of other tasks what a page calls overdue is counted,
  and the count is ahead of the page by half a day at most (`DaySurvives`).
* **Drafts of the settings page are never cleared.** When somebody else changes a text,
  the input is filled again but the draft stays, and the next save sends the draft;
  `SavesWhatIsShown` names this as its exception (`overlaid`).

Behaviour of the code that no document rules out, but a reader may want to
know, is in the model and in the hazard list: a decision sent for one round is
applied to the next if the task left and came back (the compare-and-set compares
only the status); a handoff's mail is lost if the process stops between commit
and enqueue, or if the insert fails (`HandoffsAreMailed` says that this is the only way); removing somebody from the workspace leaves project rows and
assignments behind.

## 5. What is proved

Every theorem is for all sets of users, tasks, slots, mails, tabs and so on, every
initial state that the module admits and every bound, from the named assumptions on the constants alone
(`ConstantsOK`, `DueConstantsOK`, `OutboxConstantsOK`, `MemberConstantsOK`, `NoneIsNoRow`,
`ProjectConstantsOK`, `NoneIsNoRequest`, `SessionConstantsOK`, `NoneIsNothing`,
`WebConstantsOK`, `NoneIsNoJob`, `SettingsConstantsOK`, `FeedConstantsOK`, `DateConstantsOK`): values
are of their sets, numbers are numbers, clocks are at most twelve hours behind and
fourteen ahead of UTC, and the value that stands for nothing is none of the others.

**Task lifecycle** (`TaskLifecycleProofs`).

* `TypeCorrect`: `Spec => []TypeOK`. `TypeOK` is not inductive: that an event's role
  is a role and its statuses are statuses depends on what the request holds when it
  commits. `TypeInv` adds `RequestsCarryChecks`: a request past `loadTask` holds a
  status (not the mark of a deleted task), one past the role check holds a role.
* `HistorySafe`: `Spec => []HistoryExplainsStatus`. `Commit` logs the status the request
  *read* as the event's `from`; that the task still has it needs the row lock. The
  strengthening is `LockKeepsStatus`: a request inside its transaction holds the
  lock of its task and the task's status is the one it read. It is established by
  the compare-and-set, which is enabled only on a free row whose status matches,
  kept by every other request because nobody else writes a locked row (another
  compare-and-set waits, a deletion waits), and used by `Commit`. `HistoryInv` =
  `TypeInv ∧ LockKeepsStatus ∧ HistoryExplainsStatus` is inductive. Steps that touch
  neither rows nor locks nor open transactions are handled once (`Quiet`).
* `LogSafe`: `Spec => LogIsAppendOnly`. The step relation `LogsGrow` follows from
  `HistoryInv`: only `Commit` and the deletion write the logs, and a commit's task
  exists, because `LockKeepsStatus` says that its status is the one the request read.
* `HandoffSafe`: `Spec => []HandoffHasRecipients`, inductive with `TypeInv` alone.
* `AnnouncementsSafe`: `Spec => []AnnouncementsMatchHistory`. Mail is queued a step after
  its commit, so the invariant adds `MailIsLogged`: a request about to enqueue has
  its handoff in the log. `LogsGrow` then keeps old announcements true.
* `LocksSafe`: `Spec => []LocksAreHeld`. A row is locked exactly by the transaction at
  work on it, so nobody ever waits for a lock without a holder: the part of
  `EveryRequestAnswered` that is an invariant. One half is `LockKeepsStatus`, the other,
  `LocksAreOwned`, that every ending of a transaction gives its lock back.
* `HandoffMailSafe`: `Spec => []HandoffsAreMailed`. The invariant (`MailsInv`) has for every
  request at its mail that it alone holds the mail of that event and that its
  recipients are those notified at the commit (`HoldsMail`), for every lost mail that
  its handoff was logged (`LostIsLogged`), and for every logged handoff that its mail
  is in one place (`Mailed`). A commit numbers its event past the log, so no earlier
  mail is of it (`CommitMails`); a mail leaves its request queued or lost (`MailLeaves`).
* `AnswersSafe`: `Spec => []AnswersMatchHistory`. The answer depends on what a request
  knows before it: `Knows` says that the status it loaded is the one the log had
  when it was loaded, that after a missed update the log is longer than it was then
  (the log explains the status, so a changed status is a changed log), and that a
  request sending mail has logged its move. `KnowledgeLasts` shows once, from
  `LogsGrow`, that nobody else's step takes knowledge away.
* `ConsentSafe`: `Spec => []ConsentRecordsMatchHistory`. The invariant adds
  `MovesWereChecked`: no move reaches its transaction past a matrix that refused it,
  which is what gives every change request the comment it is counted by. The
  records of a task are a relation (`Consents`) between its log and its rows; a
  commit extends both sides alike.
* `ApprovalImplemented`: `Spec => ApprovalIsBilateral`, the refinement of `TaskApproval`.
  `RoundOf` reads a task's round off its records, which makes a step hard to follow;
  `RoundInv` adds to `ConsentInv` that every event was allowed to the role it was
  checked with (`LogAllowed`), and what the log has of the present round in each
  status (`Stands`). So the round is also the one that belongs to the status
  (`RoundsAreOfStatuses`). Then a commit from one
  status to another is one move of `TaskApproval` (`RoundMoves`) or a stutter,
  the deletion of the project is `DeleteAll`, and every other step stutters.

* `OffersAreAccepted`, `MatrixNeedsBothSides`: the two properties of `TaskMatrix`, for every
  group of roles. That somebody cannot close a task is shown with the statuses
  the group cannot leave: all but PENDING_CLOSURE and DONE without a client, and
  all but DONE without an agency role; reachability is stated as closure (`CanReach`), which
  a proof can use where a count of moves would need induction.

**Due dates** (`TaskDueProofs`). `DueTypes`, `LastCommitDecides`, `HistoryIsTrueAlone`. `DueInv`
says that what a request has loaded is still so if nothing was committed since
(`OldIsTrue`), and so a row that was committed next after its request's load names what
it replaced (`RowsAreTrue`); that the last committed row is the due date's
(`RowsInOrder`); that nobody is inside a transaction beside a request that is alone
(`Undisturbed`), and that what commits after a row nobody overlapped was stamped
after it (`AloneIsNewest`): `alone` is lost whenever somebody inserts, so an
undisturbed row cannot be overtaken by an older stamp. By the order of stamps
alone the newest row need not be the due date's, which `LastCommitDecides` does not say.

**Email outbox** (`EmailOutboxProofs`). `OutboxTypes`, `RecordsAreTrue`, `ClaimsAreExclusive`,
`DuplicatesAreExplained`, `RetriesEnd`, `OutcomesAreFinal`. `OutboxInv` has what a worker
goes by (`CopyInv`) and what a row says (`RowInv`) true of the mails delivered,
even if workers overwrite each other; that without a lapse a row is worked on by
one worker, is pending and not due (`LeaseInv`), which makes the claim's condition
false for everybody else; and that without a lapse and with every delivery
recorded whoever has the mail is on the row's list or about to be (`ListInv`).
`MailImplemented`: `Spec => MailIsDelivered`, the refinement of `MailDelivery`, needs one
thing more, what a worker's copy has to do with its row (`MailInv`: it mails
recipients only, and without a lapse its attempts are the row's). Then a claim's
lapse is `Overrun`, a send `Hand`, the end of a try `Complete`, `Retry` or `GiveUp`, a crash
before the record `LoseRecord`, and everything else a stutter, one lemma each. The
refinement also says what `OutcomesAreFinal` does, which has no run of its own.
`OutcomesAreFinal`, and the bound on attempts of `RetriesEnd`, are about mails whose lease has
not run out under a worker; after that an old copy may be written over the row.

**Members and invites** (`WorkspaceMembersProofs`). `MemberTypes`, `AdminLossIsExplained`,
`InviteReuseIsExplained`, `InvitesAreReached`. A request that has counted the admins
and not been overtaken leaves at least one (`AdminInv`: while `Counted`, there are two);
whoever takes an admin away marks the others that are about to write. Ids of
invites differ and are never given again, an invite that has been used is
accepted, and who read one before it was used shares it (`UseInv`). The waiting
invite of an account is excused or carried by a registration on its way, and an
invite newer than the one that was read was made for an account (`StrandInv`).

**Tasks and projects** (`ProjectTasksProofs`). `ProjectTypes`, `ListsAreAccess`,
`WritesAreAllowed`, `StrayRowsAreExplained`. `ListsAreAccess` compares the two copies of
the visibility rule in every state. `CleanInv` says that a request nothing has
overtaken still stands where its checks left it: the assignee it read, its
permission, the role and the membership of whom it is about to assign. Every
action that changes one of these marks the requests that rest on it
(`RequestMoves`).

**Sessions** (`AuthSessionsProofs`). `TypesCorrect`, `PasswordEndsSessions`, `LogoutEndsSessions`,
`WaitingIsAnswered`, `LinksAreGoodOnce`, `RefusalsAreExplained`, `SignOutsAreTheUsers`.
`TokensInv` is about every token in circulation (in the jar, on its way to the
server, on its way back): none is of a version to come, and one the server accepts
goes back to a login with the present password after which nobody logged out.
`NewTokens` collects where tokens come from: a login, a rotation, the jar.
`LinksInv` says that two links live, or two requests halfway, are already crossed.
`RefusalInv` says that a version which a tab has rotated itself, without a loss, is
neither in the jar nor in a renewal of that tab. `BootInv` says that a tab that shows
a user while it boots has been overtaken by a login.

**Due date picker, feed, settings page** (`WebClientProofs`). `DateSafe`,
`FeedOrderSafe`, `FeedComplete`, `PickSafe`, `SavesSafe`.
`DateSafe` is linear arithmetic once the day of an instant is characterised by its
bounds (`DateInv`: the due date is the instant of the day that was picked). For the
feed, `SortedExists` (a row comes after as many as are newer than it is) gives the
CHOOSE of `Sorted` its value, and `CutIsPrefix` says what the first rows of a sorted
set are. `FeedInv` says that a page in progress goes on behind what is shown,
that what is shown is before the cursor, and that a row the reader is due is found
when its table is read. `PickInv` follows the role picked last: it is carried by
the only call about the member, or the member has it and `Shown`: the table shows it,
or an error, or is marked and waits for the query to be switched on or for a fetch
that brings the role or is refused, unless an older answer has survived. Each step of
the fetch, and the two that invalidate or switch on the query, has a lemma. `FormInv` says that an input displays its
draft, or the fetched text where nothing else was typed, unless it was overlaid.

**Task and project page** (`WebPagesProofs`). `WebPagesTypes`, `UntouchedDueSafe`,
`MovesSafe`, `StaleSafe`. Their types need the shape of the chains of
requests (`JobRecs`: a mutation holds requests of its own kind only). `DueInv`
says that a form which still has the date it was filled in with, and has heard of
no other, agrees with the database, the cache and the fetch on its way, and that
a save from such a form sends no date. `MoveInv` adds that a move is one request,
to another status than the one its button was shown for. `CauseInv` needs what a
fetch on its way has seen: old data that is there, or about to arrive, has an
explanation, and a mutation is to blame only for queries that its success
handler marks, with the exceptions of the property (`Follows`).

The proofs have one lemma per action, or per shape of action, that writes; what a
step does to the requests it does not belong to is stated once (`Quiet`, `Moves`,
`OthersStay`, `RequestMoves`, `AccountMoves`, `TabMoves`).

The proofs changed two models. In `SettingsPage` the query of members that is
switched off while it is invalidated, and switched on again by a fetch of the user,
is now fetched then, and the run has visits in which the own profile is saved
meanwhile; `LastPickWins` speaks of the table only while it is shown, and
`SavesWhatIsShown` says of a blank input that it stands for the fetched text. In
`WebPages` a fetch that has been switched off is overtaken by an invalidation
(section 4), and a visit may begin with an unread notice.

Only model-checked: the two liveness properties, `EveryRequestAnswered` and
`EveryMailSettled`. They rest on fairness and on ENABLED, which the prover does not
treat. Every other property of a passing run is a theorem. Types are part
of every inductive invariant; only the task lifecycle also runs its type invariant.

## 6. Not modelled, and why

* Texts, labels, titles, the layout of mail and pages: no property is about them.
  The place of menus and calendars on the screen is left out with them.
* HTTP, validation of DTO shapes, CSRF: pure checks on one request.
* Passwords and token contents: external libraries. A password is known by its
  number, a token by its version.
* A second workspace or project: services touch one at a time; a registration
  with another workspace's invite is in the model because it changes this one.
* Notifications of a due date, assignment or membership change: single inserts
  after the fact that nothing reads back but the bell. That they may fail after the
  change is in the model.
* Login, landing and list pages: one call each, no state between calls. The counts
  of the statistics are plain GROUP BYs; the paging of the notification list is
  left out.
* PostgreSQL itself: its row locks, unique constraints, cascades and READ COMMITTED
  visibility are taken as documented. So are react-query's cache, its single fetch
  per query and its refetch after an invalidation.
* Shared package (labels and generated types), configuration, bootstrap, health
  checks, migrations: no state of their own; the schema's constraints are in the
  modules that meet them.

Abstractions that a reader should know of: the reset mail always arrives
(`AuthSessions`; losing the request for it is the same as a user who does not go
on); the workspace query and `refreshUser` of the settings page are answered in the
step that asks for them, or not at all (late answers of the members' query are
modelled, those of other queries are `WebPages`' subject); users who may be invited
there are registered;
the feed's three tables are two in the run (the module takes any number); days of
a month stand for dates, without daylight saving.

## 7. What is left

1. `HandoffMail`: `TaskLifecycle` composed with `MailDelivery`, which `EmailOutbox`
   implements, for the way from a logged handoff to the delivered mail. Both ends
   are proved: `HandoffMailSafe` up to the queued row, `MailImplemented` from there.
2. The paging of notifications, beside the feed.
