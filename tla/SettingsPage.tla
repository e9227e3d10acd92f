---------------------------- MODULE SettingsPage ----------------------------
(***************************************************************************)
(* The settings page of a workspace in one browser                         *)
(* (apps/web/src/pages/WorkspaceMembersPage.tsx with its model             *)
(* pages/models/useWorkspaceMembersPageModel.ts and components/settings)   *)
(* against a server that somebody else uses as well.  A call is served in  *)
(* one step: WorkspaceMembers has the races on the server.  The members    *)
(* are polled, and fetched again after a change: a fetch is asked for,     *)
(* answered, and arrives or fails, each in a step of its own.              *)
(*                                                                         *)
(* The page keeps what it fetched (the signed-in user, the workspace, its  *)
(* members), what is typed, and the calls it has sent.  A text field has   *)
(* two states: the input that is displayed, which starts again from the    *)
(* fetched text whenever that changes, and the draft, the last text that   *)
(* was typed, which nothing ever clears.                                   *)
(***************************************************************************)
EXTENDS TaskTransition, Dropdown, FiniteSets

CONSTANTS
  me, other, \* the user of the page, and an admin elsewhere
  Mates,     \* further registered users
  Texts,     \* texts of names and slugs
  BadSlugs,  \* texts that are not valid slugs
  TakenSlugs,\* slugs of other workspaces
  None,
  Visits,    \* what the user does on a visit: a set of "texts", "profile", "invite",
             \* and members whose rows are used
  InitText,  \* of each field, by visit
  InitRole,  \* of each user, by visit
  Slots,     \* bound: calls in flight
  MaxOthers, \* bound: changes made elsewhere, calls and answers lost
  MaxActs    \* bound: texts typed and roles picked

Blank == ""     \* no text; also the null of a user without a name

Fields == {"name", "slug", "profile"}
Users == {me, other} \cup Mates

ASSUME SettingsConstantsOK ==
  /\ None \notin {me, other} \cup Mates \cup Roles
  /\ InitText \in [Visits -> [Fields -> Texts \cup {Blank}]]
  /\ InitRole \in [Visits -> [Users -> Roles \cup {None}]]
  /\ \A v \in Visits : InitRole[v][me] = "ADMIN"
  /\ \A v \in Visits : Blank \notin {InitText[v]["name"], InitText[v]["slug"]}

RoleOptions == <<"ADMIN", "MANAGER", "MEMBER", "CLIENT_VIEW">>

VARIABLES
  role,    \* workspace_members on the server; None: no member
  text,    \* workspace name and slug and the user's name on the server
  exists,  \* the workspace
  user,    \* the page's copy of its user: role here and display name
  table,   \* its copy of the members
  marked,  \* the members were invalidated and have not been fetched since
  broken,  \* the last fetch of them failed: an error instead of the table
  fetch,   \* of the members: how far it is, what it brings, and whether it was
           \* answered before an invalidation that it survived
  cached,  \* its copy of the texts
  draft,   \* workspaceName, workspaceSlug, profileName
  input,   \* what the inputs display
  menus,   \* the dropdown of each row, and of the invite form
  inviteRole,
  dialog,  \* memberToRemove, "workspace" for confirmDeleteWorkspace, or None
  calls,   \* calls in flight
  visit,   \* what is done on this visit
  others, acts,  \* bounds
  overtaken,\* history: what the table shows was brought by such a fetch
  overlaid,\* history: fields whose input was filled again over a draft
  pick     \* history: the role last picked for a member while nothing else touched it

server == <<role, text, exists, visit>>
members == <<table, marked, broken, fetch, overtaken>>
texts == <<cached, draft, input, overlaid>>
copies == <<user, members, texts>>
vars == <<server, copies, menus, inviteRole, dialog, calls, others, acts, pick>>

NoFetch == [state |-> "none", rows |-> [u \in Users |-> None], old |-> FALSE]
Asked == [NoFetch EXCEPT !.state = "asked"]

Idle == [kind |-> "none", user |-> None, to |-> None, data |-> <<>>,
         state |-> "idle"]

Init ==
  /\ visit \in Visits /\ role = InitRole[visit] /\ text = InitText[visit]
  /\ exists = TRUE
  /\ user = "ADMIN" /\ cached = text
  /\ table = role /\ marked = FALSE /\ broken = FALSE /\ fetch = NoFetch /\ overtaken = FALSE
  /\ draft = [f \in Fields |-> Blank] /\ input = text
  /\ menus = [u \in Users \cup {"invite"} |-> Closed] /\ inviteRole = "MEMBER"
  /\ dialog = None /\ calls = [s \in Slots |-> Idle]
  /\ others = 0 /\ acts = 0 /\ overlaid = {} /\ pick = [u \in Users |-> None]

Pending(kind) == \E s \in Slots : calls[s].kind = kind
PendingFor(u) == \E s \in Slots : calls[s].user = u
IsAdmin == user = "ADMIN"
CanManage == user \in AGENCY_ROLES
SeesMembers(mine) == mine \notin {"CLIENT_VIEW", None}
CanViewMembers == SeesMembers(user)

-----------------------------------------------------------------------------
(* The query of the members: it is switched on while the page's user sees members. *)

\* The dropdowns of rows that are there no more are gone with their state.
KeepMenus(mine, rows, failed) ==
  [o \in DOMAIN menus |-> IF o = "invite" \/ (mine = "ADMIN" /\ rows[o] # None /\ ~failed)
                             THEN menus[o] ELSE Closed]

Poll == /\ visit \notin {{}, {"texts"}}
        /\ CanViewMembers /\ fetch = NoFetch /\ fetch' = Asked
        /\ UNCHANGED <<server, user, table, marked, broken, overtaken, texts, menus,
                       inviteRole, dialog, calls, others, acts, pick>>

\* GET members is answered from the rows as they are, or refused.
AnswerMembers ==
  /\ fetch.state = "asked"
  /\ fetch' = IF exists /\ SeesMembers(role[me])
                THEN [fetch EXCEPT !.state = "answered", !.rows = role]
                ELSE [fetch EXCEPT !.state = "refused"]
  /\ UNCHANGED <<server, user, table, marked, broken, overtaken, texts, menus, inviteRole,
                 dialog, calls, others, acts, pick>>

\* An answer counts as fresh even if its query has been switched off.
MembersArrive ==
  /\ fetch.state = "answered" /\ fetch' = NoFetch
  /\ table' = fetch.rows /\ marked' = FALSE /\ broken' = FALSE /\ overtaken' = fetch.old
  /\ menus' = KeepMenus(user, table', FALSE)
  /\ UNCHANGED <<server, user, texts, inviteRole, dialog, calls, others, acts, pick>>

\* Refused, or lost, and so is the one retry.
MembersFail ==
  /\ fetch # NoFetch /\ fetch' = NoFetch /\ broken' = TRUE
  /\ IF fetch.state = "refused" THEN UNCHANGED others
     ELSE others < MaxOthers /\ others' = others + 1
  /\ menus' = KeepMenus(user, table, TRUE)
  /\ UNCHANGED <<server, user, table, marked, overtaken, texts, inviteRole, dialog, calls,
                 acts, pick>>

\* Mutant of InvalidateMembers: a fetch on its way is waited for, not dropped.
InvalidateMembersJoining ==
  /\ marked' = TRUE
  /\ fetch' = IF CanViewMembers /\ fetch = NoFetch THEN Asked ELSE fetch
  /\ UNCHANGED <<table, broken, overtaken>>

\* invalidateQueries: a query that is switched on drops the fetch on its way and
\* asks again.  One that is switched off is only marked, and a fetch on its way
\* goes on.
InvalidateMembers ==
  /\ marked' = TRUE
  /\ fetch' = CASE CanViewMembers -> Asked
                [] ~CanViewMembers /\ fetch.state = "answered" -> [fetch EXCEPT !.old = TRUE]
                [] OTHER -> fetch
  /\ UNCHANGED <<table, broken, overtaken>>

\* The signed-in user is fetched, which may switch the query of members on: then
\* it asks again if it is marked, unless an earlier fetch is still on its way.
SeeUser(mine) ==
  /\ user' = mine
  /\ fetch' = IF SeesMembers(mine) /\ ~CanViewMembers /\ marked /\ fetch = NoFetch
                THEN Asked ELSE fetch
  /\ UNCHANGED <<table, marked, broken, overtaken>>

-----------------------------------------------------------------------------
(* The texts.                                                              *)

\* Mutant of Filled: without the key, an input keeps what it first displayed.
FilledOnce(new) == input

\* The inputs are keyed by the fetched text: they start again when it changes.
Filled(new) ==
  [f \in Fields |-> IF new[f] = cached[f] THEN input[f] ELSE new[f]]

See(new) ==
  /\ cached' = new
  /\ input' = Filled(new)
  /\ overlaid' = {f \in Fields : \/ f \in overlaid
                                 \/ new[f] # cached[f] /\ draft[f] \notin {Blank, new[f]}}
  /\ UNCHANGED draft

\* GET /auth/me: role and display name.
RefreshUser ==
  /\ SeeUser(IF exists THEN role[me] ELSE None)
  /\ See([cached EXCEPT !["profile"] = text["profile"]])

\* The workspace query fetches again (a focused window, an invalidation).  If it
\* is refused, an error takes the place of the page.
SeeWorkspace ==
  IF exists /\ role[me] # None
    THEN See([text EXCEPT !["profile"] = cached["profile"]]) /\ UNCHANGED visit
    ELSE visit' = {} /\ UNCHANGED texts

Focus == /\ "texts" \in visit /\ SeeWorkspace
         /\ UNCHANGED <<role, text, exists, user, members, menus, inviteRole, dialog, calls,
                        others, acts, pick>>

-----------------------------------------------------------------------------
Type == \E f \in Fields, t \in Texts \cup {Blank} :
  /\ "texts" \in visit /\ (f = "profile" \/ IsAdmin)
  /\ acts < MaxActs /\ acts' = acts + 1
  /\ input' = [input EXCEPT ![f] = t] /\ draft' = [draft EXCEPT ![f] = t]
  /\ overlaid' = overlaid \ {f}
  /\ UNCHANGED <<server, user, members, cached, menus, inviteRole, dialog, calls, others, pick>>

Send(kind, u, to, data) ==
  \E s \in Slots :
    /\ calls[s] = Idle
    /\ calls' = [calls EXCEPT ![s] = [kind |-> kind, user |-> u, to |-> to, data |-> data,
                                      state |-> "sent"]]

\* What the form means to save: the draft, or else the fetched text.
Wanted(f) == IF draft[f] # Blank THEN draft[f] ELSE cached[f]

\* handleWorkspaceSettings: only what differs from the fetched workspace is sent.
Changes == {f \in {"name", "slug"} : Wanted(f) # cached[f]}

SaveWorkspace ==
  /\ "texts" \in visit /\ IsAdmin /\ ~Pending("update")
  /\ Wanted("slug") \notin BadSlugs /\ Changes # {}
  /\ Send("update", None, None, [f \in Changes |-> Wanted(f)])
  /\ UNCHANGED <<server, copies, menus, inviteRole, dialog, others, acts, pick>>

\* handleProfileSubmit: a name is sent whether or not it changed, but not an empty one.
SaveProfile ==
  /\ visit \cap {"texts", "profile"} # {} /\ ~Pending("profile")
  /\ Wanted("profile") # Blank
  /\ Send("profile", None, None, [f \in {"profile"} |-> Wanted(f)])
  /\ UNCHANGED <<server, copies, menus, inviteRole, dialog, others, acts, pick>>

-----------------------------------------------------------------------------
\* The dropdowns on the page: one in each row for an admin, one in the invite form.
OnPage(owner) == IF owner = "invite" THEN "invite" \in visit /\ CanManage
                 ELSE owner \in visit /\ IsAdmin /\ ~broken /\ table[owner] # None

ValueOf(owner) == IF owner = "invite" THEN inviteRole ELSE table[owner]

UseMenu == \E owner \in DOMAIN menus :
  /\ OnPage(owner) /\ dialog = None
  /\ \A o \in DOMAIN menus \ {owner} : ~menus[o].open
  /\ \E m \in {Toggle(menus[owner], RoleOptions, ValueOf(owner)),
               Arrow(menus[owner], RoleOptions, ValueOf(owner), 1),
               Arrow(menus[owner], RoleOptions, ValueOf(owner), -1)}
              \cup {Hover(menus[owner], i) : i \in IF menus[owner].open
                                                      THEN DOMAIN RoleOptions ELSE {}} :
       menus' = [menus EXCEPT ![owner] = m]
  /\ UNCHANGED <<server, copies, inviteRole, dialog, calls, others, acts, pick>>

ChooseInviteRole ==
  /\ OnPage("invite") /\ inviteRole' \in Choice(menus["invite"], RoleOptions)
  /\ menus' = [menus EXCEPT !["invite"] = Closed]
  /\ UNCHANGED <<server, copies, dialog, calls, others, acts, pick>>

\* The role is sent at once, also while an earlier choice is on its way.
ChooseRole == \E u \in Users :
  /\ OnPage(u) /\ acts < MaxActs /\ acts' = acts + 1
  /\ \E r \in Choice(menus[u], RoleOptions) : Send("role", u, r, <<>>)
  /\ pick' = [pick EXCEPT ![u] = IF PendingFor(u) THEN None ELSE RoleOptions[menus[u].at]]
  /\ menus' = [menus EXCEPT ![u] = Closed]
  /\ UNCHANGED <<server, copies, inviteRole, dialog, others>>

Invite == \E u \in Mates :
  /\ "invite" \in visit /\ CanManage /\ ~Pending("invite")
  /\ Send("invite", u, inviteRole, <<>>)
  /\ pick' = [pick EXCEPT ![u] = None]
  /\ UNCHANGED <<server, copies, menus, inviteRole, dialog, others, acts>>

\* Remove in a row, or Delete workspace, opens a dialog; while its call is
\* under way it cannot be closed or confirmed again.
OpenDialog ==
  /\ IsAdmin /\ dialog = None
  /\ \/ dialog' \in {u \in Users \ {me} : OnPage(u)}
     \/ "texts" \in visit /\ dialog' = "workspace"
  /\ menus' = [o \in DOMAIN menus |-> Closed]
  /\ UNCHANGED <<server, copies, inviteRole, calls, others, acts, pick>>

DialogBusy == Pending(IF dialog = "workspace" THEN "delete" ELSE "remove")

CancelDialog ==
  /\ dialog # None /\ ~DialogBusy /\ dialog' = None
  /\ UNCHANGED <<server, copies, menus, inviteRole, calls, others, acts, pick>>

ConfirmDialog ==
  /\ dialog # None /\ ~DialogBusy
  /\ IF dialog = "workspace"
       THEN Send("delete", None, None, <<>>) /\ UNCHANGED pick
       ELSE Send("remove", dialog, None, <<>>) /\ pick' = [pick EXCEPT ![dialog] = None]
  /\ UNCHANGED <<server, copies, menus, inviteRole, dialog, others, acts>>

-----------------------------------------------------------------------------
Admins == {u \in Users : role[u] = "ADMIN"}
LastAdmin(u, to) == Admins = {u} /\ to # "ADMIN"

\* What the API says of a call now (guards of WorkspacesService and
\* WorkspaceMembersService).
Accepted(c) ==
  \/ c.kind = "profile"
  \/ exists /\ CASE c.kind = "update" -> /\ role[me] = "ADMIN"
                                         /\ "slug" \in DOMAIN c.data
                                              => c.data["slug"] \notin TakenSlugs
                 [] c.kind = "delete" -> role[me] = "ADMIN"
                 [] c.kind = "invite" -> /\ role[me] \in AGENCY_ROLES /\ role[c.user] = None
                                         /\ c.to = "ADMIN" => role[me] = "ADMIN"
                 [] OTHER -> /\ role[me] = "ADMIN" /\ role[c.user] # None
                             /\ ~LastAdmin(c.user, c.to)

Serve(s) ==
  LET c == calls[s] IN
  /\ c.state = "sent"
  /\ calls' = [calls EXCEPT ![s].state = IF Accepted(c) THEN "ok" ELSE "refused"]
  /\ IF Accepted(c)
       THEN /\ text' = [f \in Fields |-> IF f \in DOMAIN c.data THEN c.data[f] ELSE text[f]]
            /\ role' = IF c.user = None THEN role ELSE [role EXCEPT ![c.user] = c.to]
            /\ exists' = (exists /\ c.kind # "delete")
            /\ UNCHANGED <<visit, pick>>
       ELSE /\ pick' = [u \in Users |-> IF u = c.user THEN None ELSE pick[u]]
            /\ UNCHANGED server
  /\ UNCHANGED <<copies, menus, inviteRole, dialog, others, acts>>

\* The network loses the call, or its answer.
Lose(s) ==
  /\ calls[s].state \in {"sent", "ok"}
  /\ others < MaxOthers /\ others' = others + 1
  /\ calls' = [calls EXCEPT ![s].state = "lost"]
  /\ pick' = [u \in Users |-> IF u = calls[s].user THEN None ELSE pick[u]]
  /\ UNCHANGED <<server, copies, menus, inviteRole, dialog, acts>>

CloseAfter(c) == IF c.kind = "remove" \/ c.kind = "delete" THEN None ELSE dialog

\* onSuccess of the mutations on members.
MembersAnswer(s) ==
  /\ calls[s].state = "ok" /\ calls[s].kind \in {"role", "remove", "invite"}
  /\ calls' = [calls EXCEPT ![s] = Idle]
  /\ InvalidateMembers
  /\ dialog' = CloseAfter(calls[s])
  /\ UNCHANGED <<server, user, texts, menus, inviteRole, others, acts, pick>>

\* onSuccess of the others: they end with refreshUser, which may fail and then
\* counts as a failure of the mutation.  After a deletion the page is left.
TextsAnswer(s) ==
  /\ calls[s].state = "ok" /\ calls[s].kind \in {"update", "profile", "delete"}
  /\ calls' = [calls EXCEPT ![s] = Idle]
  /\ dialog' = CloseAfter(calls[s])
  /\ \/ calls[s].kind = "update" /\ exists /\ role[me] # None
          /\ See(text) /\ SeeUser(role[me]) /\ UNCHANGED visit
     \/ calls[s].kind = "update" /\ SeeWorkspace /\ UNCHANGED <<user, members>>
     \/ RefreshUser /\ visit' = IF calls[s].kind = "delete" THEN {} ELSE visit
     \/ UNCHANGED <<copies, visit>>
  /\ menus' = KeepMenus(user', table, broken)
  /\ UNCHANGED <<role, text, exists, inviteRole, others, acts, pick>>

\* onError: a message, and the dialog closes.
ErrorAnswer(s) ==
  /\ calls[s].state \in {"refused", "lost"}
  /\ calls' = [calls EXCEPT ![s] = Idle]
  /\ dialog' = CloseAfter(calls[s])
  /\ UNCHANGED <<server, copies, menus, inviteRole, others, acts, pick>>

-----------------------------------------------------------------------------
(* The other admin changes a role or the workspace, the user its own name. *)

RolesElsewhere ==
  /\ exists /\ visit # {"texts"} /\ others < MaxOthers /\ others' = others + 1
  /\ \E u \in Users \ {other}, r \in Roles \cup {None} :
       /\ role[other] = "ADMIN" /\ role[u] # None /\ ~LastAdmin(u, r)
       /\ role' = [role EXCEPT ![u] = r] /\ pick' = [pick EXCEPT ![u] = None]
  /\ UNCHANGED <<text, exists, visit, copies, menus, inviteRole, dialog, calls, acts>>

TextsElsewhere ==
  /\ exists /\ "texts" \in visit /\ others < MaxOthers /\ others' = others + 1
  /\ \E f \in Fields, t \in Texts :
       /\ f # "profile" => role[other] = "ADMIN"
       /\ f = "slug" => t \notin BadSlugs \cup TakenSlugs
       /\ text' = [text EXCEPT ![f] = t]
  /\ UNCHANGED <<role, exists, visit, copies, menus, inviteRole, dialog, calls, acts, pick>>

DeletedElsewhere ==
  /\ exists /\ others < MaxOthers /\ others' = others + 1
  /\ role[other] = "ADMIN" /\ exists' = FALSE
  /\ UNCHANGED <<role, text, visit, copies, menus, inviteRole, dialog, calls, acts, pick>>

Next ==
  \/ Poll \/ AnswerMembers \/ MembersArrive \/ MembersFail
  \/ Focus \/ Type \/ SaveWorkspace \/ SaveProfile
  \/ UseMenu \/ ChooseInviteRole \/ ChooseRole \/ Invite
  \/ OpenDialog \/ CancelDialog \/ ConfirmDialog
  \/ RolesElsewhere \/ TextsElsewhere \/ DeletedElsewhere
  \/ \E s \in Slots : Serve(s) \/ Lose(s) \/ MembersAnswer(s) \/ TextsAnswer(s) \/ ErrorAnswer(s)

Spec == Init /\ [][Next]_vars

-----------------------------------------------------------------------------
\* What a field says: a blank one stands for the fetched text.
Says(f) == IF input[f] = Blank THEN cached[f] ELSE input[f]

\* A save writes what the form displays, and leaves out a field only if it says
\* what was fetched: what is saved differs from what is displayed only in a field
\* that was filled again, with somebody else's text, over a draft that was kept.
SavesWhatIsShown ==
  [][\A s \in Slots :
       (calls[s] = Idle /\ calls'[s].kind \in {"update", "profile"}) =>
         \A f \in (IF calls'[s].kind = "update" THEN {"name", "slug"} ELSE {"profile"}) :
            \/ f \in overlaid
            \/ IF f \in DOMAIN calls'[s].data THEN calls'[s].data[f] = Says(f)
               ELSE Says(f) = cached[f]]_vars

\* The role picked last for a member is the role the member has once the call is
\* answered, unless another call for the member was under way, the call was refused
\* or lost, or somebody else changed the member; and the table then shows it, or a
\* fetch that will bring it is on its way, or there is an error instead of the
\* table: except where a fetch answered earlier was still on its way when the query,
\* switched off for a while, was invalidated.
LastPickWins ==
  \A u \in Users :
    (exists /\ pick[u] # None /\ ~PendingFor(u)) =>
      /\ role[u] = pick[u]
      /\ CanViewMembers =>
           \/ table[u] = pick[u] \/ broken \/ overtaken
           \/ /\ marked
              /\ \/ fetch.state \in {"asked", "refused"}
                 \/ fetch.rows[u] = pick[u] \/ fetch.old
=============================================================================
