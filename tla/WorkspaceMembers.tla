-------------------------- MODULE WorkspaceMembers --------------------------
(***************************************************************************)
(* Who belongs to a workspace and in which role                            *)
(* (apps/api/src/workspaces/workspace-members.service.ts,                  *)
(* apps/api/src/invites/workspace-invites.service.ts and `register` of     *)
(* apps/api/src/auth/auth.service.ts), as concurrent requests on one       *)
(* workspace.  Only the acceptance of an invite is a transaction: every    *)
(* other operation is a sequence of autonomous statements, each a step.    *)
(*                                                                         *)
(* A user stands for its email address too: an invite is sent to a user    *)
(* who may have no account yet.                                            *)
(***************************************************************************)
EXTENDS TaskTransition, FiniteSets

CONSTANTS
  Users, Requests, None,
  InitRole,       \* [Users -> Roles \cup {None}], the workspace at the start
  InitAccounts,   \* users with an account at the start
  Asks,           \* what may be asked for, a subset of AllAsks
  MaxRows,        \* bound: membership rows created later on
  MaxInvites      \* bound: invites created

Kinds == {"updateRole", "remove", "invite", "accept", "register"}

\* The invite a registration brings along: none, one of this workspace, or one
\* of another workspace.
Tokens == {"none", "mine", "other"}

AllAsks == [kind : Kinds, by : Users, target : Users, role : Roles, token : Tokens]

ASSUME MemberConstantsOK ==
  /\ InitRole \in [Users -> Roles \cup {None}]
  /\ \E u \in Users : InitRole[u] = "ADMIN"
  /\ {u \in Users : InitRole[u] # None} \subseteq InitAccounts
  /\ InitAccounts \subseteq Users
  /\ Asks \subseteq AllAsks
  /\ MaxRows \in Nat /\ MaxInvites \in Nat
  /\ None \notin Users \cup Requests \cup Roles

VARIABLES
  accounts,     \* users
  members,      \* workspace_members, by user
  invites,      \* workspace_invites, by email: one per address
  pc, req,
  lastRow, lastInvite,  \* ids given so far
  uses,         \* history: how often each invite was accepted
  shared,       \* history: invites two requests were about to accept at once
  overtaken,    \* history: an admin was lost on a role or count out of date
  lowered,      \* history: an acceptance took the admin role from a member
  leftOut       \* history: users whose registration passed their invite by

history == <<uses, shared, overtaken, lowered, leftOut>>
vars    == <<accounts, members, invites, pc, req, lastRow, lastInvite, history>>

MemberRows == [id : Nat, role : Roles]
InviteRows == [id : Nat, role : Roles, state : {"pending", "expired", "accepted"}]

ASSUME NoneIsNoRow == None \notin MemberRows \cup InviteRows

Joining == {"signup", "account", "token", "pending", "join"}
Active  == {"actor", "find", "count", "write", "notify",
            "lookup", "clear", "create", "add"} \cup Joining
Answers == {"ok", "error", "forbidden", "badrequest", "notfound", "conflict"}

\* `row` and `invite` are what the request has read; `stale`: an admin was lost
\* since it counted the admins.
RequestRecs == [ask : Asks, row : MemberRows \cup {None},
                invite : InviteRows \cup {None}, stale : BOOLEAN]

Init ==
  /\ accounts = InitAccounts
  /\ members = [u \in Users |-> IF InitRole[u] = None THEN None
                                ELSE [id |-> 0, role |-> InitRole[u]]]
  /\ invites = [u \in Users |-> None]
  /\ pc = [r \in Requests |-> "idle"]
  /\ req = [r \in Requests |-> None]
  /\ lastRow = 0 /\ lastInvite = 0
  /\ uses = [i \in 1..MaxInvites |-> 0]
  /\ shared = {} /\ overtaken = FALSE /\ lowered = FALSE /\ leftOut = {}

-----------------------------------------------------------------------------
Ask(r)    == req[r].ask
Actor(r)  == Ask(r).by
Target(r) == Ask(r).target

IsMember(u)  == members[u] # None
RoleOf(u)    == IF IsMember(u) THEN members[u].role ELSE None
Admins       == {u \in Users : RoleOf(u) = "ADMIN"}
IsPending(u) == invites[u] # None /\ invites[u].state = "pending"

\* The requests once r is at a place with what it knows: an answered request
\* needs nothing any more.
Keep(r, there, known) ==
  [req EXCEPT ![r] = IF there \in Answers THEN None ELSE known]

Goto(r, there) ==
  pc' = [pc EXCEPT ![r] = there] /\ req' = Keep(r, there, req[r])

\* A step of r that changes no table, and what r knows after it.
ReadStep(r, here, there, known) ==
  /\ pc[r] = here
  /\ pc' = [pc EXCEPT ![r] = there] /\ req' = Keep(r, there, known)
  /\ UNCHANGED <<accounts, members, invites, lastRow, lastInvite, history>>

InFlight(kinds) == {r \in Requests : pc[r] \in Active /\ Ask(r).kind \in kinds}

\* Bound: every request in flight finds an id for the rows it may insert.
HasRoom(ask) ==
  /\ ask.kind \in {"invite", "accept"} \/ (ask.kind = "register" /\ ask.by \notin accounts)
     => lastRow + Cardinality(InFlight({"invite", "accept", "register"})) < MaxRows
  /\ ask.kind = "invite" => lastInvite + Cardinality(InFlight({"invite"})) < MaxInvites

FirstPlace(kind) ==
  IF kind = "register" THEN "signup" ELSE IF kind = "accept" THEN "token" ELSE "actor"

\* The guards let nobody in without an account, except to register.
Receive(r, ask) ==
  /\ ask.kind = "register" \/ ask.by \in accounts
  /\ HasRoom(ask)
  /\ ReadStep(r, "idle", FirstPlace(ask.kind),
              [ask |-> ask, row |-> None, invite |-> None, stale |-> FALSE])

-----------------------------------------------------------------------------
(* updateRole and remove.                                                  *)

\* assertAdminRole; for an invite assertAgencyRole, and admins invite admins.
CheckActor(r) ==
  LET held == RoleOf(Actor(r))
      invite == Ask(r).kind = "invite"
  IN
  ReadStep(r, "actor",
       IF invite /\ held \in AGENCY_ROLES /\ (Ask(r).role = "ADMIN" => held = "ADMIN")
       THEN "lookup"
       ELSE IF ~invite /\ held = "ADMIN" THEN "find" ELSE "forbidden",
       req[r])

\* Mutant of LosesAdmin: only removals are thought to cost an admin.
LosesAdminByRemoval(row, ask) == row.role = "ADMIN" /\ ask.kind = "remove"

LosesAdmin(row, ask) ==
  row.role = "ADMIN" /\ (ask.kind = "remove" \/ ask.role # "ADMIN")

\* findMembership
FindMembership(r) ==
  LET row == members[Target(r)] IN
  ReadStep(r, "find",
    IF row = None THEN "notfound"
    ELSE IF LosesAdmin(row, Ask(r)) THEN "count" ELSE "write",
    [req[r] EXCEPT !.row = row])

\* assertNotLastAdmin
CountAdmins(r) ==
  ReadStep(r, "count", IF Cardinality(Admins) <= 1 THEN "badrequest" ELSE "write",
           req[r])

\* r goes on after a write; if it was the loss of an admin, the requests that
\* have counted already are out of date.
GotoAfter(loss, r, there) ==
  /\ pc' = [pc EXCEPT ![r] = there]
  /\ req' = [q \in Requests |->
       IF loss /\ q # r /\ pc[q] = "write" THEN [req[q] EXCEPT !.stale = TRUE]
       ELSE Keep(r, there, req[r])[q]]

\* The row that was found is updated or deleted, by its id, whatever role it has
\* by now; it is an error if it is gone.
WriteMember(r) ==
  LET u    == Target(r)
      loss == IsMember(u) /\ LosesAdmin(members[u], Ask(r))
  IN
  /\ pc[r] = "write"
  /\ IF IsMember(u) /\ members[u].id = req[r].row.id
     THEN /\ members' = [members EXCEPT ![u] =
               IF Ask(r).kind = "remove" THEN None ELSE [@ EXCEPT !.role = Ask(r).role]]
          /\ overtaken' = (overtaken \/ (loss /\ (req[r].stale \/ req[r].row.role # "ADMIN")))
          /\ GotoAfter(loss, r, "notify")
     ELSE Goto(r, "error") /\ UNCHANGED <<members, overtaken>>
  /\ UNCHANGED <<accounts, invites, lastRow, lastInvite, uses, shared, lowered, leftOut>>

\* The members are notified after the change, outside any transaction.
Notify(r) == ReadStep(r, "notify", "ok", req[r])

-----------------------------------------------------------------------------
(* invite                                                                  *)

FindInvitee(r) ==
  ReadStep(r, "lookup", IF Target(r) \notin accounts THEN "clear"
                        ELSE IF Target(r) = Actor(r) THEN "badrequest" ELSE "add",
           req[r])

NewRow(role) == [id |-> lastRow + 1, role |-> role]

\* The unique constraint on workspace and user answers a second membership.
AddMember(r) ==
  /\ pc[r] = "add"
  /\ IF IsMember(Target(r))
     THEN Goto(r, "conflict") /\ UNCHANGED <<members, lastRow>>
     ELSE /\ members' = [members EXCEPT ![Target(r)] = NewRow(Ask(r).role)]
          /\ lastRow' = lastRow + 1
          /\ Goto(r, "notify")
  /\ UNCHANGED <<accounts, invites, lastInvite, history>>

\* createEmailInvite deletes what was not accepted and then inserts, in two
\* statements.
ClearInvites(r) ==
  LET e == Target(r) IN
  /\ pc[r] = "clear"
  /\ invites' = [invites EXCEPT ![e] =
       IF @ # None /\ @.state # "accepted" THEN None ELSE @]
  /\ Goto(r, "create")
  /\ UNCHANGED <<accounts, members, lastRow, lastInvite, history>>

\* One invite per workspace and address; the mail's fate changes nothing.
CreateInvite(r) ==
  LET e == Target(r) IN
  /\ pc[r] = "create"
  /\ IF invites[e] # None
     THEN Goto(r, "error") /\ UNCHANGED <<invites, lastInvite, leftOut>>
     ELSE /\ invites' = [invites EXCEPT ![e] =
               [id |-> lastInvite + 1, role |-> Ask(r).role, state |-> "pending"]]
          /\ lastInvite' = lastInvite + 1
          /\ leftOut' = IF e \in accounts THEN leftOut \cup {e} ELSE leftOut
          /\ Goto(r, "ok")
  /\ UNCHANGED <<accounts, members, lastRow, uses, shared, overtaken, lowered>>

-----------------------------------------------------------------------------
(* register and accept                                                     *)

FindUser(r) ==
  ReadStep(r, "signup", IF Actor(r) \in accounts THEN "conflict" ELSE "account", req[r])

\* user.create: a token is tried next, or else every pending invite is.
CreateAccount(r) ==
  LET u == Actor(r)
      token == Ask(r).token
  IN
  /\ pc[r] = "account"
  /\ IF u \in accounts
     THEN Goto(r, "error") /\ UNCHANGED <<accounts, leftOut>>
     ELSE /\ accounts' = accounts \cup {u}
          /\ leftOut' = IF token = "other" THEN leftOut \cup {u} ELSE leftOut
          /\ Goto(r, IF token = "mine" THEN "token"
                     ELSE IF token = "none" THEN "pending" ELSE "ok")
  /\ UNCHANGED <<members, invites, lastRow, lastInvite, uses, shared, overtaken,
                 lowered>>

\* Mutant of ReadToken: an invite that is there is good.
ReadTokenAnyState(r) ==
  LET invite == invites[Actor(r)] IN
  ReadStep(r, "token", IF invite # None THEN "join" ELSE "badrequest",
           [req[r] EXCEPT !.invite = invite])

\* acceptInviteToken: the invite is read before the transaction.
ReadToken(r) ==
  LET u == Actor(r) IN
  ReadStep(r, "token", IF IsPending(u) THEN "join" ELSE "badrequest",
           [req[r] EXCEPT !.invite = invites[u]])

\* Mutant of ReadPending: invites are left for the user to accept.
ReadPendingNever(r) == ReadStep(r, "pending", "ok", req[r])

\* acceptPendingInvitesForEmail: at most one of them is of this workspace.
ReadPending(r) ==
  LET u == Actor(r) IN
  ReadStep(r, "pending", IF IsPending(u) THEN "join" ELSE "ok",
           [req[r] EXCEPT !.invite = invites[u]])

\* The transaction: membership upserted with the role of the invite that was
\* read, invite marked by its id, whatever its state; rolled back if it is gone.
Join(r) ==
  LET u      == Actor(r)
      invite == req[r].invite
      loss   == RoleOf(u) = "ADMIN" /\ invite.role # "ADMIN"
  IN
  /\ pc[r] = "join"
  /\ IF invites[u] # None /\ invites[u].id = invite.id
     THEN /\ invites' = [invites EXCEPT ![u].state = "accepted"]
          /\ members' = [members EXCEPT ![u] =
               IF IsMember(u) THEN [@ EXCEPT !.role = invite.role]
               ELSE NewRow(invite.role)]
          /\ lastRow' = IF IsMember(u) THEN lastRow ELSE lastRow + 1
          /\ uses' = [uses EXCEPT ![invite.id] = @ + 1]
          /\ shared' = IF \E q \in Requests \ {r} :
                            pc[q] = "join" /\ req[q].invite.id = invite.id
                       THEN shared \cup {invite.id} ELSE shared
          /\ lowered' = (lowered \/ loss)
          /\ GotoAfter(loss, r, "ok")
     ELSE /\ Goto(r, "error")
          /\ UNCHANGED <<invites, members, lastRow, uses, shared, lowered>>
  /\ UNCHANGED <<accounts, lastInvite, overtaken, leftOut>>

-----------------------------------------------------------------------------
\* A database error or a crash: what was written stays written.
Fail(r) ==
  /\ pc[r] \in Active
  /\ Goto(r, "error")
  /\ leftOut' = IF /\ Ask(r).kind = "register"
                   /\ pc[r] \in {"token", "pending", "join"}
                THEN leftOut \cup {Actor(r)} ELSE leftOut
  /\ UNCHANGED <<accounts, members, invites, lastRow, lastInvite, uses, shared,
                 overtaken, lowered>>

Return(r) ==
  pc[r] \in Answers /\ ReadStep(r, pc[r], "idle", None)

\* An invite is good for seven days.
Expire(u) ==
  /\ IsPending(u)
  /\ invites' = [invites EXCEPT ![u].state = "expired"]
  /\ UNCHANGED <<accounts, members, pc, req, lastRow, lastInvite, history>>

Step(r) ==
  \/ CheckActor(r)  \/ FindMembership(r) \/ CountAdmins(r) \/ WriteMember(r)
  \/ Notify(r)      \/ FindInvitee(r)    \/ AddMember(r)   \/ ClearInvites(r)
  \/ CreateInvite(r) \/ FindUser(r)      \/ CreateAccount(r)
  \/ ReadToken(r)   \/ ReadPending(r)    \/ Join(r)

Next ==
  \/ \E u \in Users : Expire(u)
  \/ \E r \in Requests :
       \/ \E ask \in Asks : Receive(r, ask)
       \/ Step(r) \/ Fail(r) \/ Return(r)

Spec == Init /\ [][Next]_vars

-----------------------------------------------------------------------------
(* Properties.                                                             *)

\* Every variable keeps its type, members have accounts, and a request holds
\* what its place needs.
TypeOK ==
  /\ accounts \subseteq Users
  /\ members \in [Users -> MemberRows \cup {None}]
  /\ invites \in [Users -> InviteRows \cup {None}]
  /\ pc \in [Requests -> {"idle"} \cup Active \cup Answers]
  /\ req \in [Requests -> RequestRecs \cup {None}]
  /\ lastRow \in Nat /\ lastInvite \in Nat
  /\ uses \in [1..MaxInvites -> Nat] /\ shared \subseteq Nat
  /\ overtaken \in BOOLEAN /\ lowered \in BOOLEAN
  /\ leftOut \subseteq accounts
  /\ \A u \in Users : IsMember(u) => u \in accounts /\ members[u].id <= lastRow
  /\ \A r \in Requests : /\ pc[r] \in Active => req[r] \in RequestRecs
                         /\ pc[r] \in {"count", "write"} => req[r].row # None
                         /\ pc[r] = "join" => req[r].invite # None

\* The assertion of workspace-members.service.ts:266 taken at its word: the
\* workspace has at least one admin.
AlwaysAnAdmin == Admins # {}

\* The workspace is only ever left without an admin by two demotions, removals
\* or acceptances that overlap, or by the acceptance of an invite that lowers an
\* admin: assertNotLastAdmin covers every other way.
AdminLossHasCause == Admins = {} => overtaken \/ lowered

\* An invite is used up by its acceptance, unless two requests had both read it
\* before either used it (invites.e2e-spec.ts:8, token reuse is rejected).
InviteReuseHasCause ==
  \A i \in 1..MaxInvites : uses[i] > 1 => i \in shared

\* An invite waits for somebody who has an account only if the registration
\* passed it by: for the invite of another workspace, because it failed midway,
\* or because the invite was made while its address was registering.
NoInviteStranded ==
  \A u \in accounts : IsPending(u) =>
    u \in leftOut \/ \E r \in Requests : pc[r] \in Joining /\ Actor(r) = u
=============================================================================
