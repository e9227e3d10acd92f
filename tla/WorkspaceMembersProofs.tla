----------------------- MODULE WorkspaceMembersProofs -----------------------
(***************************************************************************)
(* Theorems about WorkspaceMembers, for any number of users, invites and   *)
(* concurrent requests: what the loss of the last admin, the second use of *)
(* an invite and an invite left behind come from.                          *)
(***************************************************************************)
EXTENDS WorkspaceMembers, FiniteSetTheorems, TLAPS

Places == {"idle"} \cup Active \cup Answers

RequestTypes ==
  /\ pc \in [Requests -> Places]
  /\ req \in [Requests -> RequestRecs \cup {None}]
  /\ \A r \in Requests : /\ pc[r] \in Active => req[r] \in RequestRecs
                         /\ pc[r] \in {"count", "write"} => req[r].row # None
                         /\ pc[r] = "join" => req[r].invite # None

\* Whom a request is about to give a membership has an account.
ActorsKnown ==
  \A r \in Requests :
    /\ pc[r] = "add" => Target(r) \in accounts
    /\ pc[r] \in {"token", "pending", "join"} => Actor(r) \in accounts

TypeInv == TypeOK /\ ActorsKnown

-----------------------------------------------------------------------------
(* Shapes of the steps.                                                    *)

\* r moves on with what it knows; nobody else does anything, but who is about to
\* write may have been overtaken.
Moves(r, there, known) ==
  /\ pc'[r] = there /\ req'[r] = IF there \in Answers THEN None ELSE known
  /\ \A q \in Requests \ {r} :
       /\ pc'[q] = pc[q]
       /\ \/ req'[q] = req[q]
          \/ pc[q] = "write" /\ req'[q] = [req[q] EXCEPT !.stale = TRUE]

LEMMA RequestsGoOn ==
  ASSUME TypeInv, NEW r \in Requests, NEW there \in Places, NEW known,
         \/ /\ pc' = [pc EXCEPT ![r] = there]
            /\ req' = Keep(r, there, known)
         \/ \E loss \in BOOLEAN : GotoAfter(loss, r, there) /\ known = req[r],
         there \in Active => known \in RequestRecs,
         there = "idle" => known = None,
         there \in {"count", "write"} => known.row # None,
         there = "join" => known.invite # None
  PROVE  RequestTypes' /\ Moves(r, there, known)
  <1>1. /\ pc \in [Requests -> Places]
        /\ req \in [Requests -> RequestRecs \cup {None}]
    BY DEF TypeInv, TypeOK, Places
  <1>2. /\ pc' = [pc EXCEPT ![r] = there]
        /\ \A q \in Requests \ {r} : \/ req'[q] = req[q]
                                     \/ /\ pc[q] = "write"
                                        /\ req'[q] = [req[q] EXCEPT !.stale = TRUE]
        /\ req'[r] = IF there \in Answers THEN None ELSE known
        /\ req' = [q \in Requests |-> req'[q]]
    BY <1>1 DEF GotoAfter, Keep
  <1>3. Moves(r, there, known)
    BY <1>1, <1>2 DEF Moves
  <1>4. \A q \in Requests : pc[q] = "write" =>
          /\ [req[q] EXCEPT !.stale = TRUE] \in RequestRecs
          /\ [req[q] EXCEPT !.stale = TRUE].row = req[q].row
    BY DEF TypeInv, TypeOK, Active, RequestRecs
  <1>5. pc' \in [Requests -> Places]
    BY <1>1, <1>2
  <1>6. \A q \in Requests : req'[q] \in RequestRecs \cup {None}
    BY <1>1, <1>2, <1>4 DEF Places
  <1>7. \A q \in Requests : pc'[q] \in Active => req'[q] \in RequestRecs
    <2>1. \A q \in Requests \ {r} : pc'[q] = pc[q]
      BY <1>3 DEF Moves
    <2>2. there \in Active => there \notin Answers
      BY DEF Active, Answers, Joining
    <2>. QED BY <1>1, <1>2, <1>4, <2>1, <2>2 DEF TypeInv, TypeOK
  <1>8. \A q \in Requests : /\ pc'[q] \in {"count", "write"} => req'[q].row # None
                            /\ pc'[q] = "join" => req'[q].invite # None
    <2>1. /\ there \in {"count", "write"} => req'[r].row # None
          /\ there = "join" => req'[r].invite # None
      BY <1>2 DEF Answers
    <2>2. ASSUME NEW q \in Requests \ {r}
          PROVE  /\ pc'[q] \in {"count", "write"} => req'[q].row # None
                 /\ pc'[q] = "join" => req'[q].invite # None
      <3>1. /\ pc[q] \in {"count", "write"} => req[q].row # None
            /\ pc[q] = "join" => req[q].invite # None
            /\ pc'[q] = pc[q]
        BY <1>3 DEF Moves, TypeInv, TypeOK
      <3>2. CASE req'[q] = req[q]
        BY <3>1, <3>2
      <3>3. CASE pc[q] = "write" /\ req'[q] = [req[q] EXCEPT !.stale = TRUE]
        BY <1>4, <3>1, <3>3
      <3>. QED BY <1>2, <3>2, <3>3
    <2>. QED BY <1>3, <2>1, <2>2 DEF Moves
  <1>9. req' \in [Requests -> RequestRecs \cup {None}]
    BY <1>2, <1>6
  <1>. QED BY <1>3, <1>5, <1>7, <1>8, <1>9 DEF RequestTypes

On(r, here, there, known) ==
  pc[r] = here /\ RequestTypes' /\ \E place \in there : Moves(r, place, known)

WithRow(r)    == [req[r] EXCEPT !.row = members[Target(r)]]
WithInvite(r) == [req[r] EXCEPT !.invite = invites[Actor(r)]]

\* Where each action leads, and what the request knows then.
LEMMA ActionMoves ==
  ASSUME TypeInv, NEW r \in Requests
  PROVE  /\ CheckActor(r)    => On(r, "actor", {"lookup", "find", "forbidden"}, req[r])
         /\ FindMembership(r) => On(r, "find", {"notfound", "count", "write"}, WithRow(r))
         /\ CountAdmins(r)   => On(r, "count", {"badrequest", "write"}, req[r])
         /\ WriteMember(r)   => On(r, "write", {"notify", "error"}, req[r])
         /\ Notify(r)        => On(r, "notify", {"ok"}, req[r])
         /\ FindInvitee(r)   => On(r, "lookup", {"clear", "badrequest", "add"}, req[r])
         /\ AddMember(r)     => On(r, "add", {"conflict", "notify"}, req[r])
         /\ ClearInvites(r)  => On(r, "clear", {"create"}, req[r])
         /\ CreateInvite(r)  => On(r, "create", {"error", "ok"}, req[r])
         /\ FindUser(r)      => On(r, "signup", {"conflict", "account"}, req[r])
         /\ CreateAccount(r) => On(r, "account", {"error", "token", "pending", "ok"}, req[r])
         /\ ReadToken(r)     => On(r, "token", {"join", "badrequest"}, WithInvite(r))
         /\ ReadPending(r)   => On(r, "pending", {"join", "ok"}, WithInvite(r))
         /\ Join(r)          => On(r, "join", {"ok", "error"}, req[r])
         /\ Fail(r)   => pc[r] \in Active /\ RequestTypes' /\ Moves(r, "error", req[r])
         /\ Return(r) => pc[r] \in Answers /\ RequestTypes' /\ Moves(r, "idle", None)
  <1>1. pc[r] \in Active => req[r] \in RequestRecs
    BY DEF TypeInv, TypeOK
  <1>2. /\ members \in [Users -> MemberRows \cup {None}]
        /\ invites \in [Users -> InviteRows \cup {None}]
    BY DEF TypeInv, TypeOK
  <1>3. pc[r] \in Active => /\ Target(r) \in Users /\ Actor(r) \in Users
                            /\ WithRow(r) \in RequestRecs /\ WithInvite(r) \in RequestRecs
                            /\ WithRow(r).row = members[Target(r)]
                            /\ WithInvite(r).invite = invites[Actor(r)]
    BY <1>1, <1>2, MemberConstantsOK DEF Target, Actor, Ask, RequestRecs, AllAsks, WithRow,
       WithInvite
  <1>4. ASSUME NEW there \in Places, Goto(r, there) \/ ReadStep(r, pc[r], there, req[r])
                 \/ (\E loss \in BOOLEAN : GotoAfter(loss, r, there)),
               pc[r] \in Active, there \notin {"idle", "count", "join"},
               there = "write" => pc[r] = "count"
        PROVE  RequestTypes' /\ Moves(r, there, req[r])
    <2>1. there = "write" => req[r].row # None
      BY <1>4 DEF TypeInv, TypeOK
    <2>2. \/ pc' = [pc EXCEPT ![r] = there] /\ req' = Keep(r, there, req[r])
          \/ \E loss \in BOOLEAN : GotoAfter(loss, r, there)
      BY <1>4 DEF Goto, ReadStep
    <2>. QED BY <1>1, <1>4, <2>1, <2>2, RequestsGoOn
  <1>5. ASSUME NEW here \in Active, NEW there \in Places, ReadStep(r, here, there, req[r]),
                there \notin {"idle", "count", "join"}, there = "write" => here = "count"
         PROVE  pc[r] = here /\ RequestTypes' /\ Moves(r, there, req[r])
    BY <1>4, <1>5 DEF ReadStep
  <1>6. ASSUME CheckActor(r)
        PROVE  On(r, "actor", {"lookup", "find", "forbidden"}, req[r])
    <2>1. \/ ReadStep(r, "actor", "lookup", req[r])
          \/ ReadStep(r, "actor", "find", req[r])
          \/ ReadStep(r, "actor", "forbidden", req[r])
      BY <1>6 DEF CheckActor
    <2>. QED BY <1>5, <2>1 DEF On, Places, Active, Joining, Answers
  <1>7. ASSUME FindMembership(r)
        PROVE  On(r, "find", {"notfound", "count", "write"}, WithRow(r))
    <2>. DEFINE there == IF members[Target(r)] = None THEN "notfound"
                         ELSE IF LosesAdmin(members[Target(r)], Ask(r)) THEN "count"
                         ELSE "write"
    <2>1. /\ pc[r] = "find" /\ pc[r] \in Active
          /\ pc' = [pc EXCEPT ![r] = there] /\ req' = Keep(r, there, WithRow(r))
      BY <1>7 DEF FindMembership, ReadStep, WithRow, Active
    <2>2. /\ there \in {"notfound", "count", "write"}
          /\ there \in {"count", "write"} => members[Target(r)] # None
      OBVIOUS
    <2>. HIDE DEF there
    <2>3. RequestTypes' /\ Moves(r, there, WithRow(r))
      BY <1>3, <2>1, <2>2, RequestsGoOn DEF Places, Active, Answers
    <2>. QED BY <2>1, <2>2, <2>3 DEF On
  <1>8. ASSUME CountAdmins(r)
        PROVE  On(r, "count", {"badrequest", "write"}, req[r])
    <2>1. \/ ReadStep(r, "count", "badrequest", req[r])
          \/ ReadStep(r, "count", "write", req[r])
      BY <1>8 DEF CountAdmins
    <2>. QED BY <1>5, <2>1 DEF On, Places, Active, Joining, Answers
  <1>9. ASSUME WriteMember(r)
        PROVE  On(r, "write", {"notify", "error"}, req[r])
    <2>1. pc[r] = "write" /\ pc[r] \in Active
      BY <1>9 DEF WriteMember, Active
    <2>. DEFINE loss == IsMember(Target(r)) /\ LosesAdmin(members[Target(r)], Ask(r))
    <2>2. loss \in BOOLEAN
      BY DEF IsMember, LosesAdmin
    <2>3. GotoAfter(loss, r, "notify") \/ Goto(r, "error")
      BY <1>9 DEF WriteMember
    <2>. HIDE DEF loss
    <2>. QED BY <1>4, <2>1, <2>2, <2>3 DEF On, Places, Active, Answers
  <1>10. ASSUME Notify(r)
        PROVE  On(r, "notify", {"ok"}, req[r])
    <2>1. \/ ReadStep(r, "notify", "ok", req[r])
      BY <1>10 DEF Notify
    <2>. QED BY <1>5, <2>1 DEF On, Places, Active, Joining, Answers
  <1>11. ASSUME FindInvitee(r)
         PROVE  On(r, "lookup", {"clear", "badrequest", "add"}, req[r])
    <2>1. \/ ReadStep(r, "lookup", "clear", req[r])
          \/ ReadStep(r, "lookup", "badrequest", req[r])
          \/ ReadStep(r, "lookup", "add", req[r])
      BY <1>11 DEF FindInvitee
    <2>. QED BY <1>5, <2>1 DEF On, Places, Active, Joining, Answers
  <1>12. ASSUME AddMember(r)
         PROVE  On(r, "add", {"conflict", "notify"}, req[r])
    BY <1>4, <1>12 DEF AddMember, On, Places, Active, Answers
  <1>13. ASSUME ClearInvites(r)
         PROVE  On(r, "clear", {"create"}, req[r])
    BY <1>4, <1>13 DEF ClearInvites, On, Places, Active, Answers
  <1>14. ASSUME CreateInvite(r)
         PROVE  On(r, "create", {"error", "ok"}, req[r])
    BY <1>4, <1>14 DEF CreateInvite, On, Places, Active, Answers
  <1>15. ASSUME FindUser(r)
         PROVE  On(r, "signup", {"conflict", "account"}, req[r])
    <2>1. \/ ReadStep(r, "signup", "conflict", req[r])
          \/ ReadStep(r, "signup", "account", req[r])
      BY <1>15 DEF FindUser
    <2>. QED BY <1>5, <2>1 DEF On, Places, Active, Joining, Answers
  <1>16. ASSUME CreateAccount(r)
         PROVE  On(r, "account", {"error", "token", "pending", "ok"}, req[r])
    BY <1>4, <1>16 DEF CreateAccount, On, Places, Active, Joining, Answers
  <1>17. ASSUME NEW here \in {"token", "pending"}, NEW there \in {"badrequest", "ok", "join"},
                ReadStep(r, here, there, WithInvite(r)),
                there = "join" => IsPending(Actor(r))
         PROVE  RequestTypes' /\ Moves(r, there, WithInvite(r)) /\ pc[r] = here
    BY <1>3, <1>17, RequestsGoOn DEF ReadStep, IsPending, Places, Active, Joining, Answers
  <1>18. ASSUME ReadToken(r)
         PROVE  On(r, "token", {"join", "badrequest"}, WithInvite(r))
    BY <1>17, <1>18 DEF ReadToken, On, WithInvite
  <1>19. ASSUME ReadPending(r)
         PROVE  On(r, "pending", {"join", "ok"}, WithInvite(r))
    BY <1>17, <1>19 DEF ReadPending, On, WithInvite
  <1>20. ASSUME Join(r)
         PROVE  On(r, "join", {"ok", "error"}, req[r])
    <2>. DEFINE loss == RoleOf(Actor(r)) = "ADMIN" /\ req[r].invite.role # "ADMIN"
    <2>1. pc[r] = "join" /\ pc[r] \in Active
      BY <1>20 DEF Join, Active, Joining
    <2>2. loss \in BOOLEAN /\ (GotoAfter(loss, r, "ok") \/ Goto(r, "error"))
      BY <1>20 DEF Join
    <2>. HIDE DEF loss
    <2>. QED BY <1>4, <2>1, <2>2 DEF On, Places, Active, Answers
  <1>21. ASSUME Fail(r)
         PROVE  pc[r] \in Active /\ RequestTypes' /\ Moves(r, "error", req[r])
    BY <1>4, <1>21 DEF Fail, Places, Answers
  <1>22. ASSUME Return(r)
         PROVE  pc[r] \in Answers /\ RequestTypes' /\ Moves(r, "idle", None)
    <2>1. /\ pc[r] \in Answers
          /\ pc' = [pc EXCEPT ![r] = "idle"] /\ req' = Keep(r, "idle", None)
      BY <1>22 DEF Return, ReadStep
    <2>. QED BY <2>1, RequestsGoOn DEF Places, Active, Joining
  <1>. QED
    BY <1>6, <1>7, <1>8, <1>9, <1>10, <1>11, <1>12, <1>13, <1>14, <1>15, <1>16, <1>18, <1>19,
       <1>20, <1>21, <1>22

-----------------------------------------------------------------------------
(* Types.                                                                  *)

TableTypes ==
  /\ accounts \subseteq Users
  /\ members \in [Users -> MemberRows \cup {None}]
  /\ invites \in [Users -> InviteRows \cup {None}]
  /\ lastRow \in Nat /\ lastInvite \in Nat
  /\ uses \in [1..MaxInvites -> Nat] /\ shared \subseteq Nat
  /\ overtaken \in BOOLEAN /\ lowered \in BOOLEAN
  /\ leftOut \subseteq accounts
  /\ \A u \in Users : IsMember(u) => u \in accounts /\ members[u].id <= lastRow

LEMMA TypesAre == TypeOK <=> RequestTypes /\ TableTypes
  BY DEF TypeOK, RequestTypes, TableTypes, Places

\* A role written into a row keeps it one.
LEMMA RowsAre ==
  ASSUME TypeInv, NEW x \in Roles
  PROVE  /\ NewRow(x) \in MemberRows /\ NewRow(x) # None /\ NewRow(x).id = lastRow + 1
         /\ NewRow(x).role = x
         /\ \A u \in Users : IsMember(u) =>
              /\ [members[u] EXCEPT !.role = x] \in MemberRows
              /\ [members[u] EXCEPT !.role = x] # None
              /\ [members[u] EXCEPT !.role = x].id = members[u].id
              /\ [members[u] EXCEPT !.role = x].role = x
  <1>1. \A u \in Users : IsMember(u) => members[u] \in MemberRows
    BY DEF IsMember, TypeInv, TypeOK
  <1>. QED BY <1>1, NoneIsNoRow DEF NewRow, MemberRows, TypeInv, TypeOK

LEMMA InvitesAre ==
  ASSUME TypeInv, NEW u \in Users, invites[u] # None,
         NEW state \in {"pending", "expired", "accepted"}
  PROVE  /\ [invites[u] EXCEPT !.state = state] \in InviteRows
         /\ [invites[u] EXCEPT !.state = state] # None
         /\ [invites[u] EXCEPT !.state = state].id = invites[u].id
         /\ [invites[u] EXCEPT !.state = state].state = state
  <1>1. invites[u] \in InviteRows
    BY DEF TypeInv, TypeOK
  <1>. QED BY <1>1, NoneIsNoRow DEF InviteRows

\* What a request under way asks for, and what it read, is typed.
LEMMA AsksAre ==
  ASSUME TypeInv, NEW r \in Requests, pc[r] \in Active
  PROVE  /\ req[r] \in RequestRecs
         /\ Ask(r) \in AllAsks /\ Actor(r) \in Users /\ Target(r) \in Users
         /\ Ask(r).role \in Roles /\ Ask(r).token \in Tokens /\ Ask(r).kind \in Kinds
         /\ pc[r] \in {"count", "write"} => req[r].row \in MemberRows
         /\ pc[r] = "join" => req[r].invite \in InviteRows
  <1>1. req[r] \in RequestRecs
    BY DEF TypeInv, TypeOK
  <1>. QED
    BY <1>1, MemberConstantsOK DEF TypeInv, TypeOK, RequestRecs, AllAsks, Ask, Actor, Target

\* A membership written for somebody who has an account.
LEMMA MembersTyped ==
  ASSUME TypeInv, NEW u \in Users, NEW new \in MemberRows \cup {None},
         members' = [members EXCEPT ![u] = new], lastRow' \in Nat, lastRow' >= lastRow,
         new # None => u \in accounts' /\ new.id <= lastRow', accounts' = accounts
  PROVE  /\ members' \in [Users -> MemberRows \cup {None}]
         /\ \A v \in Users : IsMember(v)' => v \in accounts' /\ members'[v].id <= lastRow'
  <1>1. members' \in [Users -> MemberRows \cup {None}]
    BY DEF TypeInv, TypeOK
  <1>2. ASSUME NEW v \in Users, IsMember(v)'
        PROVE  v \in accounts' /\ members'[v].id <= lastRow'
    <2>1. CASE v = u
      BY <1>2, <2>1 DEF IsMember, TypeInv, TypeOK
    <2>2. CASE v # u
      <3>1. members'[v] = members[v] /\ IsMember(v)
        BY <1>2, <2>2 DEF IsMember, TypeInv, TypeOK
      <3>2. members[v] \in MemberRows /\ v \in accounts /\ members[v].id <= lastRow
        BY <3>1 DEF IsMember, TypeInv, TypeOK
      <3>3. members[v].id \in Nat /\ lastRow \in Nat
        BY <3>2 DEF MemberRows, TypeInv, TypeOK
      <3>. QED BY <3>1, <3>2, <3>3
    <2>. QED BY <2>1, <2>2
  <1>. QED BY <1>1, <1>2

LEMMA NextTables ==
  ASSUME TypeInv, Next
  PROVE  TableTypes' /\ accounts \subseteq accounts'
  <1>. DEFINE Goal == TableTypes' /\ accounts \subseteq accounts'
  <1>0. TableTypes
    BY TypesAre DEF TypeInv
  <1>1. ASSUME UNCHANGED <<accounts, members, invites, lastRow, lastInvite, history>>
        PROVE  Goal
    BY <1>0, <1>1 DEF TableTypes, IsMember, history
  <1>2. ASSUME NEW r \in Requests,
               \/ \E ask \in Asks : Receive(r, ask)
               \/ CheckActor(r) \/ FindMembership(r) \/ CountAdmins(r) \/ Notify(r)
               \/ FindInvitee(r) \/ FindUser(r) \/ ReadToken(r) \/ ReadPending(r)
               \/ Return(r)
        PROVE  Goal
    BY <1>1, <1>2 DEF Receive, CheckActor, FindMembership, CountAdmins, Notify, FindInvitee,
       FindUser, ReadToken, ReadPending, Return, ReadStep
  <1>3. ASSUME NEW r \in Requests, WriteMember(r)
        PROVE  Goal
    <2>. DEFINE u == Target(r)
                new == IF Ask(r).kind = "remove" THEN None
                       ELSE [members[u] EXCEPT !.role = Ask(r).role]
    <2>1. pc[r] = "write" /\ u \in Users /\ Ask(r).role \in Roles
      BY <1>3, AsksAre DEF WriteMember, Active
    <2>2. UNCHANGED <<accounts, invites, lastRow, lastInvite, uses, shared, lowered, leftOut>>
      BY <1>3 DEF WriteMember
    <2>3. overtaken' \in BOOLEAN
      BY <1>0, <1>3 DEF WriteMember, TableTypes, IsMember, LosesAdmin
    <2>4. CASE IsMember(u) /\ members[u].id = req[r].row.id
      <3>1. members' = [members EXCEPT ![u] = new]
        BY <1>3, <2>4 DEF WriteMember
      <3>2. /\ new \in MemberRows \cup {None}
            /\ new # None => u \in accounts' /\ new.id <= lastRow'
        BY <1>0, <2>1, <2>2, <2>4, RowsAre DEF TableTypes
      <3>. HIDE DEF new
      <3>3. /\ members' \in [Users -> MemberRows \cup {None}]
            /\ \A v \in Users : IsMember(v)' => v \in accounts' /\ members'[v].id <= lastRow'
        <4>1. lastRow' \in Nat /\ lastRow' >= lastRow
          BY <1>0, <2>2 DEF TableTypes
        <4>. QED BY <2>1, <2>2, <3>1, <3>2, <4>1, MembersTyped DEF IsMember
      <3>. QED BY <1>0, <2>2, <2>3, <3>3 DEF TableTypes
    <2>5. CASE ~(IsMember(u) /\ members[u].id = req[r].row.id)
      <3>1. members' = members
        BY <1>3, <2>5 DEF WriteMember
      <3>. QED BY <1>0, <2>2, <2>3, <3>1 DEF TableTypes, IsMember
    <2>. QED BY <2>4, <2>5
  <1>4. ASSUME NEW r \in Requests, AddMember(r)
        PROVE  Goal
    <2>1. /\ pc[r] = "add" /\ Target(r) \in Users /\ Ask(r).role \in Roles
          /\ Target(r) \in accounts
      BY <1>4, AsksAre DEF AddMember, Active, TypeInv, ActorsKnown
    <2>2. UNCHANGED <<accounts, invites, lastInvite, history>>
      BY <1>4 DEF AddMember
    <2>3. CASE IsMember(Target(r))
      BY <1>1, <1>4, <2>2, <2>3 DEF AddMember
    <2>4. CASE ~IsMember(Target(r))
      <3>1. /\ members' = [members EXCEPT ![Target(r)] = NewRow(Ask(r).role)]
            /\ lastRow' = lastRow + 1 /\ lastRow \in Nat
        BY <1>0, <1>4, <2>4 DEF AddMember, TableTypes
      <3>2. /\ NewRow(Ask(r).role) \in MemberRows
            /\ NewRow(Ask(r).role).id <= lastRow'
        BY <2>1, <3>1, RowsAre
      <3>3. /\ members' \in [Users -> MemberRows \cup {None}]
            /\ \A v \in Users : IsMember(v)' => v \in accounts' /\ members'[v].id <= lastRow'
        <4>1. lastRow' \in Nat /\ lastRow' >= lastRow
          BY <3>1
        <4>. QED BY <2>1, <2>2, <3>1, <3>2, <4>1, MembersTyped DEF IsMember
      <3>. QED BY <1>0, <2>2, <3>1, <3>3 DEF TableTypes, history
    <2>. QED BY <2>3, <2>4
  <1>5. ASSUME NEW r \in Requests, ClearInvites(r)
        PROVE  Goal
    <2>1. Target(r) \in Users
      BY <1>5, AsksAre DEF ClearInvites, Active
    <2>2. invites' \in [Users -> InviteRows \cup {None}]
      BY <1>0, <1>5, <2>1 DEF ClearInvites, TableTypes
    <2>. QED BY <1>0, <1>5, <2>2 DEF ClearInvites, TableTypes, IsMember, history
  <1>6. ASSUME NEW r \in Requests, CreateInvite(r)
        PROVE  Goal
    <2>1. Target(r) \in Users /\ Ask(r).role \in Roles
      BY <1>6, AsksAre DEF CreateInvite, Active
    <2>2. /\ UNCHANGED <<accounts, members, lastRow, uses, shared, overtaken, lowered>>
          /\ lastInvite' \in Nat
      BY <1>0, <1>6 DEF CreateInvite, TableTypes
    <2>3. [id |-> lastInvite + 1, role |-> Ask(r).role, state |-> "pending"] \in InviteRows
      BY <1>0, <2>1 DEF TableTypes, InviteRows
    <2>4. invites' \in [Users -> InviteRows \cup {None}]
      BY <1>0, <1>6, <2>3 DEF CreateInvite, TableTypes
    <2>5. leftOut' \subseteq accounts
      BY <1>0, <1>6 DEF CreateInvite, TableTypes
    <2>. QED BY <1>0, <2>2, <2>4, <2>5 DEF TableTypes, IsMember
  <1>7. ASSUME NEW r \in Requests, CreateAccount(r)
        PROVE  Goal
    <2>1. Actor(r) \in Users
      BY <1>7, AsksAre DEF CreateAccount, Active, Joining
    <2>2. UNCHANGED <<members, invites, lastRow, lastInvite, uses, shared, overtaken, lowered>>
      BY <1>7 DEF CreateAccount
    <2>3. accounts' \subseteq Users /\ accounts \subseteq accounts' /\ leftOut' \subseteq accounts'
      BY <1>0, <1>7, <2>1 DEF CreateAccount, TableTypes
    <2>. QED BY <1>0, <2>2, <2>3 DEF TableTypes, IsMember
  <1>8. ASSUME NEW r \in Requests, Join(r)
        PROVE  Goal
    <2>. DEFINE u == Actor(r)
                x == req[r].invite.role
                i == req[r].invite.id
                new == IF IsMember(u) THEN [members[u] EXCEPT !.role = x] ELSE NewRow(x)
    <2>1. /\ pc[r] = "join" /\ u \in Users /\ req[r].invite \in InviteRows
          /\ u \in accounts
      BY <1>8, AsksAre DEF Join, Active, Joining, TypeInv, ActorsKnown
    <2>2. x \in Roles /\ i \in Nat
      BY <2>1 DEF InviteRows
    <2>3. UNCHANGED <<accounts, lastInvite, overtaken, leftOut>>
      BY <1>8 DEF Join
    <2>4. CASE invites[u] # None /\ invites[u].id = i
      <3>1. /\ invites' = [invites EXCEPT ![u].state = "accepted"]
            /\ members' = [members EXCEPT ![u] = new]
            /\ lastRow' = IF IsMember(u) THEN lastRow ELSE lastRow + 1
            /\ uses' = [uses EXCEPT ![i] = uses[i] + 1]
            /\ shared' \subseteq shared \cup {i}
            /\ lowered' \in BOOLEAN
        BY <1>0, <1>8, <2>4 DEF Join, TableTypes
      <3>2. lastRow' \in Nat /\ lastRow' >= lastRow
        BY <1>0, <3>1 DEF TableTypes
      <3>3. new \in MemberRows /\ new.id <= lastRow'
        BY <1>0, <2>1, <2>2, <3>1, <3>2, RowsAre DEF TableTypes
      <3>4. invites' \in [Users -> InviteRows \cup {None}]
        BY <1>0, <2>1, <2>4, <3>1, InvitesAre DEF TableTypes
      <3>5. uses' \in [1..MaxInvites -> Nat]
        <4>1. uses \in [1..MaxInvites -> Nat] /\ uses' = [uses EXCEPT ![i] = uses[i] + 1]
          BY <1>0, <3>1 DEF TableTypes
        <4>. HIDE DEF i
        <4>2. i \in 1..MaxInvites => uses[i] + 1 \in Nat
          BY <4>1
        <4>. QED BY <4>1, <4>2
      <3>6. shared' \subseteq Nat
        BY <1>0, <2>2, <3>1 DEF TableTypes
      <3>. HIDE DEF new, u, x, i
      <3>7. /\ members' \in [Users -> MemberRows \cup {None}]
            /\ \A v \in Users : IsMember(v)' => v \in accounts' /\ members'[v].id <= lastRow'
        BY <2>1, <2>3, <3>1, <3>2, <3>3, MembersTyped
      <3>. QED BY <1>0, <2>3, <3>1, <3>2, <3>4, <3>5, <3>6, <3>7 DEF TableTypes
    <2>5. CASE ~(invites[u] # None /\ invites[u].id = i)
      <3>1. UNCHANGED <<invites, members, lastRow, uses, shared, lowered>>
        BY <1>8, <2>5 DEF Join
      <3>. QED BY <1>1, <2>3, <3>1 DEF history
    <2>. QED BY <2>4, <2>5
  <1>9. ASSUME NEW r \in Requests, Fail(r)
        PROVE  Goal
    <2>1. leftOut' \subseteq accounts
      BY <1>0, <1>9 DEF Fail, TableTypes, TypeInv, ActorsKnown
    <2>. QED BY <1>0, <1>9, <2>1 DEF Fail, TableTypes, IsMember
  <1>10. ASSUME NEW u \in Users, Expire(u)
         PROVE  Goal
    <2>1. invites[u] # None
      BY <1>10 DEF Expire, IsPending
    <2>2. invites' \in [Users -> InviteRows \cup {None}]
      BY <1>0, <1>10, <2>1, InvitesAre DEF Expire, TableTypes
    <2>. QED BY <1>0, <1>10, <2>2 DEF Expire, TableTypes, IsMember, history
  <1>. QED
    BY <1>2, <1>3, <1>4, <1>5, <1>6, <1>7, <1>8, <1>9, <1>10 DEF Next, Step

NewRequest(ask) == [ask |-> ask, row |-> None, invite |-> None, stale |-> FALSE]

LEMMA ReceiveMoves ==
  ASSUME TypeInv, NEW r \in Requests, NEW ask \in Asks, Receive(r, ask)
  PROVE  /\ pc[r] = "idle" /\ RequestTypes'
         /\ Moves(r, FirstPlace(ask.kind), NewRequest(ask))
         /\ FirstPlace(ask.kind) \in {"signup", "token", "actor"}
         /\ ask.kind = "register" => FirstPlace(ask.kind) = "signup"
         /\ UNCHANGED <<accounts, members, invites, lastRow, lastInvite, history>>
  <1>1. FirstPlace(ask.kind) \in {"signup", "token", "actor"}
    BY DEF FirstPlace
  <1>2. NewRequest(ask) \in RequestRecs
    BY DEF NewRequest, RequestRecs
  <1>3. /\ pc[r] = "idle"
        /\ pc' = [pc EXCEPT ![r] = FirstPlace(ask.kind)]
        /\ req' = Keep(r, FirstPlace(ask.kind), NewRequest(ask))
        /\ UNCHANGED <<accounts, members, invites, lastRow, lastInvite, history>>
    BY DEF Receive, ReadStep, NewRequest
  <1>4. FirstPlace(ask.kind) \in Places /\ FirstPlace(ask.kind) \notin {"idle", "count", "write", "join"}
    BY <1>1 DEF Places, Active, Joining
  <1>5. RequestTypes' /\ Moves(r, FirstPlace(ask.kind), NewRequest(ask))
    BY <1>2, <1>3, <1>4, RequestsGoOn
  <1>. QED BY <1>1, <1>3, <1>5 DEF FirstPlace

\* Reading a row or an invite does not change what was asked.
LEMMA AskStays ==
  ASSUME TypeInv, NEW r \in Requests, pc[r] \in Active
  PROVE  /\ WithRow(r).ask = Ask(r) /\ WithRow(r).row = members[Target(r)]
         /\ WithRow(r).stale = req[r].stale
         /\ WithInvite(r).ask = Ask(r) /\ WithInvite(r).invite = invites[Actor(r)]
  BY AsksAre DEF WithRow, WithInvite, RequestRecs, Ask

\* Nobody else's request changes, but for the mark of who is about to write.
LEMMA OthersStay ==
  ASSUME TypeInv, NEW r \in Requests, NEW there, NEW known, Moves(r, there, known),
         NEW q \in Requests, q # r
  PROVE  /\ pc'[q] = pc[q]
         /\ pc[q] # "write" => req'[q] = req[q]
         /\ pc[q] = "write" => /\ req'[q].ask = req[q].ask /\ req'[q].row = req[q].row
                               /\ ~req'[q].stale => req'[q] = req[q]
  <1>1. pc[q] = "write" => req[q] \in RequestRecs
    BY AsksAre DEF Active
  <1>2. pc[q] = "write" => LET late == [req[q] EXCEPT !.stale = TRUE] IN
          late.stale = TRUE /\ late.ask = req[q].ask /\ late.row = req[q].row
    BY <1>1 DEF RequestRecs
  <1>3. CASE req'[q] = req[q]
    BY <1>3 DEF Moves
  <1>4. CASE pc[q] = "write" /\ req'[q] = [req[q] EXCEPT !.stale = TRUE]
    BY <1>2, <1>4 DEF Moves
  <1>. QED BY <1>3, <1>4 DEF Moves

LEMMA NextTypes ==
  ASSUME TypeInv, Next
  PROVE  TypeInv'
  <1>1. TableTypes' /\ accounts \subseteq accounts'
    BY NextTables
  <1>2. CASE \E u \in Users : Expire(u)
    <2>1. RequestTypes
      BY TypesAre DEF TypeInv
    <2>2. RequestTypes'
      BY <1>2, <2>1 DEF Expire, RequestTypes
    <2>3. TypeOK'
      BY <1>1, <2>2 DEF TypeOK, RequestTypes, TableTypes, Places
    <2>. QED BY <1>2, <2>3 DEF Expire, TypeInv, ActorsKnown, Actor, Target, Ask
  <1>3. ASSUME NEW r \in Requests, NEW there, NEW known, Moves(r, there, known), RequestTypes',
               there = "add" => known.ask.target \in accounts',
               there \in {"token", "pending", "join"} => known.ask.by \in accounts'
        PROVE  TypeInv'
    <2>1. TypeOK'
      BY <1>1, <1>3 DEF TypeOK, RequestTypes, TableTypes, Places
    <2>2. /\ pc'[r] = there
          /\ there \notin Answers => req'[r] = known
      BY <1>3 DEF Moves
    <2>3. /\ pc'[r] = "add" => Target(r)' \in accounts'
          /\ pc'[r] \in {"token", "pending", "join"} => Actor(r)' \in accounts'
      BY <1>3, <2>2 DEF Target, Actor, Ask, Answers
    <2>4. ASSUME NEW q \in Requests, q # r
          PROVE  /\ pc'[q] = "add" => Target(q)' \in accounts'
                 /\ pc'[q] \in {"token", "pending", "join"} => Actor(q)' \in accounts'
      BY <1>1, <1>3, <2>4, OthersStay DEF Target, Actor, Ask, TypeInv, ActorsKnown
    <2>. QED BY <2>1, <2>3, <2>4 DEF TypeInv, ActorsKnown
  <1>4. ASSUME NEW r \in Requests, NEW here, NEW there, NEW known,
               On(r, here, there, known),
               there \cap {"add", "token", "pending", "join"} = {}
        PROVE  TypeInv'
    BY <1>3, <1>4 DEF On
  <1>5. ASSUME NEW r \in Requests, NEW ask \in Asks, Receive(r, ask)
        PROVE  TypeInv'
    <2>1. FirstPlace(ask.kind) = "token" => ask.by \in accounts'
      BY <1>5, ReceiveMoves DEF Receive, FirstPlace
    <2>. QED BY <1>3, <1>5, <2>1, ReceiveMoves DEF NewRequest
  <1>6. ASSUME NEW r \in Requests, FindInvitee(r)
        PROVE  TypeInv'
    <2>1. PICK there \in {"clear", "badrequest", "add"} : Moves(r, there, req[r])
      BY <1>6, ActionMoves DEF On
    <2>2. pc'[r] = there /\ RequestTypes'
      BY <1>6, <2>1, ActionMoves DEF On, Moves
    <2>3. there = "add" => Target(r) \in accounts /\ accounts' = accounts
      <3>1. PICK place :
              /\ ReadStep(r, "lookup", place, req[r])
              /\ place = IF Target(r) \notin accounts THEN "clear"
                         ELSE IF Target(r) = Actor(r) THEN "badrequest" ELSE "add"
        BY <1>6 DEF FindInvitee
      <3>2. pc' = [pc EXCEPT ![r] = place] /\ accounts' = accounts
        BY <3>1 DEF ReadStep
      <3>3. place = there
        BY <2>2, <3>2 DEF TypeInv, TypeOK
      <3>. QED BY <3>1, <3>2, <3>3
    <2>4. there = "add" => req[r].ask.target \in accounts'
      BY <2>3 DEF Target, Ask
    <2>. QED BY <1>3, <2>1, <2>2, <2>4
  <1>7. ASSUME NEW r \in Requests, CreateAccount(r)
        PROVE  TypeInv'
    <2>1. PICK there \in {"error", "token", "pending", "ok"} : Moves(r, there, req[r])
      BY <1>7, ActionMoves DEF On
    <2>2. RequestTypes'
      BY <1>7, ActionMoves DEF On
    <2>3. Actor(r) \in accounts'
      BY <1>7 DEF CreateAccount
    <2>4. req[r].ask.by \in accounts'
      BY <2>3 DEF Actor, Ask
    <2>. QED BY <1>3, <2>1, <2>2, <2>4
  <1>8. ASSUME NEW r \in Requests, ReadToken(r) \/ ReadPending(r)
        PROVE  TypeInv'
    <2>1. pc[r] \in {"token", "pending"} /\ pc[r] \in Active
      BY <1>8, ActionMoves DEF On, Active, Joining
    <2>2. Actor(r) \in accounts /\ WithInvite(r).ask = Ask(r)
      BY <2>1, AskStays DEF TypeInv, ActorsKnown
    <2>3. \E there \in {"join", "badrequest", "ok"} : Moves(r, there, WithInvite(r))
      BY <1>8, ActionMoves DEF On
    <2>4. RequestTypes'
      BY <1>8, ActionMoves DEF On
    <2>5. WithInvite(r).ask.by \in accounts'
      BY <1>1, <2>2 DEF Actor
    <2>. QED BY <1>3, <2>3, <2>4, <2>5
  <1>9. ASSUME NEW r \in Requests,
               \/ CheckActor(r) \/ FindMembership(r) \/ CountAdmins(r) \/ WriteMember(r)
               \/ Notify(r) \/ AddMember(r) \/ ClearInvites(r) \/ CreateInvite(r)
               \/ FindUser(r) \/ Join(r)
        PROVE  TypeInv'
    <2>. USE <1>4
    <2>1. CASE CheckActor(r)     BY <2>1, ActionMoves
    <2>2. CASE FindMembership(r) BY <2>2, ActionMoves
    <2>3. CASE CountAdmins(r)    BY <2>3, ActionMoves
    <2>4. CASE WriteMember(r)    BY <2>4, ActionMoves
    <2>5. CASE Notify(r)         BY <2>5, ActionMoves
    <2>6. CASE AddMember(r)      BY <2>6, ActionMoves
    <2>7. CASE ClearInvites(r)   BY <2>7, ActionMoves
    <2>8. CASE CreateInvite(r)   BY <2>8, ActionMoves
    <2>9. CASE FindUser(r)       BY <2>9, ActionMoves
    <2>10. CASE Join(r)          BY <2>10, ActionMoves
    <2>. QED BY <1>9, <2>1, <2>2, <2>3, <2>4, <2>5, <2>6, <2>7, <2>8, <2>9, <2>10
  <1>10. ASSUME NEW r \in Requests, Fail(r) \/ Return(r)
         PROVE  TypeInv'
    BY <1>3, <1>10, ActionMoves
  <1>. QED BY <1>2, <1>5, <1>6, <1>7, <1>8, <1>9, <1>10 DEF Next, Step

-----------------------------------------------------------------------------
(* The last admin.                                                         *)

TwoAdmins == \E a, b \in Admins : a # b

\* r has counted the admins before it takes one away, and none was lost since.
Counted(r) ==
  pc[r] = "write" /\ ~req[r].stale /\ LosesAdmin(req[r].row, Ask(r))

AdminInv ==
  /\ AdminLossHasCause
  /\ \A r \in Requests : Counted(r) => TwoAdmins

LEMMA AdminIs ==
  ASSUME NEW u \in Users
  PROVE  u \in Admins <=> IsMember(u) /\ members[u].role = "ADMIN"
  BY MemberConstantsOK DEF Admins, RoleOf, IsMember, Roles

LEMMA AdminIsNext ==
  ASSUME NEW u \in Users
  PROVE  u \in Admins' <=> IsMember(u)' /\ members'[u].role = "ADMIN"
  BY MemberConstantsOK DEF Admins, RoleOf, IsMember, Roles

\* More than one is at least two.
LEMMA MoreThanOne ==
  ASSUME ~(Cardinality(Admins) <= 1)
  PROVE  TwoAdmins
  <1>1. CASE Admins = {}
    BY <1>1, FS_EmptySet
  <1>2. ASSUME NEW a \in Admins, ~TwoAdmins
        PROVE  FALSE
    <2>1. Admins = {a}
      BY <1>2 DEF TwoAdmins
    <2>2. Cardinality({a}) = 1
      BY FS_Singleton
    <2>3. Cardinality(Admins) = 1
      BY <2>1, <2>2
    <2>. QED BY <2>3
  <1>. QED BY <1>1, <1>2

\* r takes the admin role from one user; who is about to write is late now.
Loses(r) ==
  /\ \E u \in Users : Admins \ {u} \subseteq Admins'
  /\ pc'[r] # "write"
  /\ \A q \in Requests \ {r} : pc[q] = "write" => req'[q].stale
  /\ overtaken' \/ lowered' \/ Counted(r)

Flags == (overtaken => overtaken') /\ (lowered => lowered')

\* A row that keeps being an admin's, or is new, takes no admin away.
LEMMA AdminsStay ==
  ASSUME TypeInv, NEW u \in Users, NEW new,
         members' = [members EXCEPT ![u] = new],
         IsMember(u) /\ members[u].role = "ADMIN" => new # None /\ new.role = "ADMIN"
  PROVE  Admins \subseteq Admins'
  <1>. SUFFICES ASSUME NEW v \in Users, v \in Admins
                PROVE  v \in Admins'
    BY DEF Admins
  <1>1. CASE v # u
    BY <1>1, AdminIs, AdminIsNext DEF IsMember, TypeInv, TypeOK
  <1>2. CASE v = u
    BY <1>2, AdminIs, AdminIsNext DEF IsMember, TypeInv, TypeOK
  <1>. QED BY <1>1, <1>2

LEMMA AdminsButOne ==
  ASSUME TypeInv, NEW u \in Users, NEW new, members' = [members EXCEPT ![u] = new]
  PROVE  Admins \ {u} \subseteq Admins'
  <1>. SUFFICES ASSUME NEW v \in Users, v # u, v \in Admins
                PROVE  v \in Admins'
    BY DEF Admins
  <1>. QED BY AdminIs, AdminIsNext DEF IsMember, TypeInv, TypeOK

LEMMA LateMarks ==
  ASSUME TypeInv, NEW r \in Requests, NEW there, GotoAfter(TRUE, r, there), there # "write"
  PROVE  /\ pc'[r] # "write"
         /\ \A q \in Requests \ {r} : pc[q] = "write" => req'[q].stale
  <1>1. \A q \in Requests \ {r} : pc[q] = "write" =>
          req'[q] = [req[q] EXCEPT !.stale = TRUE]
    BY DEF GotoAfter
  <1>2. \A q \in Requests : pc[q] = "write" => [req[q] EXCEPT !.stale = TRUE].stale = TRUE
    BY AsksAre DEF Active, RequestRecs
  <1>3. pc' = [pc EXCEPT ![r] = there]
    BY DEF GotoAfter
  <1>. QED BY <1>1, <1>2, <1>3 DEF TypeInv, TypeOK

LEMMA NextAdmins ==
  ASSUME TypeInv, Next
  PROVE  Flags /\ (Admins \subseteq Admins' \/ \E r \in Requests : Loses(r))
  <1>. DEFINE Goal == Flags /\ (Admins \subseteq Admins' \/ \E r \in Requests : Loses(r))
  <1>1. ASSUME UNCHANGED <<members, overtaken, lowered>>
        PROVE  Goal
    BY <1>1 DEF Flags, Admins, RoleOf, IsMember
  <1>2. ASSUME NEW r \in Requests,
               \/ \E ask \in Asks : Receive(r, ask)
               \/ CheckActor(r) \/ FindMembership(r) \/ CountAdmins(r) \/ Notify(r)
               \/ FindInvitee(r) \/ FindUser(r) \/ ReadToken(r) \/ ReadPending(r)
               \/ Return(r)
        PROVE  Goal
    BY <1>1, <1>2 DEF Receive, CheckActor, FindMembership, CountAdmins, Notify, FindInvitee,
       FindUser, ReadToken, ReadPending, Return, ReadStep, history
  <1>3. ASSUME NEW r \in Requests,
               \/ ClearInvites(r) \/ CreateInvite(r) \/ CreateAccount(r) \/ Fail(r)
               \/ \E u \in Users : Expire(u)
        PROVE  Goal
    BY <1>1, <1>3 DEF ClearInvites, CreateInvite, CreateAccount, Fail, Expire, history
  <1>4. ASSUME NEW r \in Requests, AddMember(r)
        PROVE  Goal
    <2>1. Target(r) \in Users
      BY <1>4, AsksAre DEF AddMember, Active
    <2>2. Flags
      BY <1>4 DEF AddMember, Flags, history
    <2>3. Admins \subseteq Admins'
      <3>1. CASE IsMember(Target(r))
        BY <1>4, <3>1 DEF AddMember, Admins, RoleOf, IsMember
      <3>2. CASE ~IsMember(Target(r))
        <4>1. members' = [members EXCEPT ![Target(r)] = NewRow(Ask(r).role)]
          BY <1>4, <3>2 DEF AddMember
        <4>. QED BY <2>1, <3>2, <4>1, AdminsStay
      <3>. QED BY <3>1, <3>2
    <2>. QED BY <2>2, <2>3
  <1>5. ASSUME NEW r \in Requests, WriteMember(r)
        PROVE  Goal
    <2>. DEFINE u == Target(r)
                new == IF Ask(r).kind = "remove" THEN None
                       ELSE [members[u] EXCEPT !.role = Ask(r).role]
                loss == IsMember(u) /\ LosesAdmin(members[u], Ask(r))
    <2>1. pc[r] = "write" /\ u \in Users /\ Ask(r).role \in Roles
      BY <1>5, AsksAre DEF WriteMember, Active
    <2>2. Flags
      BY <1>5 DEF WriteMember, Flags
    <2>3. CASE ~(IsMember(u) /\ members[u].id = req[r].row.id)
      BY <1>1, <1>5, <2>3 DEF WriteMember
    <2>4. CASE IsMember(u) /\ members[u].id = req[r].row.id
      <3>1. /\ members' = [members EXCEPT ![u] = new]
            /\ overtaken' = (overtaken \/ (loss /\ (req[r].stale \/ req[r].row.role # "ADMIN")))
            /\ GotoAfter(loss, r, "notify")
        BY <1>5, <2>4 DEF WriteMember
      <3>2. CASE loss
        <4>1. Admins \ {u} \subseteq Admins'
          BY <2>1, <3>1, AdminsButOne
        <4>2. overtaken' \/ Counted(r)
          BY <2>1, <3>1, <3>2 DEF Counted, LosesAdmin
        <4>3. GotoAfter(TRUE, r, "notify")
          BY <3>1, <3>2 DEF GotoAfter
        <4>4. /\ pc'[r] # "write"
              /\ \A q \in Requests \ {r} : pc[q] = "write" => req'[q].stale
          BY <4>3, LateMarks
        <4>. QED BY <2>1, <2>2, <4>1, <4>2, <4>4 DEF Loses
      <3>3. CASE ~loss
        <4>1. members[u].role = "ADMIN" =>
                /\ Ask(r).kind # "remove" /\ Ask(r).role = "ADMIN"
          BY <2>4, <3>3 DEF LosesAdmin
        <4>2. members[u].role = "ADMIN" => new # None /\ new.role = "ADMIN"
          BY <2>1, <2>4, <4>1, RowsAre
        <4>. HIDE DEF new
        <4>3. Admins \subseteq Admins'
          BY <2>1, <3>1, <4>2, AdminsStay
        <4>. QED BY <2>2, <4>3
      <3>. QED BY <3>2, <3>3
    <2>. QED BY <2>3, <2>4
  <1>6. ASSUME NEW r \in Requests, Join(r)
        PROVE  Goal
    <2>. DEFINE u == Actor(r)
                x == req[r].invite.role
                new == IF IsMember(u) THEN [members[u] EXCEPT !.role = x] ELSE NewRow(x)
                loss == RoleOf(u) = "ADMIN" /\ x # "ADMIN"
    <2>1. pc[r] = "join" /\ u \in Users /\ x \in Roles
      BY <1>6, AsksAre DEF Join, Active, Joining, InviteRows
    <2>2. Flags
      BY <1>6 DEF Join, Flags
    <2>3. CASE ~(invites[u] # None /\ invites[u].id = req[r].invite.id)
      BY <1>1, <1>6, <2>3 DEF Join
    <2>4. CASE invites[u] # None /\ invites[u].id = req[r].invite.id
      <3>1. /\ members' = [members EXCEPT ![u] = new]
            /\ lowered' = (lowered \/ loss)
            /\ GotoAfter(loss, r, "ok")
        BY <1>6, <2>4 DEF Join
      <3>2. CASE loss
        <4>1. Admins \ {u} \subseteq Admins'
          BY <2>1, <3>1, AdminsButOne
        <4>2. GotoAfter(TRUE, r, "ok")
          BY <3>1, <3>2 DEF GotoAfter
        <4>3. /\ pc'[r] # "write"
              /\ \A q \in Requests \ {r} : pc[q] = "write" => req'[q].stale
          BY <4>2, LateMarks
        <4>. QED BY <2>1, <2>2, <3>1, <3>2, <4>1, <4>3 DEF Loses
      <3>3. CASE ~loss
        <4>1. IsMember(u) /\ members[u].role = "ADMIN" => x = "ADMIN"
          BY <3>3 DEF RoleOf
        <4>2. IsMember(u) /\ members[u].role = "ADMIN" => new # None /\ new.role = "ADMIN"
          BY <2>1, <4>1, RowsAre
        <4>. HIDE DEF new
        <4>3. Admins \subseteq Admins'
          BY <2>1, <3>1, <4>2, AdminsStay
        <4>. QED BY <2>2, <4>3
      <3>. QED BY <3>2, <3>3
    <2>. QED BY <2>3, <2>4
  <1>7. CASE \E u \in Users : Expire(u)
    BY <1>1, <1>7 DEF Expire, history
  <1>. QED
    BY <1>2, <1>3, <1>4, <1>5, <1>6, <1>7 DEF Next, Step

\* Who comes to write with an admin to take away has counted two just now.
LEMMA NewlyCounted ==
  ASSUME TypeInv, Next, NEW q \in Requests, Counted(q)', ~Counted(q)
  PROVE  TwoAdmins /\ Admins \subseteq Admins'
  <1>1. ASSUME NEW r \in Requests, NEW there, NEW known, Moves(r, there, known), q # r
        PROVE  FALSE
    BY <1>1, OthersStay DEF Counted, Ask
  <1>2. ASSUME NEW there, NEW known, Moves(q, there, known), there # "write"
        PROVE  FALSE
    BY <1>2 DEF Moves, Counted
  <1>3. ASSUME NEW r \in Requests, NEW here, NEW there, NEW known,
               On(r, here, there, known), "write" \notin there
        PROVE  FALSE
    <2>1. PICK place \in there : Moves(r, place, known)
      BY <1>3 DEF On
    <2>. QED BY <1>1, <1>2, <1>3, <2>1
  <1>4. ASSUME NEW r \in Requests, NEW ask \in Asks, Receive(r, ask)
        PROVE  FALSE
    BY <1>1, <1>2, <1>4, ReceiveMoves
  <1>5. ASSUME NEW r \in Requests,
               \/ CheckActor(r) \/ WriteMember(r) \/ Notify(r) \/ FindInvitee(r)
               \/ AddMember(r) \/ ClearInvites(r) \/ CreateInvite(r) \/ FindUser(r)
               \/ CreateAccount(r) \/ ReadToken(r) \/ ReadPending(r) \/ Join(r)
        PROVE  FALSE
    <2>. USE <1>3
    <2>1. CASE CheckActor(r)     BY <2>1, ActionMoves
    <2>2. CASE WriteMember(r)    BY <2>2, ActionMoves
    <2>3. CASE Notify(r)         BY <2>3, ActionMoves
    <2>4. CASE FindInvitee(r)    BY <2>4, ActionMoves
    <2>5. CASE AddMember(r)      BY <2>5, ActionMoves
    <2>6. CASE ClearInvites(r)   BY <2>6, ActionMoves
    <2>7. CASE CreateInvite(r)   BY <2>7, ActionMoves
    <2>8. CASE FindUser(r)       BY <2>8, ActionMoves
    <2>9. CASE CreateAccount(r)  BY <2>9, ActionMoves
    <2>10. CASE ReadToken(r)     BY <2>10, ActionMoves
    <2>11. CASE ReadPending(r)   BY <2>11, ActionMoves
    <2>12. CASE Join(r)          BY <2>12, ActionMoves
    <2>. QED
      BY <1>5, <2>1, <2>2, <2>3, <2>4, <2>5, <2>6, <2>7, <2>8, <2>9, <2>10, <2>11, <2>12
  <1>6. ASSUME NEW r \in Requests, Fail(r) \/ Return(r)
        PROVE  FALSE
    BY <1>1, <1>2, <1>6, ActionMoves
  <1>7. ASSUME NEW r \in Requests, FindMembership(r)
        PROVE  FALSE
    <2>1. PICK place \in {"notfound", "count", "write"} : Moves(r, place, WithRow(r))
      BY <1>7, ActionMoves DEF On
    <2>2. q = r /\ place = "write" /\ pc[r] = "find" /\ req'[r] = WithRow(r)
      BY <1>1, <1>2, <1>7, <2>1, ActionMoves DEF On, Moves, Answers
    <2>3. ~LosesAdmin(members[Target(r)], Ask(r))
      <3>1. pc'[r] = "write"
        BY <2>1, <2>2 DEF Moves
      <3>. QED BY <1>7, <3>1 DEF FindMembership, ReadStep, TypeInv, TypeOK
    <2>4. WithRow(r).ask = Ask(r) /\ WithRow(r).row = members[Target(r)]
      BY <2>2, AskStays DEF Active
    <2>. QED BY <2>2, <2>3, <2>4 DEF Counted, Ask
  <1>8. ASSUME NEW r \in Requests, CountAdmins(r)
        PROVE  TwoAdmins /\ Admins \subseteq Admins'
    <2>1. PICK place \in {"badrequest", "write"} : Moves(r, place, req[r])
      BY <1>8, ActionMoves DEF On
    <2>2. q = r /\ place = "write" /\ pc'[r] = "write"
      BY <1>1, <1>2, <1>8, <2>1 DEF Moves
    <2>3. ~(Cardinality(Admins) <= 1)
      BY <1>8, <2>2 DEF CountAdmins, ReadStep, TypeInv, TypeOK
    <2>4. members' = members
      BY <1>8 DEF CountAdmins, ReadStep
    <2>. QED BY <2>3, <2>4, MoreThanOne DEF Admins, RoleOf, IsMember
  <1>9. CASE \E u \in Users : Expire(u)
    BY <1>9 DEF Expire, Counted, Ask
  <1>. QED BY <1>4, <1>5, <1>6, <1>7, <1>8, <1>9 DEF Next, Step

LEMMA NextAdminInv ==
  ASSUME TypeInv, AdminInv, Next
  PROVE  AdminInv'
  <1>1. Flags
    BY NextAdmins
  <1>2. CASE Admins \subseteq Admins'
    <2>1. TwoAdmins => TwoAdmins'
      BY <1>2 DEF TwoAdmins
    <2>2. AdminLossHasCause'
      BY <1>1, <1>2 DEF AdminInv, AdminLossHasCause, Flags
    <2>3. \A q \in Requests : Counted(q)' => TwoAdmins
      BY NewlyCounted DEF AdminInv
    <2>. QED BY <2>1, <2>2, <2>3 DEF AdminInv
  <1>3. ASSUME NEW r \in Requests, Loses(r), ~(Admins \subseteq Admins')
        PROVE  AdminInv'
    <2>1. AdminLossHasCause'
      <3>1. CASE overtaken' \/ lowered'
        BY <3>1 DEF AdminLossHasCause
      <3>2. CASE Counted(r)
        <4>1. PICK a \in Admins, b \in Admins : a # b
          BY <3>2 DEF AdminInv, TwoAdmins
        <4>2. Admins' # {}
          BY <1>3, <4>1 DEF Loses
        <4>. QED BY <4>2 DEF AdminLossHasCause
      <3>. QED BY <1>3, <3>1, <3>2 DEF Loses
    <2>2. ASSUME NEW q \in Requests, Counted(q)'
          PROVE  FALSE
      <3>1. Counted(q)
        BY <1>3, <2>2, NewlyCounted
      <3>2. pc[q] = "write" /\ pc'[q] = "write" /\ ~req'[q].stale
        BY <2>2, <3>1 DEF Counted
      <3>. QED BY <1>3, <3>2 DEF Loses
    <2>. QED BY <2>1, <2>2 DEF AdminInv
  <1>. QED BY <1>2, <1>3, NextAdmins

-----------------------------------------------------------------------------
(* An invite is used once.                                                 *)

IdsDiffer ==
  \A u \in Users : invites[u] # None =>
    /\ invites[u].id <= lastInvite
    /\ \A v \in Users \ {u} : invites[v] # None => invites[v].id # invites[u].id

\* Who read an invite before it was used shares it.
ReadersShare ==
  \A r \in Requests : pc[r] = "join" =>
    /\ req[r].invite.id <= lastInvite
    /\ \A i \in 1..MaxInvites : uses[i] > 0 /\ req[r].invite.id = i => i \in shared

UsedUp ==
  \A i \in 1..MaxInvites : uses[i] > 0 =>
    /\ i <= lastInvite
    /\ \A u \in Users : invites[u] # None /\ invites[u].id = i => invites[u].state = "accepted"

UseInv == IdsDiffer /\ ReadersShare /\ UsedUp /\ InviteReuseHasCause

LEMMA InviteIds ==
  ASSUME TypeInv
  PROVE  /\ \A u \in Users : invites[u] # None => invites[u].id \in Nat
         /\ \A r \in Requests : pc[r] = "join" => req[r].invite.id \in Nat
         /\ lastInvite \in Nat
         /\ \A i \in 1..MaxInvites : uses[i] \in Nat
  BY AsksAre DEF TypeInv, TypeOK, InviteRows, Active, Joining

\* Who is about to join was already, with the invite it had, or has just read
\* one that waits.
Readers ==
  \A q \in Requests : pc'[q] = "join" =>
    \/ pc[q] = "join" /\ req'[q] = req[q]
    \/ \E u \in Users : IsPending(u) /\ req'[q].invite = invites[u]

\* Invites only go, or expire.
Fade ==
  \A u \in Users : invites'[u] # None =>
    /\ invites[u] # None /\ invites'[u].id = invites[u].id
    /\ invites'[u].state = invites[u].state \/ IsPending(u)

LEMMA UseStays ==
  ASSUME TypeInv, UseInv, Readers, Fade, UNCHANGED <<lastInvite, uses, shared>>
  PROVE  UseInv'
  <1>1. IdsDiffer'
    BY DEF UseInv, IdsDiffer, Fade
  <1>2. ASSUME NEW r \in Requests, pc'[r] = "join"
        PROVE  /\ req'[r].invite.id <= lastInvite
               /\ \A i \in 1..MaxInvites : uses[i] > 0 /\ req'[r].invite.id = i => i \in shared
    <2>1. CASE pc[r] = "join" /\ req'[r] = req[r]
      BY <2>1 DEF UseInv, ReadersShare
    <2>2. ASSUME NEW u \in Users, IsPending(u), req'[r].invite = invites[u]
          PROVE  /\ req'[r].invite.id <= lastInvite
                 /\ \A i \in 1..MaxInvites : uses[i] > 0 => req'[r].invite.id # i
      BY <2>2 DEF UseInv, IdsDiffer, UsedUp, IsPending
    <2>. QED BY <1>2, <2>1, <2>2 DEF Readers
  <1>3. UsedUp'
    BY DEF UseInv, UsedUp, Fade, IsPending
  <1>. QED BY <1>1, <1>2, <1>3 DEF UseInv, ReadersShare, InviteReuseHasCause

LEMMA UseCreate ==
  ASSUME TypeInv, UseInv, NEW e \in Users, NEW role, Readers,
         invites' = [invites EXCEPT ![e] =
           [id |-> lastInvite + 1, role |-> role, state |-> "pending"]],
         lastInvite' = lastInvite + 1, UNCHANGED <<uses, shared>>,
         \A q \in Requests : pc'[q] = "join" => pc[q] = "join" /\ req'[q] = req[q]
  PROVE  UseInv'
  <1>1. /\ invites'[e].id = lastInvite + 1
        /\ \A u \in Users \ {e} : invites'[u] = invites[u]
    BY DEF TypeInv, TypeOK
  <1>2. IdsDiffer'
    BY <1>1, InviteIds DEF UseInv, IdsDiffer
  <1>3. ReadersShare'
    BY InviteIds DEF UseInv, ReadersShare
  <1>4. UsedUp'
    BY <1>1, InviteIds DEF UseInv, UsedUp
  <1>. QED BY <1>2, <1>3, <1>4 DEF UseInv, InviteReuseHasCause

LEMMA UseJoin ==
  ASSUME TypeInv, UseInv, NEW r \in Requests, Join(r)
  PROVE  UseInv'
  <1>. DEFINE u == Actor(r)
              i == req[r].invite.id
  <1>1. /\ pc[r] = "join" /\ u \in Users /\ i \in Nat
        /\ lastInvite' = lastInvite
    BY AsksAre DEF Join, Active, Joining, InviteRows
  <1>2. PICK there \in {"ok", "error"} : Moves(r, there, req[r])
    BY ActionMoves DEF On
  <1>3. \A q \in Requests : pc'[q] = "join" =>
          q # r /\ pc[q] = "join" /\ req'[q] = req[q]
    BY <1>2, OthersStay DEF Moves
  <1>4. CASE ~(invites[u] # None /\ invites[u].id = i)
    <2>1. UNCHANGED <<invites, uses, shared>>
      BY <1>4 DEF Join
    <2>. QED BY <1>1, <1>3, <2>1, UseStays DEF Readers, Fade
  <1>5. CASE invites[u] # None /\ invites[u].id = i
    <2>1. /\ invites' = [invites EXCEPT ![u].state = "accepted"]
          /\ uses' = [uses EXCEPT ![i] = uses[i] + 1]
          /\ shared' = IF \E q \in Requests \ {r} : pc[q] = "join" /\ req[q].invite.id = i
                       THEN shared \cup {i} ELSE shared
      BY <1>5 DEF Join
    <2>2. /\ invites'[u].id = i /\ invites'[u].state = "accepted"
          /\ \A v \in Users \ {u} : invites'[v] = invites[v]
      BY <1>1, <1>5, <2>1, InvitesAre DEF TypeInv, TypeOK
    <2>3. /\ \A j \in 1..MaxInvites : j # i => uses'[j] = uses[j]
          /\ i \in 1..MaxInvites => uses'[i] = uses[i] + 1
          /\ i <= lastInvite
      BY <1>1, <1>5, <2>1 DEF TypeInv, TypeOK, UseInv, IdsDiffer
    <2>. HIDE DEF i, u
    <2>4. IdsDiffer'
      BY <1>1, <1>5, <2>2 DEF UseInv, IdsDiffer
    <2>5. ReadersShare'
      BY <1>1, <1>3, <2>1, <2>3 DEF UseInv, ReadersShare
    <2>6. UsedUp'
      BY <1>1, <1>5, <2>2, <2>3 DEF UseInv, UsedUp, IdsDiffer
    <2>7. InviteReuseHasCause'
      <3>1. ASSUME NEW j \in 1..MaxInvites, uses'[j] > 1
            PROVE  j \in shared'
        <4>1. CASE j # i
          BY <2>1, <2>3, <3>1, <4>1 DEF UseInv, InviteReuseHasCause
        <4>2. CASE j = i
          <5>1. uses[i] > 0
            BY <2>3, <3>1, <4>2, InviteIds
          <5>. QED BY <1>1, <2>1, <4>2, <5>1 DEF UseInv, ReadersShare, i
        <4>. QED BY <4>1, <4>2
      <3>. QED BY <3>1 DEF InviteReuseHasCause
    <2>. QED BY <2>4, <2>5, <2>6, <2>7 DEF UseInv
  <1>. QED BY <1>4, <1>5

\* Nobody comes to join.
NoReader == \A q \in Requests : pc'[q] = "join" => pc[q] = "join" /\ req'[q] = req[q]

LEMMA NoReaders ==
  ASSUME TypeInv, NEW r \in Requests, NEW there, NEW known, Moves(r, there, known),
         there # "join"
  PROVE  NoReader
  BY OthersStay DEF Moves, NoReader

LEMMA NoReadersOn ==
  ASSUME TypeInv, NEW r \in Requests, NEW here, NEW there, NEW known,
         On(r, here, there, known), "join" \notin there
  PROVE  NoReader
  BY NoReaders DEF On

\* The steps that come near no invite.
LEMMA FarFromInvites ==
  ASSUME TypeInv, NEW r \in Requests,
         \/ \E ask \in Asks : Receive(r, ask)
         \/ CheckActor(r) \/ FindMembership(r) \/ CountAdmins(r) \/ WriteMember(r)
         \/ Notify(r) \/ FindInvitee(r) \/ AddMember(r) \/ FindUser(r)
         \/ CreateAccount(r) \/ Fail(r) \/ Return(r)
  PROVE  NoReader /\ UNCHANGED <<invites, lastInvite, uses, shared>>
  <1>1. CASE \E ask \in Asks : Receive(r, ask)
    BY <1>1, ReceiveMoves, NoReaders DEF history
  <1>2. CASE \/ CheckActor(r) \/ FindMembership(r) \/ CountAdmins(r) \/ Notify(r)
             \/ FindInvitee(r) \/ FindUser(r) \/ Return(r)
    <2>1. UNCHANGED <<invites, lastInvite, uses, shared>>
      BY <1>2 DEF CheckActor, FindMembership, CountAdmins, Notify, FindInvitee, FindUser,
         Return, ReadStep, history
    <2>. USE NoReadersOn
    <2>2. CASE CheckActor(r)     BY <2>1, <2>2, ActionMoves
    <2>3. CASE FindMembership(r) BY <2>1, <2>3, ActionMoves
    <2>4. CASE CountAdmins(r)    BY <2>1, <2>4, ActionMoves
    <2>5. CASE Notify(r)         BY <2>1, <2>5, ActionMoves
    <2>6. CASE FindInvitee(r)    BY <2>1, <2>6, ActionMoves
    <2>7. CASE FindUser(r)       BY <2>1, <2>7, ActionMoves
    <2>8. CASE Return(r)         BY <2>1, <2>8, ActionMoves, NoReaders
    <2>. QED BY <1>2, <2>2, <2>3, <2>4, <2>5, <2>6, <2>7, <2>8
  <1>3. CASE WriteMember(r)
    BY <1>3, ActionMoves, NoReadersOn DEF WriteMember
  <1>4. CASE AddMember(r)
    BY <1>4, ActionMoves, NoReadersOn DEF AddMember, history
  <1>5. CASE CreateAccount(r)
    BY <1>5, ActionMoves, NoReadersOn DEF CreateAccount
  <1>6. CASE Fail(r)
    BY <1>6, ActionMoves, NoReaders DEF Fail
  <1>. QED BY <1>1, <1>2, <1>3, <1>4, <1>5, <1>6

\* r reads an invite: it comes to join with it only if it waits.
LEMMA ReadsInvite ==
  ASSUME TypeInv, NEW r \in Requests, ReadToken(r) \/ ReadPending(r)
  PROVE  /\ UNCHANGED <<accounts, members, invites, lastRow, lastInvite, history>>
         /\ pc[r] \in {"token", "pending"} /\ Actor(r) \in Users
         /\ \E there \in {"join", "badrequest", "ok"} : Moves(r, there, WithInvite(r))
         /\ pc'[r] = "join" <=> IsPending(Actor(r))
         /\ WithInvite(r).ask = Ask(r) /\ WithInvite(r).invite = invites[Actor(r)]
  <1>1. pc[r] \in {"token", "pending"} /\ pc[r] \in Active
    BY ActionMoves DEF On, Active, Joining
  <1>2. UNCHANGED <<accounts, members, invites, lastRow, lastInvite, history>>
    BY DEF ReadToken, ReadPending, ReadStep
  <1>3. pc'[r] = "join" <=> IsPending(Actor(r))
    BY DEF ReadToken, ReadPending, ReadStep, TypeInv, TypeOK
  <1>4. \E there \in {"join", "badrequest", "ok"} : Moves(r, there, WithInvite(r))
    BY ActionMoves DEF On
  <1>. QED BY <1>1, <1>2, <1>3, <1>4, AskStays, AsksAre

LEMMA ExpireFades ==
  ASSUME TypeInv, NEW u \in Users, Expire(u)
  PROVE  /\ Fade /\ \A v \in Users : IsPending(v)' => IsPending(v) /\ v # u
         /\ NoReader /\ UNCHANGED <<accounts, members, pc, req, lastRow, lastInvite, history>>
  <1>1. /\ invites[u] # None /\ invites[u].state = "pending"
        /\ invites' = [invites EXCEPT ![u].state = "expired"]
    BY DEF Expire, IsPending
  <1>2. /\ invites'[u].id = invites[u].id /\ invites'[u].state = "expired"
        /\ \A v \in Users \ {u} : invites'[v] = invites[v]
    BY <1>1, InvitesAre DEF TypeInv, TypeOK
  <1>. QED BY <1>1, <1>2 DEF Expire, Fade, IsPending, NoReader

LEMMA ClearFades ==
  ASSUME TypeInv, NEW r \in Requests, ClearInvites(r)
  PROVE  /\ Fade /\ \A v \in Users : IsPending(v)' => IsPending(v)
         /\ NoReader /\ UNCHANGED <<accounts, members, lastRow, lastInvite, history>>
  <1>1. NoReader
    BY ActionMoves, NoReadersOn
  <1>2. Target(r) \in Users
    BY AsksAre DEF ClearInvites, Active
  <1>3. \A v \in Users : invites'[v] = invites[v] \/ invites'[v] = None
    BY <1>2 DEF ClearInvites, TypeInv, TypeOK
  <1>. QED BY <1>1, <1>3 DEF ClearInvites, Fade, IsPending

LEMMA NextUses ==
  ASSUME TypeInv, UseInv, Next
  PROVE  UseInv'
  <1>1. ASSUME Fade, NoReader, UNCHANGED <<lastInvite, uses, shared>>
        PROVE  UseInv'
    BY <1>1, UseStays DEF NoReader, Readers
  <1>2. ASSUME UNCHANGED invites
        PROVE  Fade
    BY <1>2 DEF Fade
  <1>3. ASSUME NEW r \in Requests,
               \/ \E ask \in Asks : Receive(r, ask)
               \/ CheckActor(r) \/ FindMembership(r) \/ CountAdmins(r) \/ WriteMember(r)
               \/ Notify(r) \/ FindInvitee(r) \/ AddMember(r) \/ FindUser(r)
               \/ CreateAccount(r) \/ Fail(r) \/ Return(r)
        PROVE  UseInv'
    BY <1>1, <1>2, <1>3, FarFromInvites
  <1>4. ASSUME NEW r \in Requests, ReadToken(r) \/ ReadPending(r)
        PROVE  UseInv'
    <2>1. PICK there \in {"join", "badrequest", "ok"} : Moves(r, there, WithInvite(r))
      BY <1>4, ReadsInvite
    <2>2. UNCHANGED <<invites, lastInvite, uses, shared>>
      BY <1>4, ReadsInvite DEF history
    <2>3. pc'[r] = "join" => /\ Actor(r) \in Users /\ IsPending(Actor(r))
                             /\ req'[r].invite = invites[Actor(r)]
      BY <1>4, <2>1, ReadsInvite DEF Moves, Answers
    <2>4. \A q \in Requests \ {r} : pc'[q] = "join" => pc[q] = "join" /\ req'[q] = req[q]
      BY <2>1, OthersStay
    <2>. QED BY <1>2, <2>2, <2>3, <2>4, UseStays DEF Readers
  <1>5. ASSUME NEW r \in Requests, ClearInvites(r)
        PROVE  UseInv'
    BY <1>1, <1>5, ClearFades DEF history
  <1>6. ASSUME NEW r \in Requests, CreateInvite(r)
        PROVE  UseInv'
    <2>1. NoReader /\ Target(r) \in Users
      BY <1>6, ActionMoves, NoReadersOn, AsksAre DEF CreateInvite, Active
    <2>2. UNCHANGED <<uses, shared>>
      BY <1>6 DEF CreateInvite
    <2>3. CASE invites[Target(r)] # None
      BY <1>1, <1>2, <1>6, <2>1, <2>2, <2>3 DEF CreateInvite
    <2>4. CASE ~(invites[Target(r)] # None)
      <3>1. /\ invites' = [invites EXCEPT ![Target(r)] =
                  [id |-> lastInvite + 1, role |-> Ask(r).role, state |-> "pending"]]
            /\ lastInvite' = lastInvite + 1
        BY <1>6, <2>4 DEF CreateInvite
      <3>. QED BY <2>1, <2>2, <3>1, UseCreate DEF NoReader, Readers
    <2>. QED BY <2>3, <2>4
  <1>7. ASSUME NEW u \in Users, Expire(u)
        PROVE  UseInv'
    BY <1>1, <1>7, ExpireFades DEF history
  <1>. QED BY <1>3, <1>4, <1>5, <1>6, <1>7, UseJoin DEF Next, Step

-----------------------------------------------------------------------------
(* No invite is left behind in silence.                                    *)

\* The registration r is on its way to u's invite.
Carries(r, u) ==
  pc[r] \in {"token", "pending", "join"} /\ Ask(r).kind = "register" /\ Actor(r) = u

\* The invite of an account that waits is excused, or carried.
Carried ==
  \A u \in accounts : IsPending(u) => u \in leftOut \/ \E r \in Requests : Carries(r, u)

\* An invite newer than the one r has read was made for an account.
NewerExcused ==
  \A r \in Requests :
    pc[r] = "join" /\ IsPending(Actor(r)) /\ invites[Actor(r)].id # req[r].invite.id
    => Actor(r) \in leftOut

OnlyRegistrations == \A r \in Requests : pc[r] \in {"signup", "account"} => Ask(r).kind = "register"

StrandInv == Carried /\ NewerExcused /\ OnlyRegistrations

\* What r does to the invites of others who carry theirs: nothing.
LEMMA CarriersStay ==
  ASSUME TypeInv, NEW r \in Requests, NEW there, NEW known, Moves(r, there, known)
  PROVE  \A q \in Requests \ {r}, u \in Users : Carries(q, u) => Carries(q, u)'
  BY OthersStay DEF Carries, Ask, Actor

\* A step that makes no invite and no account: it is enough to look at r.
LEMMA StrandStays ==
  ASSUME TypeInv, StrandInv, NEW r \in Requests, NEW there, NEW known,
         Moves(r, there, known), accounts' = accounts, leftOut \subseteq leftOut',
         \A u \in Users : IsPending(u)' => IsPending(u) /\ invites'[u].id = invites[u].id,
         \A u \in Users : Carries(r, u) =>
           Carries(r, u)' \/ ~IsPending(u)' \/ u \in leftOut',
         there = "join" => pc[r] \in {"token", "pending"} /\ known = WithInvite(r),
         there \in {"signup", "account"} => known.ask.kind = "register"
  PROVE  StrandInv'
  <1>1. Carried'
    <2>1. SUFFICES ASSUME NEW u \in accounts, IsPending(u)', u \notin leftOut'
                   PROVE  \E q \in Requests : Carries(q, u)'
      BY DEF Carried
    <2>2. u \in Users /\ IsPending(u) /\ u \notin leftOut
      BY <2>1 DEF TypeInv, TypeOK
    <2>3. PICK q \in Requests : Carries(q, u)
      BY <2>2 DEF StrandInv, Carried
    <2>. QED BY <2>1, <2>2, <2>3, CarriersStay
  <1>2. ASSUME NEW q \in Requests, pc'[q] = "join", IsPending(Actor(q))',
               invites'[Actor(q)'].id # req'[q].invite.id
        PROVE  Actor(q)' \in leftOut'
    <2>1. CASE q = r
      <3>1. /\ there = "join" /\ pc[r] \in {"token", "pending"} /\ pc[r] \in Active
            /\ req'[r] = WithInvite(r)
        BY <1>2, <2>1 DEF Moves, Answers, Active, Joining
      <3>2. /\ Actor(r)' = Actor(r) /\ Actor(r) \in Users
            /\ req'[r].invite = invites[Actor(r)]
        BY <3>1, AskStays, AsksAre DEF Actor, Ask
      <3>. QED BY <1>2, <2>1, <3>2
    <2>2. CASE q # r
      <3>1. pc[q] = "join" /\ req'[q] = req[q] /\ Actor(q)' = Actor(q) /\ Actor(q) \in Users
        BY <1>2, <2>2, OthersStay, AsksAre DEF Actor, Ask, Active, Joining
      <3>2. IsPending(Actor(q))' <=> invites'[Actor(q)] # None /\ invites'[Actor(q)].state = "pending"
        BY <3>1 DEF IsPending
      <3>3. IsPending(Actor(q)) /\ invites[Actor(q)].id # req[q].invite.id
        BY <1>2, <3>1, <3>2 DEF IsPending
      <3>. QED BY <3>1, <3>3 DEF StrandInv, NewerExcused
    <2>. QED BY <2>1, <2>2
  <1>3. OnlyRegistrations'
    <2>1. ASSUME NEW q \in Requests, pc'[q] \in {"signup", "account"}
          PROVE  Ask(q)'.kind = "register"
      <3>1. CASE q = r
        BY <2>1, <3>1 DEF Moves, Answers, Ask
      <3>2. CASE q # r
        BY <2>1, <3>2, OthersStay DEF StrandInv, OnlyRegistrations, Ask
      <3>. QED BY <3>1, <3>2
    <2>. QED BY <2>1 DEF OnlyRegistrations
  <1>. QED BY <1>1, <1>2, <1>3 DEF StrandInv, NewerExcused

\* The steps that come near no invite and carry none.
LEMMA StrandFar ==
  ASSUME TypeInv, StrandInv, NEW r \in Requests,
         \/ \E ask \in Asks : Receive(r, ask)
         \/ CheckActor(r) \/ FindMembership(r) \/ CountAdmins(r) \/ WriteMember(r)
         \/ Notify(r) \/ FindInvitee(r) \/ AddMember(r) \/ FindUser(r) \/ Return(r)
  PROVE  StrandInv'
  <1>1. ASSUME UNCHANGED invites
        PROVE  \A u \in Users : IsPending(u)' => IsPending(u) /\ invites'[u].id = invites[u].id
    BY <1>1 DEF IsPending
  <1>2. UNCHANGED <<accounts, invites, leftOut>>
    BY ReceiveMoves DEF CheckActor, FindMembership, CountAdmins, WriteMember, Notify,
       FindInvitee, AddMember, FindUser, Return, ReadStep, history
  <1>3. ASSUME NEW there, NEW known, Moves(r, there, known),
               pc[r] \notin {"token", "pending", "join"}, there # "join",
               there \in {"signup", "account"} => known.ask.kind = "register"
        PROVE  StrandInv'
    BY <1>1, <1>2, <1>3, StrandStays DEF Carries
  <1>4. ASSUME NEW ask \in Asks, Receive(r, ask)
        PROVE  StrandInv'
    <2>1. /\ pc[r] = "idle" /\ Moves(r, FirstPlace(ask.kind), NewRequest(ask))
          /\ FirstPlace(ask.kind) \in {"signup", "token", "actor"}
      BY <1>4, ReceiveMoves
    <2>2. FirstPlace(ask.kind) = "signup" => NewRequest(ask).ask.kind = "register"
      BY DEF FirstPlace, NewRequest
    <2>. QED BY <1>3, <2>1, <2>2
  <1>5. ASSUME NEW here, NEW there, NEW known, On(r, here, there, known),
               here \notin {"token", "pending", "join"},
               there \cap {"signup", "account", "join"} = {}
        PROVE  StrandInv'
    BY <1>3, <1>5 DEF On
  <1>6. CASE FindUser(r)
    <2>1. /\ pc[r] = "signup"
          /\ \E there \in {"conflict", "account"} : Moves(r, there, req[r])
      BY <1>6, ActionMoves DEF On
    <2>2. req[r].ask.kind = "register"
      BY <2>1 DEF StrandInv, OnlyRegistrations, Ask
    <2>. QED BY <1>3, <2>1, <2>2
  <1>7. CASE Return(r)
    BY <1>3, <1>7, ActionMoves DEF Answers
  <1>8. CASE CheckActor(r)     BY <1>5, <1>8, ActionMoves
  <1>9. CASE FindMembership(r) BY <1>5, <1>9, ActionMoves
  <1>10. CASE CountAdmins(r)   BY <1>5, <1>10, ActionMoves
  <1>11. CASE WriteMember(r)   BY <1>5, <1>11, ActionMoves
  <1>12. CASE Notify(r)        BY <1>5, <1>12, ActionMoves
  <1>13. CASE FindInvitee(r)   BY <1>5, <1>13, ActionMoves
  <1>14. CASE AddMember(r)     BY <1>5, <1>14, ActionMoves
  <1>. QED
    BY <1>4, <1>6, <1>7, <1>8, <1>9, <1>10, <1>11, <1>12, <1>13, <1>14

LEMMA StrandRead ==
  ASSUME TypeInv, StrandInv, NEW r \in Requests, ReadToken(r) \/ ReadPending(r)
  PROVE  StrandInv'
  <1>1. PICK there \in {"join", "badrequest", "ok"} : Moves(r, there, WithInvite(r))
    BY ReadsInvite
  <1>2. /\ UNCHANGED <<accounts, invites, leftOut>>
        /\ pc[r] \in {"token", "pending"}
        /\ pc'[r] = "join" <=> IsPending(Actor(r))
        /\ WithInvite(r).ask = Ask(r)
    BY ReadsInvite DEF history
  <1>3. ASSUME NEW u \in Users, Carries(r, u), IsPending(u)'
        PROVE  Carries(r, u)'
    <2>1. pc'[r] = "join" /\ req'[r] = WithInvite(r)
      BY <1>1, <1>2, <1>3 DEF Carries, IsPending, Moves, Answers
    <2>. QED BY <1>2, <1>3, <2>1 DEF Carries, Ask, Actor
  <1>4. \A u \in Users : IsPending(u)' => IsPending(u) /\ invites'[u].id = invites[u].id
    BY <1>2 DEF IsPending
  <1>. QED BY <1>1, <1>2, <1>3, <1>4, StrandStays

LEMMA StrandCreateAccount ==
  ASSUME TypeInv, StrandInv, NEW r \in Requests, CreateAccount(r)
  PROVE  StrandInv'
  <1>. DEFINE u == Actor(r)
              token == Ask(r).token
  <1>1. /\ pc[r] = "account" /\ Ask(r).kind = "register" /\ token \in Tokens
        /\ u \in Users /\ UNCHANGED invites
    BY AsksAre DEF CreateAccount, StrandInv, OnlyRegistrations, Active, Joining
  <1>2. PICK there \in {"error", "token", "pending", "ok"} : Moves(r, there, req[r])
    BY ActionMoves DEF On
  <1>3. \A v \in Users : IsPending(v)' <=> IsPending(v)
    BY <1>1 DEF IsPending
  <1>4. CASE u \in accounts
    <2>1. UNCHANGED <<accounts, leftOut>>
      BY <1>4 DEF CreateAccount
    <2>. QED BY <1>1, <1>2, <1>3, <2>1, StrandStays DEF Carries, Ask
  <1>5. CASE u \notin accounts
    <2>1. /\ accounts' = accounts \cup {u}
          /\ leftOut' = IF token = "other" THEN leftOut \cup {u} ELSE leftOut
          /\ pc'[r] = IF token = "mine" THEN "token" ELSE IF token = "none" THEN "pending" ELSE "ok"
      BY <1>5 DEF CreateAccount, Goto, TypeInv, TypeOK
    <2>2. token # "other" => \A v \in Users : v = u => Carries(r, v)'
      <3>1. token # "other" => pc'[r] \in {"token", "pending"} /\ req'[r] = req[r]
        BY <1>1, <1>2, <2>1 DEF Moves, Answers, Tokens
      <3>. QED BY <1>1, <3>1 DEF Carries, Ask, Actor
    <2>3. Carried'
      <3>1. SUFFICES ASSUME NEW v \in accounts', IsPending(v)', v \notin leftOut'
                     PROVE  \E q \in Requests : Carries(q, v)'
        BY DEF Carried
      <3>2. CASE v = u
        BY <1>1, <2>1, <2>2, <3>1, <3>2
      <3>3. CASE v # u
        <4>1. v \in accounts /\ v \in Users /\ IsPending(v) /\ v \notin leftOut
          BY <1>3, <2>1, <3>1, <3>3 DEF TypeInv, TypeOK
        <4>2. PICK q \in Requests : Carries(q, v)
          BY <4>1 DEF StrandInv, Carried
        <4>3. q # r
          BY <1>1, <4>2 DEF Carries
        <4>. QED BY <1>2, <4>1, <4>2, <4>3, CarriersStay
      <3>. QED BY <3>2, <3>3
    <2>4. ASSUME NEW q \in Requests, pc'[q] = "join"
          PROVE  q # r /\ pc[q] = "join" /\ req'[q] = req[q]
      BY <1>2, <2>4, OthersStay DEF Moves
    <2>5. NewerExcused'
      BY <1>1, <2>1, <2>4 DEF StrandInv, NewerExcused, IsPending, Actor, Ask
    <2>6. ASSUME NEW q \in Requests, pc'[q] \in {"signup", "account"}
          PROVE  pc[q] \in {"signup", "account"} /\ req'[q] = req[q]
      BY <1>2, <2>6, OthersStay DEF Moves
    <2>7. OnlyRegistrations'
      BY <2>6 DEF StrandInv, OnlyRegistrations, Ask
    <2>. QED BY <2>3, <2>5, <2>7 DEF StrandInv
  <1>. QED BY <1>4, <1>5

LEMMA StrandCreateInvite ==
  ASSUME TypeInv, StrandInv, NEW r \in Requests, CreateInvite(r)
  PROVE  StrandInv'
  <1>. DEFINE e == Target(r)
  <1>1. pc[r] = "create" /\ e \in Users /\ accounts' = accounts
    BY AsksAre DEF CreateInvite, Active
  <1>2. PICK there \in {"error", "ok"} : Moves(r, there, req[r])
    BY ActionMoves DEF On
  <1>3. CASE invites[e] # None
    <2>1. UNCHANGED <<invites, leftOut>>
      BY <1>3 DEF CreateInvite
    <2>2. \A v \in Users : IsPending(v)' => IsPending(v)
      BY <2>1 DEF IsPending
    <2>. QED BY <1>1, <1>2, <2>1, <2>2, StrandStays DEF Carries
  <1>4. CASE invites[e] = None
    <2>1. /\ \A v \in Users \ {e} : invites'[v] = invites[v]
          /\ leftOut' = IF e \in accounts THEN leftOut \cup {e} ELSE leftOut
      BY <1>4 DEF CreateInvite, TypeInv, TypeOK
    <2>2. \A v \in Users : IsPending(v)' => v = e \/ IsPending(v)
      BY <2>1 DEF IsPending
    <2>3. Carried'
      <3>1. SUFFICES ASSUME NEW v \in accounts, IsPending(v)', v \notin leftOut'
                     PROVE  \E q \in Requests : Carries(q, v)'
        BY <1>1 DEF Carried
      <3>2. v \in Users /\ IsPending(v) /\ v \notin leftOut
        BY <2>1, <2>2, <3>1 DEF TypeInv, TypeOK
      <3>3. PICK q \in Requests : Carries(q, v)
        BY <3>2 DEF StrandInv, Carried
      <3>4. q # r
        BY <1>1, <3>3 DEF Carries
      <3>. QED BY <1>2, <3>2, <3>3, <3>4, CarriersStay
    <2>4. ASSUME NEW q \in Requests, pc'[q] = "join", IsPending(Actor(q))',
                 invites'[Actor(q)'].id # req'[q].invite.id
          PROVE  Actor(q)' \in leftOut'
      <3>1. /\ q # r /\ pc[q] = "join" /\ req'[q] = req[q]
            /\ Actor(q)' = Actor(q) /\ Actor(q) \in accounts /\ Actor(q) \in Users
        BY <1>2, <2>4, OthersStay DEF Moves, Actor, Ask, TypeInv, TypeOK, ActorsKnown
      <3>2. CASE Actor(q) = e
        BY <2>1, <3>1, <3>2
      <3>3. CASE Actor(q) # e
        <4>1. invites'[Actor(q)] = invites[Actor(q)] /\ IsPending(Actor(q))
          BY <2>1, <2>4, <3>1, <3>3 DEF IsPending
        <4>. QED BY <2>1, <2>4, <3>1, <4>1 DEF StrandInv, NewerExcused
      <3>. QED BY <3>2, <3>3
    <2>5. ASSUME NEW q \in Requests, pc'[q] \in {"signup", "account"}
          PROVE  pc[q] \in {"signup", "account"} /\ req'[q] = req[q]
      BY <1>2, <2>5, OthersStay DEF Moves
    <2>6. OnlyRegistrations'
      BY <2>5 DEF StrandInv, OnlyRegistrations, Ask
    <2>. QED BY <2>3, <2>4, <2>6 DEF StrandInv, NewerExcused
  <1>. QED BY <1>3, <1>4

LEMMA StrandJoin ==
  ASSUME TypeInv, StrandInv, NEW r \in Requests, Join(r)
  PROVE  StrandInv'
  <1>. DEFINE u == Actor(r)
              i == req[r].invite.id
  <1>1. pc[r] = "join" /\ u \in Users /\ UNCHANGED <<accounts, leftOut>>
    BY AsksAre DEF Join, Active, Joining
  <1>2. PICK there \in {"ok", "error"} : Moves(r, there, req[r])
    BY ActionMoves DEF On
  <1>3. CASE ~(invites[u] # None /\ invites[u].id = i)
    <2>1. UNCHANGED invites
      BY <1>3 DEF Join
    <2>2. \A v \in Users : IsPending(v)' => IsPending(v)
      BY <2>1 DEF IsPending
    <2>3. ASSUME NEW v \in Users, Carries(r, v), IsPending(v)'
          PROVE  v \in leftOut'
      BY <1>1, <1>3, <2>2, <2>3 DEF Carries, IsPending, StrandInv, NewerExcused
    <2>. QED BY <1>1, <1>2, <2>1, <2>2, <2>3, StrandStays
  <1>4. CASE invites[u] # None /\ invites[u].id = i
    <2>1. invites' = [invites EXCEPT ![u].state = "accepted"]
      BY <1>4 DEF Join
    <2>2. /\ invites'[u].state = "accepted"
          /\ \A v \in Users \ {u} : invites'[v] = invites[v]
      BY <1>1, <1>4, <2>1, InvitesAre DEF TypeInv, TypeOK
    <2>3. \A v \in Users : IsPending(v)' => v # u /\ IsPending(v) /\ invites'[v].id = invites[v].id
      BY <2>2 DEF IsPending
    <2>. QED BY <1>1, <1>2, <2>3, StrandStays DEF Carries
  <1>. QED BY <1>3, <1>4

LEMMA StrandFail ==
  ASSUME TypeInv, StrandInv, NEW r \in Requests, Fail(r)
  PROVE  StrandInv'
  <1>1. Moves(r, "error", req[r]) /\ UNCHANGED <<accounts, invites>>
    BY ActionMoves DEF Fail
  <1>2. \A u \in Users : IsPending(u)' => IsPending(u) /\ invites'[u].id = invites[u].id
    BY <1>1 DEF IsPending
  <1>3. leftOut \subseteq leftOut' /\ \A u \in Users : Carries(r, u) => u \in leftOut'
    BY DEF Fail, Carries
  <1>. QED BY <1>1, <1>2, <1>3, StrandStays

LEMMA StrandExpire ==
  ASSUME TypeInv, StrandInv, NEW u \in Users, Expire(u)
  PROVE  StrandInv'
  <1>1. /\ Fade /\ \A v \in Users : IsPending(v)' => IsPending(v)
        /\ UNCHANGED <<accounts, pc, req, leftOut>>
    BY ExpireFades DEF history
  <1>2. \A q \in Requests : Ask(q)' = Ask(q) /\ Actor(q)' = Actor(q)
    BY <1>1 DEF Ask, Actor
  <1>3. Carried'
    BY <1>1, <1>2 DEF StrandInv, Carried, Carries, TypeInv, TypeOK
  <1>4. ASSUME NEW q \in Requests, pc[q] = "join", IsPending(Actor(q))',
               invites'[Actor(q)].id # req[q].invite.id
        PROVE  Actor(q) \in leftOut
    <2>1. Actor(q) \in Users
      BY <1>4, AsksAre DEF Active, Joining
    <2>2. IsPending(Actor(q)) /\ invites'[Actor(q)].id = invites[Actor(q)].id
      BY <1>1, <1>2, <1>4, <2>1 DEF Fade, IsPending
    <2>. QED BY <1>4, <2>2 DEF StrandInv, NewerExcused
  <1>5. NewerExcused' /\ OnlyRegistrations'
    BY <1>1, <1>2, <1>4 DEF StrandInv, NewerExcused, OnlyRegistrations, IsPending
  <1>. QED BY <1>3, <1>5 DEF StrandInv

LEMMA NextStrand ==
  ASSUME TypeInv, StrandInv, Next
  PROVE  StrandInv'
  <1>1. ASSUME NEW r \in Requests, ClearInvites(r)
        PROVE  StrandInv'
    <2>1. /\ Fade /\ \A v \in Users : IsPending(v)' => IsPending(v)
          /\ UNCHANGED <<accounts, leftOut>>
      BY <1>1, ClearFades DEF history
    <2>2. pc[r] = "clear" /\ Moves(r, "create", req[r])
      BY <1>1, ActionMoves DEF On
    <2>3. \A v \in Users : IsPending(v)' => IsPending(v) /\ invites'[v].id = invites[v].id
      BY <2>1 DEF Fade, IsPending
    <2>. QED BY <2>1, <2>2, <2>3, StrandStays DEF Carries
  <1>. QED
    BY <1>1, StrandFar, StrandRead, StrandCreateAccount, StrandCreateInvite, StrandJoin,
       StrandFail, StrandExpire DEF Next, Step

-----------------------------------------------------------------------------
(* The theorems.                                                           *)

MemberInv == TypeInv /\ AdminInv /\ UseInv /\ StrandInv

LEMMA InitMembers == Init => MemberInv
  <1>. SUFFICES ASSUME Init PROVE MemberInv
    OBVIOUS
  <1>1. TypeInv
    <2>1. \A u \in Users : members[u] \in MemberRows \cup {None}
      BY MemberConstantsOK DEF Init, MemberRows
    <2>2. members \in [Users -> MemberRows \cup {None}]
      BY <2>1 DEF Init
    <2>3. \A u \in Users : IsMember(u) => u \in accounts /\ members[u].id <= lastRow
      BY MemberConstantsOK DEF Init, IsMember
    <2>. QED
      BY <2>2, <2>3, MemberConstantsOK DEF Init, TypeInv, TypeOK, ActorsKnown, Active, Joining
  <1>2. AdminInv
    <2>1. PICK u \in Users : InitRole[u] = "ADMIN"
      BY MemberConstantsOK
    <2>2. InitRole[u] # None
      BY <2>1, MemberConstantsOK DEF Roles
    <2>3. members[u] = [id |-> 0, role |-> "ADMIN"]
      BY <2>1, <2>2 DEF Init
    <2>4. members[u] \in MemberRows
      BY <2>3 DEF MemberRows, Roles
    <2>5. u \in Admins
      BY <2>3, <2>4, NoneIsNoRow, AdminIs DEF IsMember
    <2>. QED BY <2>5 DEF Init, AdminInv, AdminLossHasCause, Counted
  <1>3. UseInv
    BY DEF Init, UseInv, IdsDiffer, ReadersShare, UsedUp, InviteReuseHasCause
  <1>4. StrandInv
    BY MemberConstantsOK DEF Init, StrandInv, Carried, NewerExcused, OnlyRegistrations, IsPending,
       TypeInv, TypeOK
  <1>. QED BY <1>1, <1>2, <1>3, <1>4 DEF MemberInv

LEMMA NextMembers ==
  ASSUME MemberInv, [Next]_vars
  PROVE  MemberInv'
  <1>1. CASE Next
    BY <1>1, NextTypes, NextAdminInv, NextUses, NextStrand DEF MemberInv
  <1>2. CASE UNCHANGED vars
    <2>1. UNCHANGED <<accounts, members, invites, pc, req, lastRow, lastInvite, uses, shared,
                      overtaken, lowered, leftOut>>
      BY <1>2 DEF vars, history
    <2>2. TypeInv'
      BY <2>1 DEF MemberInv, TypeInv, TypeOK, ActorsKnown, IsMember, Actor, Target, Ask
    <2>3. AdminInv'
      BY <2>1 DEF MemberInv, AdminInv, AdminLossHasCause, Admins, RoleOf, IsMember, TwoAdmins,
         Counted, Ask
    <2>4. UseInv'
      BY <2>1 DEF MemberInv, UseInv, IdsDiffer, ReadersShare, UsedUp, InviteReuseHasCause
    <2>5. StrandInv'
      BY <2>1 DEF MemberInv, StrandInv, Carried, Carries, NewerExcused, OnlyRegistrations,
         IsPending, Actor, Ask
    <2>. QED BY <2>2, <2>3, <2>4, <2>5 DEF MemberInv
  <1>. QED BY <1>1, <1>2

\* The inductive invariant the four theorems below are parts of: types, the
\* admins counted by who is about to write, the ids and uses of invites, and the
\* registrations that carry them, over every step of the members and invites
\* services.
THEOREM MembersHold == Spec => []MemberInv
  BY InitMembers, NextMembers, PTL DEF Spec

\* Every table and every request keeps its type, whoever belongs to the workspace
\* has an account, and a request holds what its place needs, however many requests
\* run at once (workspace-members.service.ts, workspace-invites.service.ts).
THEOREM MemberTypes == Spec => []TypeOK
  <1>1. MemberInv => TypeOK
    BY DEF MemberInv, TypeInv
  <1>. QED BY <1>1, MembersHold, PTL

\* The last admin is only lost on a count or a role that was out of date, or by the
\* acceptance of an invite that lowers an admin: assertNotLastAdmin
\* (workspace-members.service.ts:266) covers every other way, however many admins
\* and requests there are.
THEOREM AdminLossIsExplained == Spec => []AdminLossHasCause
  <1>1. MemberInv => AdminLossHasCause
    BY DEF MemberInv, AdminInv
  <1>. QED BY <1>1, MembersHold, PTL

\* An invite is accepted twice only if two requests had read it before either used
\* it, whatever is invited, accepted, cleared or expired in between.
THEOREM InviteReuseIsExplained == Spec => []InviteReuseHasCause
  <1>1. MemberInv => InviteReuseHasCause
    BY DEF MemberInv, UseInv
  <1>. QED BY <1>1, MembersHold, PTL

\* An invite of somebody with an account waits only while the registration carries
\* it or if the registration passed it by (acceptPendingInvitesForEmail).
THEOREM InvitesAreReached == Spec => []NoInviteStranded
  <1>1. MemberInv => NoInviteStranded
    BY DEF MemberInv, StrandInv, Carried, Carries, NoInviteStranded, Joining
  <1>. QED BY <1>1, MembersHold, PTL
=============================================================================
