------------------------ MODULE MCWorkspaceMembers --------------------------
(* Small instances of WorkspaceMembers for TLC. *)
EXTENDS WorkspaceMembers, TLC

CONSTANTS ann, bob, r1, r2

Request(kind, by, target, role, token) ==
  [kind |-> kind, by |-> by, target |-> target, role |-> role, token |-> token]

\* Fields a kind of request does not use have one value.
UpdateRole(by, target, role) == Request("updateRole", by, target, role, "none")
Remove(by, target)           == Request("remove", by, target, "MEMBER", "none")
Invite(by, target, role)     == Request("invite", by, target, role, "none")
Accept(by)                   == Request("accept", by, by, "MEMBER", "none")
Register(by, token)          == Request("register", by, by, "MEMBER", token)

\* Promotions of others, demotions, removals and resignations.
RolesAndRemovals ==
  {UpdateRole(u, v, "MEMBER") : u, v \in Users} \cup {Remove(u, v) : u, v \in Users}
    \cup {a \in {UpdateRole(u, v, "ADMIN") : u, v \in Users} : a.by # a.target}

Invites ==
  {Invite(u, v, x) : u, v \in Users, x \in {"ADMIN", "MEMBER"}}
    \cup {Accept(u) : u \in Users}
    \cup {Register(u, t) : u \in Users, t \in Tokens}

\* All that can happen to ann and bob when only bob is ever invited, as a member,
\* does nothing to himself, and does not give back what he took from ann.
RaceAsks ==
  {a \in RolesAndRemovals :
     /\ a.by = ann \/ a.target = ann
     /\ ~(a.target = ann /\ a.role = "ADMIN")}
    \cup {Invite(ann, bob, "MEMBER"), Accept(bob), Register(bob, "none")}

Everything == RolesAndRemovals \cup Invites

TwoAdmins   == [u \in Users |-> "ADMIN"]
OneAdmin    == [u \in Users |-> IF u = ann THEN "ADMIN" ELSE None]
SlotSymmetry == Permutations(Requests)
=============================================================================
