-------------------------- MODULE MCTaskLifecycle ---------------------------
(* Small instances of TaskLifecycle for TLC. *)
EXTENDS TaskLifecycle, TLC

CONSTANTS manager, client, task, r1, r2

Body(to, comment, clients) == [to |-> to, comment |-> comment, clients |-> clients]

\* Every target, with and without a comment where a comment matters.
RoundBodies ==
  {Body(to, FALSE, {}) : to \in Statuses} \cup {Body("PRODUCTION", TRUE, {})}

\* The way from BRIEF to the client's acceptance, which may fail for want of
\* clients.
HandoffBodies ==
  {Body(to, FALSE, {}) : to \in {"PRODUCTION", "INTERNAL_REVIEW",
                                 "CLIENT_HANDOFF", "CLIENT_APPROVAL"}}
    \cup {Body("CLIENT_HANDOFF", FALSE, {client})}

OneTaskUnassigned == [t \in {task} |-> None]
ManagerAndClient  == manager :> "MANAGER" @@ client :> "CLIENT_VIEW"
ClientIsMember    == {client}
Demote            == {"CLIENT_VIEW"}
DemoteOrRemove    == {"CLIENT_VIEW", None}
SlotSymmetry      == Permutations(Requests)

=============================================================================
