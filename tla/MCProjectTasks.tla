--------------------------- MODULE MCProjectTasks ---------------------------
(* A manager and a member of one project for TLC. *)
EXTENDS ProjectTasks, TLC

CONSTANTS manager, member, task, r1, r2

ManagerAndMember == manager :> "MANAGER" @@ member :> "MEMBER"
RoleChanges      == {"MEMBER", "CLIENT_VIEW", None}
SlotSymmetry     == Permutations(Requests)
=============================================================================
