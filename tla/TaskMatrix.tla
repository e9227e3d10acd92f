----------------------------- MODULE TaskMatrix ------------------------------
(***************************************************************************)
(* The transition matrix put to use (apps/api/src/tasks/domain/            *)
(* task-transition.ts): a group of roles asks for one target status after  *)
(* the other, and a task goes where the matrix lets it.  The properties    *)
(* compare the two copies of the rules, and say which groups can bring a   *)
(* task to its end.                                                        *)
(***************************************************************************)
EXTENDS TaskTransition

VARIABLES group, current, asked   \* the roles, the task's status, the last target

matrixVars == <<group, current, asked>>

MatrixInit == group \in SUBSET Roles /\ current \in Statuses /\ asked \in Statuses

\* Somebody of the group asks for a target; the task takes it if the role may
\* move it there, and stays where it is otherwise.
AskFor(who, target) ==
  /\ current' = IF Verdict(who, current, target, TRUE) = "ok" THEN target ELSE current
  /\ asked' = target
  /\ UNCHANGED group

MatrixNext == \E who \in group, target \in Statuses : AskFor(who, target)

MatrixSpec == MatrixInit /\ [][MatrixNext]_matrixVars

-----------------------------------------------------------------------------
\* The two copies of the rules agree: a target is on offer exactly if the move
\* would be accepted with a comment, and the offer asks for a comment exactly if
\* the move would be refused without one (buildAllowedTransitionTargets against
\* assertTransitionWithPayload).
OffersMatchVerdicts ==
  \A who \in group :
    LET offers == {o \in BuildAllowedTransitionTargets(who, current) : o.to = asked} IN
    /\ (offers # {}) <=> (Verdict(who, current, asked, TRUE) = "ok")
    /\ \A o \in offers :
         o.requiresComment <=> (Verdict(who, current, asked, FALSE) = "badrequest")

\* No accepted move of the group leads out of S.
ClosedUnderMoves(S, roles) ==
  \A s \in S, t \in Statuses, who \in roles : Verdict(who, s, t, TRUE) = "ok" => t \in S

CanReach(start, goal, roles) ==
  \A S \in SUBSET Statuses : start \in S /\ ClosedUnderMoves(S, roles) => goal \in S

\* The matrix has no dead end and needs both sides: from wherever a task is, a
\* group can bring it to DONE exactly if it has an agency role and the client's,
\* or an agency role where only the agency's confirmation is missing.
BothSidesCloseATask ==
  LET agency == group \cap AGENCY_ROLES # {} IN
  CanReach(current, "DONE", group) <=>
    \/ current = "DONE"
    \/ current = "PENDING_CLOSURE" /\ agency
    \/ "CLIENT_VIEW" \in group /\ agency
=============================================================================
