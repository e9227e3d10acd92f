--------------------------- MODULE TaskTransition ---------------------------
(***************************************************************************)
(* The pure task state machine of ApproveFlow                              *)
(* (apps/api/src/tasks/domain/task-transition.ts): which role may move a   *)
(* task from which status to which, what record the move leaves behind,    *)
(* and the list of targets the API offers to the web client.               *)
(***************************************************************************)
EXTENDS Naturals

Statuses == {"BRIEF", "PRODUCTION", "INTERNAL_REVIEW", "CLIENT_HANDOFF",
             "CLIENT_APPROVAL", "PENDING_CLOSURE", "DONE"}

Roles == {"ADMIN", "MANAGER", "MEMBER", "CLIENT_VIEW"}

AGENCY_ROLES == {"ADMIN", "MANAGER"}

EventTypes == {"STATUS_CHANGED", "HANDOFF_ACK", "CLIENT_APPROVAL"}

\* NoApproval is the null of the nullable columns approval_type and action.
NoApproval == "NULL"
ApprovalTypes == {"APPROVED", "CHANGES_REQUESTED"}

-----------------------------------------------------------------------------
Rule(from, to, roles) == [from |-> from, to |-> to, allowedRoles |-> roles]

TRANSITION_RULES ==
  {Rule("BRIEF",           "PRODUCTION",      AGENCY_ROLES),
   Rule("PRODUCTION",      "INTERNAL_REVIEW", AGENCY_ROLES),
   Rule("INTERNAL_REVIEW", "PRODUCTION",      AGENCY_ROLES),
   Rule("INTERNAL_REVIEW", "CLIENT_HANDOFF",  AGENCY_ROLES),
   Rule("CLIENT_HANDOFF",  "INTERNAL_REVIEW", AGENCY_ROLES),
   Rule("CLIENT_HANDOFF",  "CLIENT_APPROVAL", {"CLIENT_VIEW"}),
   Rule("CLIENT_APPROVAL", "PENDING_CLOSURE", {"CLIENT_VIEW"}),
   Rule("CLIENT_APPROVAL", "PRODUCTION",      {"CLIENT_VIEW"}),
   Rule("PENDING_CLOSURE", "DONE",            AGENCY_ROLES)}

\* Mutant of CanTransition: the rule's roles are not looked at.
CanTransitionAnyRole(role, from, to) ==
  \E rule \in TRANSITION_RULES : rule.from = from /\ rule.to = to

CanTransition(role, from, to) ==
  /\ from # "DONE"
  /\ \E rule \in TRANSITION_RULES :
        rule.from = from /\ rule.to = to /\ role \in rule.allowedRoles

\* Mutant of RequiresComment: every move back to production asks for a comment.
RequiresCommentToProduction(from, to) == from # "BRIEF" /\ to = "PRODUCTION"

RequiresComment(from, to) == from = "CLIENT_APPROVAL" /\ to = "PRODUCTION"

\* The type of the TaskEvent a move leaves, and the client decision it carries.
EventType(from, to) ==
  IF from = "CLIENT_HANDOFF" /\ to = "CLIENT_APPROVAL" THEN "HANDOFF_ACK"
  ELSE IF from = "CLIENT_APPROVAL" /\ to \in {"PENDING_CLOSURE", "PRODUCTION"}
       THEN "CLIENT_APPROVAL"
  ELSE "STATUS_CHANGED"

\* Mutant of ApprovalType: the two decisions are swapped.
ApprovalTypeSwapped(from, to) ==
  IF from # "CLIENT_APPROVAL" THEN NoApproval
  ELSE IF to = "PENDING_CLOSURE" THEN "CHANGES_REQUESTED"
  ELSE IF to = "PRODUCTION" THEN "APPROVED"
  ELSE NoApproval

ApprovalType(from, to) ==
  IF from # "CLIENT_APPROVAL" THEN NoApproval
  ELSE IF to = "PENDING_CLOSURE" THEN "APPROVED"
  ELSE IF to = "PRODUCTION" THEN "CHANGES_REQUESTED"
  ELSE NoApproval

\* What resolveTransition says of the comment: a second copy of RequiresComment.
ResolvedRequiresComment(from, to) == ApprovalType(from, to) = "CHANGES_REQUESTED"

\* assertTransitionWithPayload: "ok", or the exception the service maps it to.
Verdict(role, from, to, hasComment) ==
  IF from = to \/ ~CanTransition(role, from, to) THEN "forbidden"
  ELSE IF ResolvedRequiresComment(from, to) /\ ~hasComment THEN "badrequest"
  ELSE "ok"

-----------------------------------------------------------------------------
GetAllowedTargetStatuses(role, from) ==
  IF from = "DONE" THEN {}
  ELSE {rule.to : rule \in {q \in TRANSITION_RULES :
                              q.from = from /\ role \in q.allowedRoles}}

\* The offers of GET /tasks/:id/allowed-transitions (labels left out).
BuildAllowedTransitionTargets(role, from) ==
  {[to |-> to, requiresComment |-> RequiresComment(from, to)] :
      to \in GetAllowedTargetStatuses(role, from)}
=============================================================================
