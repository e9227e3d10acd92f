----------------------------- MODULE MCWebPages -----------------------------
(* Visits of the two pages for TLC: what the user does there, and what of    *)
(* the page is looked at.                                                    *)
EXTENDS WebPages

CONSTANTS member, client

Visit(page, role, does, shows, finds, meets) ==
  [page |-> page, role |-> role, acts |-> does, shows |-> shows, finds |-> finds,
   unread |-> IF "list" \in shows THEN {0} ELSE {}, others |-> meets]

AllVisits ==
  {Visit("task", "MANAGER", {"move"}, {"task", "transitions", "outside"},
         {"INTERNAL_REVIEW"}, {"status", "project"}),
   Visit("task", "MANAGER", {"save"}, {"task", "members"}, {"PENDING_CLOSURE"},
         {"due", "project"}),
   Visit("task", "MANAGER", {"due", "save"}, {"task"}, {"PENDING_CLOSURE"}, {}),
   Visit("task", "CLIENT_VIEW", {"move"}, {"task", "transitions"},
         {"CLIENT_HANDOFF", "CLIENT_APPROVAL"}, {"status"}),
   Visit("project", "MANAGER", {"create", "add", "remove"}, {"members", "tasks"},
         {"BRIEF"}, {"project", "tasks"}),
   Visit("task", "MEMBER", {"comment", "read", "readAll"}, {"comments", "count", "list"},
         {"BRIEF"}, {"comments"})}
=============================================================================
