------------------------------ MODULE MCTables ------------------------------
(* Three small parts that share no state, each checked from its own initial  *)
(* states while the other two stand still: the transition matrix over all    *)
(* its inputs (a group of roles, the status a task is in, and the target     *)
(* somebody of the group asks for), the activity feed, and due date picking. *)
EXTENDS TaskMatrix, ActivityFeed, DueDatePicker, TLC

CONSTANTS taskEvents, comments, brief, banner

VARIABLE part

months   == <<31, 28, 31, 30, 31, 30, 31>>
offsets  == {-11, 0, 11, 12}
hours    == {35, 37, 48, 24 * 31 + 5}
pickable == {1, 31, 32, 45}

symmetry == Permutations(FeedTables) \cup Permutations(FeedTasks)

MatrixRest == group = {} /\ current = "DONE" /\ asked = "DONE"
DateRest   == /\ offset = 0 /\ clock = 35 /\ done = FALSE /\ dueAt = 0 /\ dueDate = 0
              /\ open = FALSE /\ view = 1 /\ picked = 0

Init == \/ part = "matrix" /\ MatrixInit /\ FeedInit /\ DateRest
        \/ part = "feed"   /\ MatrixRest /\ FeedInit /\ DateRest
        \/ part = "dates"  /\ MatrixRest /\ FeedInit /\ DateInit

Next == /\ UNCHANGED part
        /\ \/ part = "matrix" /\ MatrixNext /\ UNCHANGED <<feedVars, dateVars>>
           \/ part = "feed"   /\ FeedNext   /\ UNCHANGED <<matrixVars, dateVars>>
           \/ part = "dates"  /\ DateNext   /\ UNCHANGED <<matrixVars, feedVars>>

Spec == Init /\ [][Next]_<<part, matrixVars, feedVars, dateVars>>
=============================================================================
