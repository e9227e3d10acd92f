--------------------------- MODULE MCAuthSessions ---------------------------
(* Two tabs of one browser for TLC: two calls of the first, one of the other. *)
EXTENDS AuthSessions, TLC

CONSTANTS t1, t2, c1, c2, c3

TwoAndOne    == c1 :> t1 @@ c2 :> t1 @@ c3 :> t2
CallSymmetry == Permutations({c1, c2})
=============================================================================
