--------------------------- MODULE MCEmailOutbox ----------------------------
(* Small instances of EmailOutbox for TLC. *)
EXTENDS EmailOutbox, TLC

CONSTANTS w1, w2, ann, bob

\* One mail to two clients, and a second one to one of them.
TwoMails == 1 :> {ann, bob} @@ 2 :> {bob}
=============================================================================
