--------------------------- MODULE MCSettingsPage ---------------------------
(* A small workspace and four kinds of visits for TLC. *)
EXTENDS SettingsPage, TLC

CONSTANTS mate, s1, s2, a, b, bad

OneAtATime == {{"texts"}, {"profile", mate, me}, {other}, {"invite"}}
Names == [v \in OneAtATime |->
            [f \in Fields |-> IF f = "profile" /\ "texts" \in v THEN Blank ELSE a]]
Members == [v \in OneAtATime |->
              [u \in Users |-> IF u # mate THEN "ADMIN"
                               ELSE IF mate \in v THEN "CLIENT_VIEW" ELSE None]]
SlotSymmetry == Permutations(Slots)
=============================================================================
