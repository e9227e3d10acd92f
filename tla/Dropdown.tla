------------------------------ MODULE Dropdown ------------------------------
(***************************************************************************)
(* The drop-down list of the web client                                    *)
(* (apps/web/src/components/ui/Dropdown.tsx) as operators on its state:    *)
(* whether the menu is open, and the index of the highlighted option.      *)
(* The list, the value and what a choice does belong to the page.          *)
(* Indices count from 1 here.  The place of the menu is left out.          *)
(***************************************************************************)
EXTENDS Integers, Sequences

Closed == [open |-> FALSE, at |-> 1]

\* options.findIndex, or the first option if the value is not on offer.
IndexOf(options, value) ==
  IF \E i \in DOMAIN options : options[i] = value
    THEN CHOOSE i \in DOMAIN options : options[i] = value ELSE 1

\* A click on the trigger, or Enter and Space on it while the menu is closed.
\* Closing (the trigger, Escape, a press outside, a scroll) forgets the index,
\* which the next opening sets anew.
Toggle(menu, options, value) ==
  IF menu.open THEN Closed ELSE [open |-> TRUE, at |-> IndexOf(options, value)]

\* ArrowDown and ArrowUp: the first one opens the menu, the others go round.
Arrow(menu, options, value, step) ==
  IF options = <<>> THEN menu
  ELSE IF ~menu.open THEN [open |-> TRUE, at |-> IndexOf(options, value)]
  ELSE [menu EXCEPT !.at = ((menu.at - 1 + step + Len(options)) % Len(options)) + 1]

\* The mouse enters an option.
Hover(menu, i) == [menu EXCEPT !.at = i]

\* What Enter, Space or a click on the highlighted option chooses, if anything.
Choice(menu, options) ==
  IF menu.open /\ menu.at \in DOMAIN options THEN {options[menu.at]} ELSE {}
=============================================================================
