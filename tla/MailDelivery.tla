---------------------------- MODULE MailDelivery ----------------------------
(***************************************************************************)
(* What the email outbox promises about the mail of a handoff, without     *)
(* rows, workers or leases: once written, a mail is handed to its          *)
(* recipients, each of them once, in a number of tries, until it is        *)
(* complete or given up.  Two things may befall a mail that take part of   *)
(* the promise away: it is overrun, when a try is started while another    *)
(* one has not ended, and it is unrecorded, when somebody got the mail and *)
(* nobody noted it.  What stays true of every mail is that it is complete  *)
(* only when everybody has it, and that it is given up after the last try. *)
(***************************************************************************)
EXTENDS Naturals

CONSTANTS
  Mails, Users,
  Recipients,   \* [Mails -> SUBSET Users]
  MaxTries

VARIABLES
  stage,        \* "unwritten", "queued", "complete" or "givenup"
  tries,        \* tries that have ended, by the mail's own count
  got, twice,   \* who got the mail, and who got it more than once
  overrun, unrecorded

mail == <<stage, tries, got, twice, overrun, unrecorded>>

Init ==
  /\ stage = [m \in Mails |-> "unwritten"]
  /\ tries = [m \in Mails |-> 0]
  /\ got = [m \in Mails |-> {}] /\ twice = [m \in Mails |-> {}]
  /\ overrun = {} /\ unrecorded = {}

Write(m) ==
  /\ stage[m] = "unwritten"
  /\ stage' = [stage EXCEPT ![m] = "queued"]
  /\ UNCHANGED <<tries, got, twice, overrun, unrecorded>>

Overrun(m) ==
  /\ stage[m] = "queued"
  /\ overrun' = overrun \cup {m}
  /\ UNCHANGED <<stage, tries, got, twice, unrecorded>>

\* The mail reaches a recipient: for the first time and while it is queued, and
\* otherwise only for the two reasons.
Hand(m, u) ==
  /\ u \in Recipients[m] /\ stage[m] # "unwritten"
  /\ stage[m] # "queued" => m \in overrun
  /\ u \in got[m] => m \in overrun \cup unrecorded
  /\ got' = [got EXCEPT ![m] = @ \cup {u}]
  /\ twice' = [twice EXCEPT ![m] = IF u \in got[m] THEN @ \cup {u} ELSE @]
  /\ unrecorded' \in {unrecorded, unrecorded \cup {m}}
  /\ UNCHANGED <<stage, tries, overrun>>

LoseRecord(m) ==
  /\ got[m] # {}
  /\ unrecorded' = unrecorded \cup {m}
  /\ UNCHANGED <<stage, tries, got, twice, overrun>>

\* A try ends, and is the n-th: the next one, of a mail that is still queued, if
\* tries do not overlap.
EndTry(m, outcome, n) ==
  /\ stage[m] # "unwritten"
  /\ m \notin overrun => stage[m] = "queued" /\ n = tries[m] + 1
  /\ stage' = [stage EXCEPT ![m] = outcome]
  /\ tries' = [tries EXCEPT ![m] = n]
  /\ UNCHANGED <<got, twice, overrun, unrecorded>>

Complete(m) == Recipients[m] \subseteq got[m] /\ EndTry(m, "complete", tries[m] + 1)

Retry(m) == \E n \in 1..(MaxTries - 1) : EndTry(m, "queued", n)

GiveUp(m) == EndTry(m, "givenup", MaxTries)

Next ==
  \E m \in Mails :
    \/ Write(m)      \/ Overrun(m)  \/ \E u \in Users : Hand(m, u)
    \/ LoseRecord(m) \/ Complete(m) \/ Retry(m) \/ GiveUp(m)

Spec == Init /\ [][Next]_mail
=============================================================================
