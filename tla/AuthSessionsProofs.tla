------------------------- MODULE AuthSessionsProofs -------------------------
(***************************************************************************)
(* Theorems about AuthSessions: types, who holds a token that opens the    *)
(* account, waiting behind a refresh, refused refreshes, reset links and   *)
(* sign-outs, for any number of tabs, calls and links.                     *)
(***************************************************************************)
EXTENDS AuthSessions, FiniteSetTheorems, TLAPS

Pcs == {"sent", "halfway", "ok", "denied", "lost", "waiting"}

\* What an answer or a request halfway carries is there.
AnswersCarryTokens ==
  /\ \A c \in Calls : Is(c, "ok", {"login"}) => call[c].token \in Tokens
  /\ \A c \in Calls : Is(c, "halfway", {"reset"}) => call[c].link \in Links
  /\ \A t \in Tabs : renewal[t] # None /\ renewal[t].pc = "ok" =>
       renewal[t].token \in Tokens /\ renewal[t].token.ver > 0

TypeInv == TypeOK /\ AnswersCarryTokens

\* A call that goes on elsewhere, or ends, keeps the type of `call`.
LEMMA CallGoesOn ==
  ASSUME TypeOK, NEW c \in Calls, call[c] # None, NEW pc \in Pcs,
         Goto(c, pc) \/ Done(c)
  PROVE  call' \in [Calls -> CallRecs \cup {None}]
  <1>1. CASE Goto(c, pc)
    <2>1. call[c] \in CallRecs
      BY DEF TypeOK
    <2>2. [call[c] EXCEPT !.pc = pc] \in CallRecs
      BY <2>1 DEF CallRecs, Pcs
    <2>3. call' = [call EXCEPT ![c] = [call[c] EXCEPT !.pc = pc]]
      BY <1>1 DEF Goto
    <2>. QED BY <2>2, <2>3 DEF TypeOK
  <1>2. CASE Done(c)
    BY <1>2 DEF TypeOK, Done
  <1>. QED BY <1>1, <1>2

\* The server keeps the types.
LEMMA ServerTypes ==
  ASSUME TypeInv, NEW c \in Calls, Server(c)
  PROVE  TypeOK'
  <1> USE SessionConstantsOK DEF TypeInv
  <1>1. CASE ServeAccepted(c) \/ ServeDenied(c) \/ RefuseLogin(c)
    <2>1. call' \in [Calls -> CallRecs \cup {None}]
      BY <1>1, CallGoesOn DEF ServeAccepted, ServeDenied, RefuseLogin, Is, Pcs
    <2>. QED
      BY <1>1, <2>1 DEF TypeOK, ServeAccepted, ServeDenied, RefuseLogin, account,
         browser, history
  <1>2. CASE ServeLogout(c)
    <2>1. call' \in [Calls -> CallRecs \cup {None}]
      BY <1>2, CallGoesOn DEF ServeLogout, Is, Pcs
    <2>. QED BY <1>2, <2>1 DEF TypeOK, ServeLogout, Revoke, browser
  <1>3. CASE ServeLogin(c)
    <2>1. Signed \in Tokens
      BY DEF Signed, Tokens, TypeOK
    <2>2. call[c] \in CallRecs
      BY <1>3 DEF ServeLogin, Is, TypeOK
    <2>3. [call[c] EXCEPT !.pc = "ok", !.token = Signed] \in CallRecs
      BY <2>1, <2>2 DEF CallRecs
    <2>4. call' = [call EXCEPT ![c] = [call[c] EXCEPT !.pc = "ok", !.token = Signed]]
      BY <1>3 DEF ServeLogin
    <2>5. call' \in [Calls -> CallRecs \cup {None}]
      BY <2>3, <2>4 DEF TypeOK
    <2>. QED BY <1>3, <2>5 DEF TypeOK, ServeLogin, account, browser
  <1>4. CASE ForgotDelete(c) \/ ForgotCreate(c)
    <2>1. call' \in [Calls -> CallRecs \cup {None}]
      BY <1>4, CallGoesOn DEF ForgotDelete, ForgotCreate, Is, Pcs
    <2>. QED
      BY <1>4, <2>1 DEF TypeOK, ForgotDelete, ForgotCreate, account, browser, history
  <1>5. CASE ResetCheck(c)
    <2>1. call' \in [Calls -> CallRecs \cup {None}]
      BY <1>5, CallGoesOn DEF ResetCheck, Is, Pcs
    <2>2. crossed' \subseteq Links \cup {0}
      <3>1. CASE \E d \in Calls : Is(d, "halfway", {"reset"}) /\ call[d].link = call[c].link
        <4>1. call[c].link \in Links
          BY <3>1 DEF AnswersCarryTokens
        <4>. QED BY <1>5, <3>1, <4>1 DEF ResetCheck, TypeOK
      <3>. QED BY <1>5, <3>1 DEF ResetCheck, TypeOK
    <2>. QED BY <1>5, <2>1, <2>2 DEF TypeOK, ResetCheck, account, browser
  <1>6. CASE ResetCommit(c)
    <2>1. call' \in [Calls -> CallRecs \cup {None}]
      BY <1>6, CallGoesOn DEF ResetCommit, Is, Pcs
    <2>2. call[c].link \in Links
      BY <1>6 DEF ResetCommit, AnswersCarryTokens
    <2>3. uses' \in [Links -> Nat]
      <3>1. uses \in [Links -> Nat]
        BY DEF TypeOK
      <3>2. PICK l \in Links : uses' = [uses EXCEPT ![l] = uses[l] + 1]
        BY <1>6, <2>2 DEF ResetCommit
      <3>. QED BY <3>1, <3>2
    <2>4. by' \in Seq(Tabs \cup {"server"}) /\ Len(by') = version'
      BY <1>6 DEF ResetCommit, Revoke, TypeOK
    <2>. QED BY <1>6, <2>1, <2>3, <2>4 DEF TypeOK, ResetCommit, Revoke, browser
  <1>. QED BY <1>1, <1>2, <1>3, <1>4, <1>5, <1>6 DEF Server

\* So do answers that arrive and calls that begin or are lost.
LEMMA CallTypes ==
  ASSUME TypeInv, NEW c \in Calls, Arrives(c) \/ Boot(c) \/ Submit(c) \/ Lose(c)
  PROVE  TypeOK'
  <1> USE SessionConstantsOK DEF TypeInv
  <1>1. TabOf[c] \in Tabs
    OBVIOUS
  <1>2. CASE LoginArrives(c)
    <2>1. call[c] \in CallRecs
      BY <1>2 DEF LoginArrives, Is, TypeOK
    <2>2. call[c].token \in Tokens
      BY <1>2 DEF LoginArrives, AnswersCarryTokens
    <2>3. [call[c] EXCEPT !.kind = "me", !.pc = "sent"] \in CallRecs
      BY <2>1 DEF CallRecs, Kinds
    <2>4. call' = [call EXCEPT ![c] = [call[c] EXCEPT !.kind = "me", !.pc = "sent"]]
      BY <1>2 DEF LoginArrives
    <2>5. call' \in [Calls -> CallRecs \cup {None}]
      BY <2>3, <2>4 DEF TypeOK
    <2>6. /\ access' \in Tokens \cup {None} /\ refresh' \in Tokens \cup {None}
          /\ excused' \subseteq Nat
      BY <1>2, <2>2 DEF LoginArrives, SetCookies, TypeOK, Tokens
    <2>. QED BY <1>2, <2>5, <2>6 DEF TypeOK, LoginArrives, account
  <1>3. CASE UserArrives(c) \/ LogoutArrives(c) \/ AnswerArrives(c) \/ CallFails(c)
    <2>1. Done(c) /\ call[c] # None
      BY <1>3 DEF UserArrives, LogoutArrives, AnswerArrives, CallFails, Is
    <2>2. call' \in [Calls -> CallRecs \cup {None}]
      BY <2>1, CallGoesOn DEF Pcs
    <2>3. user' \in [Tabs -> BOOLEAN]
      BY <1>1, <1>3 DEF UserArrives, LogoutArrives, AnswerArrives, CallFails, TypeOK,
         browser, UserAfter
    <2>. QED
      BY <1>1, <1>3, <2>2, <2>3 DEF TypeOK, UserArrives, LogoutArrives, AnswerArrives,
         CallFails, account, browser, history
  <1>4. CASE Renew(c)
    <2>1. call' \in [Calls -> CallRecs \cup {None}]
      BY <1>4, CallGoesOn DEF Renew, Is, Pcs
    <2>2. renewal' \in [Tabs -> RenewalRecs \cup {None}]
      BY <1>1, <1>4 DEF Renew, TypeOK, RenewalRecs
    <2>. QED BY <1>4, <2>1, <2>2 DEF TypeOK, Renew, account, browser, history
  <1>5. CASE Boot(c) \/ Submit(c)
    <2>1. PICK kind \in Kinds, link \in Links \cup {None} : Begin(c, kind, link)
      BY <1>5 DEF Boot, Submit, Kinds, TypeOK
    <2>2. call' \in [Calls -> CallRecs \cup {None}]
      BY <2>1 DEF Begin, TypeOK, CallRecs
    <2>3. fresh' \subseteq Tabs
      BY <1>5 DEF Boot, Submit, TypeOK
    <2>. QED BY <2>1, <2>2, <2>3 DEF TypeOK, Begin, account, history
  <1>6. CASE Lose(c)
    <2>1. call' \in [Calls -> CallRecs \cup {None}]
      BY <1>6, CallGoesOn DEF Lose, Pcs
    <2>. QED BY <1>6, <2>1 DEF TypeOK, Lose, account, browser, history
  <1>. QED BY <1>2, <1>3, <1>4, <1>5, <1>6 DEF Arrives

\* And so do refreshes, page loads and whatever expires.
LEMMA TabTypes ==
  ASSUME TypeInv,
         \/ \E t \in Tabs : Renewing(t) \/ LoseRenewal(t) \/ Reload(t)
         \/ LinkExpires \/ AccessExpires \/ RefreshExpires
  PROVE  TypeOK'
  <1> USE SessionConstantsOK DEF TypeInv
  <1>1. ASSUME NEW t \in Tabs, ServeRenewal(t)
        PROVE  TypeOK'
    <2>1. renewal[t] \in RenewalRecs
      BY <1>1 DEF ServeRenewal, TypeOK
    <2>2. CASE Live(renewal[t].token)
      <3>1. renewal[t].token \in Tokens
        BY <2>1, <2>2 DEF Live, RenewalRecs
      <3>2. [token |-> Rotated(renewal[t].token), pc |-> "ok"] \in RenewalRecs
        BY <3>1 DEF RenewalRecs, Rotated, Tokens
      <3>3. renewal' \in [Tabs -> RenewalRecs \cup {None}]
        BY <1>1, <2>2, <3>2 DEF ServeRenewal, TypeOK
      <3>4. version' \in Nat /\ by' \in Seq(Tabs \cup {"server"}) /\ Len(by') = version'
        <4>1. by \in Seq(Tabs \cup {"server"}) /\ Len(by) = version /\ version \in Nat
          BY DEF TypeOK
        <4>2. version' = version + 1 /\ by' = Append(by, t) /\ t \in Tabs \cup {"server"}
          BY <1>1, <2>2 DEF ServeRenewal, Revoke
        <4>. QED BY <4>1, <4>2
      <3>. QED BY <1>1, <2>2, <3>3, <3>4 DEF TypeOK, ServeRenewal, browser
    <2>3. CASE ~Live(renewal[t].token)
      <3>1. [renewal[t] EXCEPT !.pc = "denied"] \in RenewalRecs
        BY <2>1 DEF RenewalRecs
      <3>2. renewal' = [renewal EXCEPT ![t] = [renewal[t] EXCEPT !.pc = "denied"]]
        BY <1>1, <2>3 DEF ServeRenewal
      <3>3. renewal' \in [Tabs -> RenewalRecs \cup {None}]
        BY <3>1, <3>2 DEF TypeOK
      <3>. QED BY <1>1, <2>3, <3>3 DEF TypeOK, ServeRenewal, browser
    <2>. QED BY <2>2, <2>3
  <1>2. ASSUME NEW t \in Tabs, RenewalArrives(t)
        PROVE  TypeOK'
    <2>1. renewal[t].token \in Tokens
      BY <1>2 DEF RenewalArrives, AnswersCarryTokens
    <2>2. \A d \in Waiting(t) : call[d] \in CallRecs
      BY DEF Waiting, CallsOf, TypeOK
    <2>3. \A d \in Waiting(t) :
            [call[d] EXCEPT !.pc = "sent", !.again = TRUE, !.token = renewal[t].token]
              \in CallRecs
      BY <2>1, <2>2 DEF CallRecs
    <2>4. \A d \in Calls : call[d] \in CallRecs \cup {None}
      BY DEF TypeOK
    <2>5. call' \in [Calls -> CallRecs \cup {None}]
      BY <1>2, <2>3, <2>4 DEF RenewalArrives
    <2>. QED BY <1>2, <2>1, <2>5 DEF TypeOK, RenewalArrives, SetCookies, Tokens, account
  <1>3. ASSUME NEW t \in Tabs, RenewalFails(t) \/ Reload(t)
        PROVE  TypeOK'
    <2>1. user' \in [Tabs -> BOOLEAN]
      BY <1>3 DEF RenewalFails, Reload, UserAfter, TypeOK
    <2>2. CASE RenewalFails(t)
      <3>1. \A d \in Calls : call[d] \in CallRecs \cup {None}
        BY DEF TypeOK
      <3>2. call' \in [Calls -> CallRecs \cup {None}]
        BY <2>2, <3>1 DEF RenewalFails
      <3>3. renewal' \in [Tabs -> RenewalRecs \cup {None}]
        BY <2>2 DEF RenewalFails, TypeOK
      <3>. QED BY <2>1, <2>2, <3>2, <3>3 DEF TypeOK, RenewalFails, account, history
    <2>3. CASE Reload(t)
      BY <2>1, <2>3 DEF TypeOK, Reload, account
    <2>. QED BY <1>3, <2>2, <2>3
  <1>4. ASSUME NEW t \in Tabs, LoseRenewal(t)
        PROVE  TypeOK'
    <2>1. renewal' \in [Tabs -> RenewalRecs \cup {None}]
      BY <1>4 DEF LoseRenewal, TypeOK, RenewalRecs
    <2>2. excused' \subseteq Nat
      BY <1>4 DEF LoseRenewal, AnswersCarryTokens, Tokens, TypeOK
    <2>. QED BY <1>4, <2>1, <2>2 DEF TypeOK, LoseRenewal, account, browser
  <1>5. CASE LinkExpires \/ AccessExpires \/ RefreshExpires
    <2>1. CASE LinkExpires
      BY <2>1 DEF TypeOK, LinkExpires, browser, history
    <2>2. CASE AccessExpires
      BY <2>2 DEF TypeOK, AccessExpires, account, history
    <2>3. CASE RefreshExpires
      BY <2>3 DEF TypeOK, RefreshExpires, account, history
    <2>. QED BY <1>5, <2>1, <2>2, <2>3
  <1>. QED BY <1>1, <1>2, <1>3, <1>4, <1>5 DEF Renewing

-----------------------------------------------------------------------------
(* What a step can make of one call, of one refresh, and of the account.    *)

Keeps(d) ==
  /\ call[d] # None
  /\ call'[d].kind = call[d].kind /\ call'[d].link = call[d].link

CallMoves(d) ==
  \/ call'[d] = call[d]
  \/ call'[d] = None
  \/ /\ call[d] = None /\ call'[d].pc = "sent" /\ call'[d].token = access
     /\ Boot(d) \/ (Submit(d) /\ call'[d].kind # "boot")
     /\ call'[d].kind = "reset" => call'[d].link \in mailed
  \/ Keeps(d) /\ call'[d].token = call[d].token
     /\ \/ call'[d].pc \in {"denied", "lost"}
        \/ call'[d].pc = "waiting" /\ Renew(d)
        \/ call'[d].pc = "ok" /\ call[d].kind # "login"
        \/ call'[d].pc = "halfway" /\ ForgotDelete(d)
        \/ call'[d].pc = "halfway" /\ ResetCheck(d) /\ call[d].link \in links
  \/ Keeps(d) /\ ServeLogin(d) /\ call'[d].pc = "ok" /\ call'[d].token = Signed
  \/ /\ LoginArrives(d) /\ call'[d].kind = "me" /\ call'[d].pc = "sent"
     /\ call'[d].token = call[d].token
  \/ /\ Keeps(d) /\ call[d].pc = "waiting" /\ call'[d].pc = "sent"
     /\ RenewalArrives(TabOf[d]) /\ call'[d].token = renewal[TabOf[d]].token

\* A step of a call is a step of that call, and leaves the others.
LEMMA OwnCallMoves ==
  ASSUME TypeInv, NEW c \in Calls, NEW d \in Calls,
         Server(c) \/ Arrives(c) \/ Boot(c) \/ Submit(c) \/ Lose(c)
  PROVE  CallMoves(d)
  <1> USE DEF TypeInv
  <1>1. call \in [Calls -> CallRecs \cup {None}]
    BY DEF TypeOK
  <1>2. ASSUME NEW pc \in Pcs, Goto(c, pc), call[c] # None
        PROVE  /\ d # c => call'[d] = call[d]
               /\ Keeps(c) /\ call'[c].token = call[c].token /\ call'[c].pc = pc
    <2>1. call[c] \in CallRecs
      BY <1>1, <1>2
    <2>2. call'[c] = [call[c] EXCEPT !.pc = pc] /\ (d # c => call'[d] = call[d])
      BY <1>1, <1>2 DEF Goto
    <2>. QED BY <1>2, <2>1, <2>2 DEF CallRecs, Keeps
  <1>3. CASE Lose(c)
    BY <1>2, <1>3 DEF Lose, CallMoves, Pcs
  <1>4. CASE ServeAccepted(c) \/ ServeDenied(c) \/ ServeLogout(c) \/ RefuseLogin(c)
              \/ ForgotCreate(c) \/ ResetCommit(c)
    BY <1>2, <1>4 DEF ServeAccepted, ServeDenied, ServeLogout, RefuseLogin, ForgotCreate,
       ResetCommit, Is, CallMoves, Pcs
  <1>5. CASE ForgotDelete(c) \/ ResetCheck(c)
    <2>1. PICK pc \in {"halfway", "denied"} : Goto(c, pc) /\ call[c] # None
                 /\ (ResetCheck(c) /\ pc = "halfway" => call[c].link \in links)
                 /\ (ForgotDelete(c) => pc = "halfway")
      BY <1>5 DEF ForgotDelete, ResetCheck, Is
    <2>. QED BY <1>2, <1>5, <2>1 DEF CallMoves, Pcs
  <1>6. CASE ServeLogin(c)
    <2>1. call[c] \in CallRecs
      BY <1>1, <1>6 DEF ServeLogin, Is
    <2>2. /\ call'[c] = [call[c] EXCEPT !.pc = "ok", !.token = Signed]
          /\ d # c => call'[d] = call[d]
      BY <1>1, <1>6 DEF ServeLogin
    <2>3. call'[c].pc = "ok" /\ call'[c].token = Signed /\ Keeps(c)
      BY <2>1, <2>2, <1>6 DEF CallRecs, Keeps, ServeLogin, Is
    <2>. QED BY <1>6, <2>2, <2>3 DEF CallMoves
  <1>7. CASE LoginArrives(c)
    <2>1. call[c] \in CallRecs
      BY <1>1, <1>7 DEF LoginArrives, Is
    <2>2. /\ call'[c] = [call[c] EXCEPT !.kind = "me", !.pc = "sent"]
          /\ d # c => call'[d] = call[d]
      BY <1>1, <1>7 DEF LoginArrives
    <2>3. call'[c].kind = "me" /\ call'[c].pc = "sent" /\ call'[c].token = call[c].token
      BY <2>1, <2>2 DEF CallRecs
    <2>. QED BY <1>7, <2>2, <2>3 DEF CallMoves
  <1>8. CASE UserArrives(c) \/ LogoutArrives(c) \/ AnswerArrives(c) \/ CallFails(c)
    <2>1. Done(c)
      BY <1>8 DEF UserArrives, LogoutArrives, AnswerArrives, CallFails
    <2>2. call'[d] = None \/ call'[d] = call[d]
      BY <1>1, <2>1 DEF Done
    <2>. QED BY <2>2 DEF CallMoves
  <1>9. CASE Renew(c)
    BY <1>2, <1>9 DEF Renew, Is, CallMoves, Pcs
  <1>10. CASE Boot(c) \/ Submit(c)
    <2>1. PICK kind, link : /\ Begin(c, kind, link)
                            /\ Boot(c) \/ (Submit(c) /\ kind # "boot")
                            /\ kind = "reset" => link \in mailed
      <3>1. CASE Boot(c)
        <4>1. Begin(c, "boot", None)
          BY <3>1 DEF Boot
        <4>. QED BY <3>1, <4>1
      <3>2. CASE Submit(c)
        <4>1. PICK kind \in Kinds \ {"boot"}, link \in mailed \cup {None} :
                Begin(c, kind, link) /\ (kind = "reset" => link \in mailed)
          BY <3>2 DEF Submit, Kinds
        <4>. QED BY <3>2, <4>1
      <3>. QED BY <1>10, <3>1, <3>2
    <2>2. /\ call[c] = None
          /\ call'[c] = [kind |-> kind, token |-> access, link |-> link,
                         again |-> FALSE, pc |-> "sent"]
          /\ d # c => call'[d] = call[d]
      BY <1>1, <2>1 DEF Begin
    <2>. QED BY <2>1, <2>2 DEF CallMoves
  <1>. QED
    BY <1>3, <1>4, <1>5, <1>6, <1>7, <1>8, <1>9, <1>10 DEF Server, Arrives

\* So does every other step.
LEMMA NextMovesCalls ==
  ASSUME TypeInv, Next, NEW d \in Calls
  PROVE  CallMoves(d)
  <1> USE DEF TypeInv
  <1>1. call \in [Calls -> CallRecs \cup {None}]
    BY DEF TypeOK
  <1>2. CASE \E c \in Calls : Server(c) \/ Arrives(c) \/ Boot(c) \/ Submit(c) \/ Lose(c)
    BY <1>2, OwnCallMoves
  <1>3. ASSUME NEW t \in Tabs, RenewalArrives(t)
        PROVE  CallMoves(d)
    <2>1. CASE d \in Waiting(t)
      <3>1. call[d] \in CallRecs /\ TabOf[d] = t /\ call[d].pc = "waiting"
        BY <1>1, <2>1 DEF Waiting, CallsOf
      <3>2. call'[d] = [call[d] EXCEPT !.pc = "sent", !.again = TRUE,
                                        !.token = renewal[t].token]
        BY <1>3, <2>1 DEF RenewalArrives
      <3>3. /\ call'[d].kind = call[d].kind /\ call'[d].link = call[d].link
            /\ call'[d].pc = "sent" /\ call'[d].token = renewal[t].token
        BY <3>1, <3>2 DEF CallRecs
      <3>4. call[d] # None
        BY <2>1 DEF Waiting, CallsOf
      <3>. QED BY <1>3, <3>1, <3>3, <3>4 DEF CallMoves, Keeps
    <2>2. CASE d \notin Waiting(t)
      BY <1>3, <2>2 DEF RenewalArrives, CallMoves
    <2>. QED BY <2>1, <2>2
  <1>4. ASSUME NEW t \in Tabs, ServeRenewal(t) \/ RenewalFails(t) \/ LoseRenewal(t)
                               \/ Reload(t)
        PROVE  CallMoves(d)
    BY <1>4 DEF ServeRenewal, RenewalFails, LoseRenewal, Reload, CallMoves
  <1>5. CASE LinkExpires \/ AccessExpires \/ RefreshExpires
    BY <1>5 DEF LinkExpires, AccessExpires, RefreshExpires, CallMoves
  <1>. QED BY <1>2, <1>3, <1>4, <1>5 DEF Next, Renewing

RenewalMoves(t) ==
  \/ renewal'[t] = renewal[t]
  \/ renewal'[t] = None /\ (RenewalArrives(t) \/ RenewalFails(t))
  \/ renewal[t] = None /\ renewal'[t] = [token |-> refresh, pc |-> "sent"]
  \/ /\ ServeRenewal(t) /\ Live(renewal[t].token)
     /\ renewal'[t] = [token |-> Rotated(renewal[t].token), pc |-> "ok"]
  \/ /\ ServeRenewal(t) /\ ~Live(renewal[t].token)
     /\ renewal'[t] = [token |-> renewal[t].token, pc |-> "denied"]
  \/ /\ LoseRenewal(t)
     /\ renewal'[t] = [token |-> renewal[t].token, pc |-> "lost"]

LEMMA NextMovesRenewals ==
  ASSUME TypeInv, Next, NEW t \in Tabs
  PROVE  RenewalMoves(t)
  <1> USE SessionConstantsOK DEF TypeInv
  <1>1. renewal \in [Tabs -> RenewalRecs \cup {None}]
    BY DEF TypeOK
  <1>2. ASSUME NEW c \in Calls,
               \/ ServeAccepted(c) \/ ServeDenied(c) \/ ServeLogout(c) \/ ServeLogin(c)
               \/ RefuseLogin(c) \/ ForgotDelete(c) \/ ForgotCreate(c) \/ ResetCheck(c)
               \/ ResetCommit(c) \/ LoginArrives(c) \/ UserArrives(c) \/ LogoutArrives(c)
               \/ AnswerArrives(c) \/ CallFails(c) \/ Lose(c)
        PROVE  renewal' = renewal
    BY <1>2 DEF ServeAccepted, ServeDenied, ServeLogout, ServeLogin, RefuseLogin,
       ForgotDelete, ForgotCreate, ResetCheck, ResetCommit, LoginArrives, UserArrives,
       LogoutArrives, AnswerArrives, CallFails, Lose
  <1>3. ASSUME NEW c \in Calls, Boot(c) \/ Submit(c)
        PROVE  renewal' = renewal
    BY <1>3 DEF Boot, Submit, Begin
  <1>4. ASSUME NEW c \in Calls, Renew(c)
        PROVE  RenewalMoves(t)
    BY <1>1, <1>4 DEF Renew, RenewalMoves
  <1>5. ASSUME NEW u \in Tabs, ServeRenewal(u)
        PROVE  RenewalMoves(t)
    <2>1. CASE u = t
      <3>1. renewal[t] \in RenewalRecs
        BY <1>1, <1>5, <2>1 DEF ServeRenewal
      <3>2. CASE Live(renewal[t].token)
        BY <1>1, <1>5, <2>1, <3>2 DEF ServeRenewal, RenewalMoves
      <3>3. CASE ~Live(renewal[t].token)
        <4>1. renewal'[t] = [renewal[t] EXCEPT !.pc = "denied"]
          BY <1>1, <1>5, <2>1, <3>3 DEF ServeRenewal
        <4>2. renewal'[t] = [token |-> renewal[t].token, pc |-> "denied"]
          BY <3>1, <4>1 DEF RenewalRecs
        <4>. QED BY <1>5, <2>1, <3>3, <4>2 DEF RenewalMoves
      <3>. QED BY <3>2, <3>3
    <2>2. CASE u # t
      BY <1>1, <1>5, <2>2 DEF ServeRenewal, RenewalMoves
    <2>. QED BY <2>1, <2>2
  <1>6. ASSUME NEW u \in Tabs, RenewalArrives(u) \/ RenewalFails(u)
        PROVE  RenewalMoves(t)
    BY <1>1, <1>6 DEF RenewalArrives, RenewalFails, RenewalMoves
  <1>7. ASSUME NEW u \in Tabs, LoseRenewal(u)
        PROVE  RenewalMoves(t)
    <2>1. CASE u = t
      <3>1. renewal[t] \in RenewalRecs
        BY <1>1, <1>7, <2>1 DEF LoseRenewal
      <3>2. renewal'[t] = [renewal[t] EXCEPT !.pc = "lost"]
        BY <1>1, <1>7, <2>1 DEF LoseRenewal
      <3>3. renewal'[t] = [token |-> renewal[t].token, pc |-> "lost"]
        BY <3>1, <3>2 DEF RenewalRecs
      <3>. QED BY <1>7, <2>1, <3>3 DEF RenewalMoves
    <2>2. CASE u # t
      BY <1>1, <1>7, <2>2 DEF LoseRenewal, RenewalMoves
    <2>. QED BY <2>1, <2>2
  <1>8. CASE LinkExpires \/ AccessExpires \/ RefreshExpires \/ (\E u \in Tabs : Reload(u))
    BY <1>8 DEF LinkExpires, AccessExpires, RefreshExpires, Reload, RenewalMoves
  <1>. QED
    BY <1>2, <1>3, <1>4, <1>5, <1>6, <1>7, <1>8 DEF Next, Server, Arrives, Renewing,
       RenewalMoves

AccountMoves ==
  \/ UNCHANGED <<version, password, closed>>
  \/ version' = version /\ password' = password /\ closed' = FALSE
     /\ \E c \in Calls : ServeLogin(c)
  \/ version' = version + 1 /\ (closed' \/ (closed' = closed /\ password' = password))

LEMMA NextMovesAccount ==
  ASSUME Next
  PROVE  AccountMoves
  <1>1. ASSUME NEW c \in Calls, Server(c)
        PROVE  AccountMoves
    BY <1>1 DEF Server, ServeAccepted, ServeDenied, ServeLogout, ServeLogin, RefuseLogin,
       ForgotDelete, ForgotCreate, ResetCheck, ResetCommit, Revoke, account, history,
       AccountMoves
  <1>2. ASSUME NEW c \in Calls, Arrives(c) \/ Lose(c)
        PROVE  UNCHANGED <<version, password, closed>>
    BY <1>2 DEF Arrives, LoginArrives, UserArrives, LogoutArrives, AnswerArrives, Renew,
       CallFails, Lose, SetCookies, account, history
  <1>3. ASSUME NEW c \in Calls, Boot(c) \/ Submit(c)
        PROVE  UNCHANGED <<version, password, closed>>
    BY <1>3 DEF Boot, Submit, Begin, account, history
  <1>4. ASSUME NEW t \in Tabs, Renewing(t) \/ LoseRenewal(t) \/ Reload(t)
        PROVE  AccountMoves
    BY <1>4 DEF Renewing, ServeRenewal, RenewalArrives, RenewalFails, LoseRenewal, Reload,
       Revoke, SetCookies, account, history, AccountMoves
  <1>5. CASE LinkExpires \/ AccessExpires \/ RefreshExpires
    BY <1>5 DEF LinkExpires, AccessExpires, RefreshExpires, account, history, AccountMoves
  <1>. QED BY <1>1, <1>2, <1>3, <1>4, <1>5 DEF Next, AccountMoves

-----------------------------------------------------------------------------
(* Types.                                                                   *)

\* Every step keeps what answers carry.
LEMMA NextCarries ==
  ASSUME TypeInv, Next
  PROVE  AnswersCarryTokens'
  <1> USE SessionConstantsOK DEF TypeInv
  <1>1. ASSUME NEW c \in Calls, Is(c, "ok", {"login"})'
        PROVE  call'[c].token \in Tokens
    <2>1. Signed \in Tokens
      BY DEF Signed, Tokens, TypeOK
    <2>2. CallMoves(c)
      BY NextMovesCalls
    <2>. QED BY <1>1, <2>1, <2>2 DEF CallMoves, Keeps, Is, AnswersCarryTokens
  <1>2. ASSUME NEW c \in Calls, Is(c, "halfway", {"reset"})'
        PROVE  call'[c].link \in Links
    <2>1. CallMoves(c)
      BY NextMovesCalls
    <2>2. links \subseteq Links
      BY DEF TypeOK
    <2>. QED
      BY <1>2, <2>1, <2>2 DEF CallMoves, Keeps, Is, AnswersCarryTokens, ForgotDelete
  <1>3. ASSUME NEW t \in Tabs, renewal'[t] # None, renewal'[t].pc = "ok"
        PROVE  renewal'[t].token \in Tokens /\ renewal'[t].token.ver > 0
    <2>1. RenewalMoves(t)
      BY NextMovesRenewals
    <2>2. CASE renewal'[t] = renewal[t]
      BY <1>3, <2>2 DEF AnswersCarryTokens
    <2>3. CASE ServeRenewal(t) /\ Live(renewal[t].token)
               /\ renewal'[t] = [token |-> Rotated(renewal[t].token), pc |-> "ok"]
      <3>1. renewal[t].token \in Tokens
        BY <2>3 DEF ServeRenewal, Live, TypeOK, RenewalRecs
      <3>. QED BY <2>3, <3>1 DEF Rotated, Tokens
    <2>. QED BY <1>3, <2>1, <2>2, <2>3 DEF RenewalMoves
  <1>. QED BY <1>1, <1>2, <1>3 DEF AnswersCarryTokens, Is

\* The types of AuthSessions, and what answers carry, in every state.
THEOREM TypesCorrect == Spec => []TypeInv
  <1>1. Init => TypeInv
    <2>. SUFFICES ASSUME Init
                  PROVE  TypeInv
      OBVIOUS
    <2>1. access \in Tokens \cup {None} /\ refresh \in Tokens \cup {None}
          /\ closed \in BOOLEAN /\ fresh \subseteq Tabs
      <3>1. [ver |-> 0, pw |-> 0] \in Tokens
        BY DEF Tokens
      <3>2. access \in {None, [ver |-> 0, pw |-> 0]} /\ refresh = access
        BY DEF Init
      <3>3. closed \in BOOLEAN /\ (fresh = Tabs \/ fresh = {})
        BY DEF Init
      <3>. QED BY <3>1, <3>2, <3>3
    <2>2. /\ user \in [Tabs -> BOOLEAN] /\ call \in [Calls -> CallRecs \cup {None}]
          /\ renewal \in [Tabs -> RenewalRecs \cup {None}] /\ uses \in [Links -> Nat]
      BY DEF Init
    <2>3. version = 0 /\ by \in Seq(Tabs \cup {"server"}) /\ Len(by) = 0
      BY DEF Init
    <2>4. TypeOK
      BY SessionConstantsOK, <2>1, <2>2, <2>3 DEF Init, TypeOK
    <2>. QED BY <2>4 DEF Init, TypeInv, AnswersCarryTokens, Is
  <1>2. TypeInv /\ [Next]_vars => TypeInv'
    <2>1. ASSUME TypeInv, Next
          PROVE  TypeInv'
      BY <2>1, ServerTypes, CallTypes, TabTypes, NextCarries DEF Next, TypeInv
    <2>2. ASSUME TypeInv, UNCHANGED vars
          PROVE  TypeInv'
      BY <2>2 DEF TypeInv, TypeOK, AnswersCarryTokens, Is, vars, account, browser, history
    <2>. QED BY <2>1, <2>2
  <1>. QED BY <1>1, <1>2, PTL DEF Spec

-----------------------------------------------------------------------------
(* Tokens.                                                                  *)

LEMMA JarMoves ==
  ASSUME TypeInv, Next
  PROVE  {access', refresh'} \subseteq Circulating \cup {None}
  <1> USE DEF TypeInv
  <1>1. access \in Circulating \cup {None} /\ refresh \in Circulating \cup {None}
    BY DEF Circulating
  <1>2. ASSUME NEW c \in Calls, Server(c)
        PROVE  UNCHANGED <<access, refresh>>
    BY <1>2 DEF Server, ServeAccepted, ServeDenied, ServeLogout, ServeLogin, RefuseLogin,
       ForgotDelete, ForgotCreate, ResetCheck, ResetCommit, browser
  <1>3. ASSUME NEW c \in Calls, LoginArrives(c)
        PROVE  access' \in Circulating /\ refresh' \in Circulating
    <2>1. call[c].token \in Tokens /\ call[c] # None
      BY <1>3 DEF LoginArrives, Is, AnswersCarryTokens
    <2>2. call[c].token \in Circulating
      BY <2>1, NoneIsNothing DEF Circulating
    <2>. QED BY <1>3, <2>2 DEF LoginArrives, SetCookies
  <1>4. ASSUME NEW c \in Calls,
               \/ UserArrives(c) \/ LogoutArrives(c) \/ AnswerArrives(c) \/ Renew(c)
               \/ CallFails(c) \/ Lose(c)
        PROVE  access' \in {access, None} /\ refresh' \in {refresh, None}
    BY <1>4 DEF UserArrives, LogoutArrives, AnswerArrives, Renew, CallFails, Lose, browser
  <1>5. ASSUME NEW c \in Calls, Boot(c) \/ Submit(c)
        PROVE  UNCHANGED <<access, refresh>>
    BY <1>5 DEF Boot, Submit, Begin
  <1>6. ASSUME NEW t \in Tabs, RenewalArrives(t)
        PROVE  access' \in Circulating /\ refresh' \in Circulating
    <2>1. renewal[t].token \in Tokens /\ renewal[t] # None
      BY <1>6 DEF RenewalArrives, AnswersCarryTokens
    <2>2. renewal[t].token \in Circulating
      BY <2>1, NoneIsNothing DEF Circulating
    <2>. QED BY <1>6, <2>2 DEF RenewalArrives, SetCookies
  <1>7. ASSUME NEW t \in Tabs, ServeRenewal(t) \/ RenewalFails(t) \/ LoseRenewal(t) \/ Reload(t)
        PROVE  UNCHANGED <<access, refresh>>
    BY <1>7 DEF ServeRenewal, RenewalFails, LoseRenewal, Reload, browser
  <1>8. CASE LinkExpires \/ AccessExpires \/ RefreshExpires
    BY <1>1, <1>8 DEF LinkExpires, AccessExpires, RefreshExpires, browser
  <1>. QED
    BY <1>1, <1>2, <1>3, <1>4, <1>5, <1>6, <1>7, <1>8 DEF Next, Arrives, Renewing

\* A token that was not there is one a login signed or a refresh passed on.
LEMMA NewTokens ==
  ASSUME TypeInv, Next, NEW token \in Circulating'
  PROVE  \/ token \in Circulating
         \/ token = Signed /\ \E c \in Calls : ServeLogin(c)
         \/ \E t \in Tabs : /\ ServeRenewal(t) /\ Live(renewal[t].token)
                             /\ token = Rotated(renewal[t].token)
  <1> USE SessionConstantsOK DEF TypeInv
  <1>1. token # None
    BY DEF Circulating
  <1>2. CASE token \in {access', refresh'}
    BY <1>1, <1>2, JarMoves
  <1>3. ASSUME NEW c \in Calls, call'[c] # None, token = call'[c].token
        PROVE  token \in Circulating \/ (token = Signed /\ ServeLogin(c))
    <2>1. CallMoves(c) /\ TabOf[c] \in Tabs
      BY NextMovesCalls
    <2>2. CASE call[c] # None /\ token = call[c].token
      BY <1>1, <2>2 DEF Circulating
    <2>3. CASE token = access
      BY <1>1, <2>3 DEF Circulating
    <2>4. CASE RenewalArrives(TabOf[c]) /\ token = renewal[TabOf[c]].token
      BY <1>1, <2>1, <2>4 DEF Circulating, RenewalArrives
    <2>. QED BY <1>3, <2>1, <2>2, <2>3, <2>4 DEF CallMoves, Keeps, LoginArrives, Is
  <1>4. ASSUME NEW t \in Tabs, renewal'[t] # None, token = renewal'[t].token
        PROVE  \/ token \in Circulating
               \/ /\ ServeRenewal(t) /\ Live(renewal[t].token)
                  /\ token = Rotated(renewal[t].token)
    <2>1. RenewalMoves(t)
      BY NextMovesRenewals
    <2>2. CASE renewal[t] # None /\ token = renewal[t].token
      BY <1>1, <2>2 DEF Circulating
    <2>3. CASE token = refresh
      BY <1>1, <2>3 DEF Circulating
    <2>. QED BY <1>4, <2>1, <2>2, <2>3 DEF RenewalMoves, ServeRenewal, LoseRenewal
  <1>. QED BY <1>2, <1>3, <1>4 DEF Circulating

\* No token is ahead of the account, and one of its version goes back to a login
\* with the password of now that nothing has ended.
TokensInv ==
  \A token \in Circulating :
    /\ token \in Tokens /\ token.ver <= version
    /\ Live(token) => token.pw = password /\ ~closed

LEMMA NextTokens ==
  ASSUME TypeInv, TokensInv, Next
  PROVE  TokensInv'
  <1> USE DEF TypeInv
  <1>1. version \in Nat /\ password \in Nat /\ closed \in BOOLEAN
    BY DEF TypeOK
  <1>. SUFFICES ASSUME NEW token \in Circulating'
                PROVE  /\ token \in Tokens /\ token.ver <= version'
                       /\ Live(token)' => token.pw = password' /\ ~closed'
    BY DEF TokensInv, Live
  <1>2. AccountMoves
    BY NextMovesAccount
  <1>3. CASE token \in Circulating
    <2>1. token \in Tokens /\ token.ver <= version /\ token.ver \in Nat
          /\ (Live(token) => token.pw = password /\ ~closed)
      BY <1>3 DEF TokensInv, Tokens
    <2>. QED BY <1>1, <1>2, <2>1 DEF AccountMoves, Live
  <1>4. CASE token = Signed /\ \E c \in Calls : ServeLogin(c)
    <2>1. token \in Tokens /\ token.ver = version /\ token.pw = password
      BY <1>1, <1>4 DEF Signed, Tokens
    <2>2. version' = version /\ password' = password /\ closed' = FALSE
      BY <1>4 DEF ServeLogin, account
    <2>. QED BY <1>1, <2>1, <2>2
  <1>5. ASSUME NEW t \in Tabs, ServeRenewal(t), Live(renewal[t].token),
               token = Rotated(renewal[t].token)
        PROVE  /\ token \in Tokens /\ token.ver = version'
               /\ token.pw = password' /\ ~closed'
    <2>1. renewal[t].token \in Circulating
      BY <1>5 DEF Circulating, ServeRenewal, Live
    <2>2. /\ renewal[t].token \in Tokens /\ renewal[t].token.ver = version
          /\ renewal[t].token.pw = password /\ ~closed
      BY <1>5, <2>1 DEF TokensInv, Live
    <2>3. version' = version + 1 /\ UNCHANGED <<password, closed>>
      BY <1>5 DEF ServeRenewal, Revoke
    <2>. QED BY <1>1, <1>5, <2>2, <2>3 DEF Rotated, Tokens
  <1>6. version' \in Nat
    BY <1>1, <1>2 DEF AccountMoves
  <1>. QED BY <1>3, <1>4, <1>5, <1>6, NewTokens DEF Tokens

\* Whatever is in the cookie jar or on its way names a version given out by a
\* login or a rotation, and the live one carries the present password and no
\* logout since (auth-token.service.ts).
THEOREM TokensCorrect == Spec => []TokensInv
  <1>1. Init => TokensInv
    BY DEF Init, TokensInv, Circulating, Tokens, Live
  <1>2. TypeInv /\ TokensInv /\ [Next]_vars => TokensInv'
    <2>1. ASSUME TokensInv, UNCHANGED vars
          PROVE  TokensInv'
      BY <2>1 DEF TokensInv, Circulating, Live, vars, account, browser, history
    <2>. QED BY <2>1, NextTokens
  <1>. QED BY <1>1, <1>2, TypesCorrect, PTL DEF Spec

\* Nobody who logged in with an old password keeps a token that opens the
\* account.
THEOREM PasswordEndsSessions == Spec => []SessionsKnowThePassword
  <1>1. TokensInv => SessionsKnowThePassword
    BY DEF TokensInv, SessionsKnowThePassword
  <1>. QED BY <1>1, TokensCorrect, PTL

\* After a logout or a reset no token opens the account until the next login.
THEOREM LogoutEndsSessions == Spec => []LoggedOutUntilLogin
  <1>1. TokensInv => LoggedOutUntilLogin
    BY DEF TokensInv, LoggedOutUntilLogin
  <1>. QED BY <1>1, TokensCorrect, PTL

\* No call waits for a refresh that is not under way.
THEOREM WaitingIsAnswered == Spec => []NobodyWaitsForNothing
  <1>1. Init => NobodyWaitsForNothing
    BY DEF Init, NobodyWaitsForNothing
  <1>2. TypeInv /\ NobodyWaitsForNothing /\ [Next]_vars => NobodyWaitsForNothing'
    <2>1. ASSUME TypeInv, NobodyWaitsForNothing, Next, NEW c \in Calls,
                 call'[c] # None, call'[c].pc = "waiting", renewal'[TabOf[c]] = None
          PROVE  FALSE
      <3>1. CallMoves(c) /\ TabOf[c] \in Tabs
        BY <2>1, NextMovesCalls, SessionConstantsOK
      <3>2. RenewalMoves(TabOf[c])
        BY <2>1, <3>1, NextMovesRenewals
      <3>3. renewal \in [Tabs -> RenewalRecs \cup {None}]
        BY <2>1 DEF TypeInv, TypeOK
      <3>4. CASE Renew(c)
        <4>1. [token |-> refresh, pc |-> "sent"] \in RenewalRecs
          BY <2>1 DEF RenewalRecs, TypeInv, TypeOK
        <4>. QED BY <2>1, <3>1, <3>3, <3>4, <4>1, NoneIsNothing DEF Renew
      <3>5. CASE call'[c] = call[c]
        <4>1. renewal[TabOf[c]] # None /\ call[c].pc = "waiting" /\ call[c] # None
          BY <2>1, <3>5 DEF NobodyWaitsForNothing
        <4>2. RenewalArrives(TabOf[c]) \/ RenewalFails(TabOf[c])
          <5>1. renewal[TabOf[c]] \in RenewalRecs
            BY <3>1, <3>3, <4>1
          <5>2. renewal[TabOf[c]].token \in Tokens \cup {None}
            BY <5>1 DEF RenewalRecs
          <5>3. \A pc \in {"denied", "lost"} :
                  [token |-> renewal[TabOf[c]].token, pc |-> pc] \in RenewalRecs
            BY <5>2 DEF RenewalRecs
          <5>4. Live(renewal[TabOf[c]].token) =>
                  [token |-> Rotated(renewal[TabOf[c]].token), pc |-> "ok"] \in RenewalRecs
            BY <5>2 DEF RenewalRecs, Rotated, Tokens, Live
          <5>. QED BY <2>1, <3>2, <4>1, <5>3, <5>4, NoneIsNothing DEF RenewalMoves
        <4>3. c \in Waiting(TabOf[c])
          BY <4>1 DEF Waiting, CallsOf
        <4>4. call[c] \in CallRecs
          BY <2>1, <4>1 DEF TypeInv, TypeOK
        <4>5. CASE RenewalArrives(TabOf[c])
          <5>1. call'[c].pc = "sent"
            BY <4>3, <4>4, <4>5 DEF RenewalArrives, CallRecs
          <5>. QED BY <2>1, <5>1
        <4>6. CASE RenewalFails(TabOf[c])
          BY <2>1, <4>3, <4>6 DEF RenewalFails, Expired
        <4>. QED BY <4>2, <4>5, <4>6
      <3>. QED BY <2>1, <3>1, <3>4, <3>5 DEF CallMoves
    <2>2. ASSUME NobodyWaitsForNothing, UNCHANGED vars
          PROVE  NobodyWaitsForNothing'
      BY <2>2 DEF NobodyWaitsForNothing, vars
    <2>. QED BY <2>1, <2>2 DEF NobodyWaitsForNothing
  <1>. QED BY <1>1, <1>2, TypesCorrect, PTL DEF Spec

-----------------------------------------------------------------------------
(* Reset links.                                                             *)

Halfway(c, kind) == Is(c, "halfway", {kind})

LinksInv ==
  /\ \A c \in Calls : Halfway(c, "forgot") /\ links # {} => 0 \in crossed
  /\ \A c, d \in Calls : c # d /\ Halfway(c, "forgot") /\ Halfway(d, "forgot")
                         => 0 \in crossed
  /\ \A k, l \in links : k # l => 0 \in crossed
  /\ \A c \in Calls : Halfway(c, "reset") =>
       /\ call[c].link \in mailed
       /\ uses[call[c].link] > 0 => call[c].link \in crossed
  /\ \A c, d \in Calls :
       c # d /\ Halfway(c, "reset") /\ Halfway(d, "reset") /\ call[c].link = call[d].link
         => call[c].link \in crossed
  /\ \A l \in Links : /\ uses[l] > 0 => l \in mailed /\ l \notin links
                      /\ uses[l] > 1 => l \in crossed

\* What steps do to the links and to what is remembered of them.
LinksRest ==
  links' \subseteq links /\ mailed' = mailed /\ uses' = uses /\ crossed \subseteq crossed'

LinkCreated(b) ==
  /\ Halfway(b, "forgot") /\ ~Halfway(b, "forgot")'
  /\ uses' = uses /\ crossed' = crossed
  /\ \E l \in Links \ mailed : links' = links \cup {l} /\ mailed' = mailed \cup {l}

LinkUsed(b) ==
  /\ Halfway(b, "reset") /\ ~Halfway(b, "reset")'
  /\ links' = {} /\ mailed' = mailed /\ crossed' = crossed
  /\ uses' = [uses EXCEPT ![call[b].link] = uses[call[b].link] + 1]

LEMMA NextMovesLinks ==
  ASSUME TypeInv, Next
  PROVE  LinksRest \/ \E c \in Calls : LinkCreated(c) \/ LinkUsed(c)
  <1>1. ASSUME NEW c \in Calls,
               \/ ServeAccepted(c) \/ ServeDenied(c) \/ ServeLogout(c) \/ ServeLogin(c)
               \/ RefuseLogin(c) \/ Arrives(c) \/ Lose(c)
        PROVE  LinksRest
    BY <1>1 DEF ServeAccepted, ServeDenied, ServeLogout, ServeLogin, RefuseLogin, Arrives,
       LoginArrives, UserArrives, LogoutArrives, AnswerArrives, Renew, CallFails, Lose,
       account, history, LinksRest
  <1>2. ASSUME NEW c \in Calls, Boot(c) \/ Submit(c)
        PROVE  LinksRest
    BY <1>2 DEF Boot, Submit, Begin, account, history, LinksRest
  <1>3. ASSUME NEW t \in Tabs, Renewing(t) \/ LoseRenewal(t) \/ Reload(t)
        PROVE  LinksRest
    BY <1>3 DEF Renewing, ServeRenewal, RenewalArrives, RenewalFails, LoseRenewal, Reload,
       account, history, LinksRest
  <1>4. CASE LinkExpires \/ AccessExpires \/ RefreshExpires
    BY <1>4 DEF LinkExpires, AccessExpires, RefreshExpires, account, history, LinksRest
  <1>5. ASSUME NEW c \in Calls, ForgotDelete(c) \/ ResetCheck(c)
        PROVE  LinksRest
    BY <1>5 DEF ForgotDelete, ResetCheck, account, LinksRest
  <1>6. ASSUME NEW c \in Calls, call[c] # None, Goto(c, "ok")
        PROVE  call'[c].pc = "ok"
    <2>1. call[c] \in CallRecs /\ call \in [Calls -> CallRecs \cup {None}]
      BY <1>6 DEF TypeInv, TypeOK
    <2>2. call'[c] = [call[c] EXCEPT !.pc = "ok"]
      BY <1>6, <2>1 DEF Goto
    <2>. QED BY <2>1, <2>2 DEF CallRecs
  <1>7. ASSUME NEW c \in Calls, ForgotCreate(c)
        PROVE  LinkCreated(c)
    BY <1>6, <1>7 DEF ForgotCreate, LinkCreated, Halfway, Is, history
  <1>8. ASSUME NEW c \in Calls, ResetCommit(c)
        PROVE  LinkUsed(c)
    BY <1>6, <1>8 DEF ResetCommit, LinkUsed, Halfway, Is
  <1>. QED BY <1>1, <1>2, <1>3, <1>4, <1>5, <1>7, <1>8 DEF Next, Server

\* A call halfway was so before, or has just made the first of its two steps.
LEMMA HalfwayBefore ==
  ASSUME TypeInv, Next, NEW c \in Calls
  PROVE  /\ Halfway(c, "forgot")' => Halfway(c, "forgot") \/ ForgotDelete(c)
         /\ Halfway(c, "reset")' =>
              /\ call'[c].link = call[c].link /\ call[c] # None
              /\ \/ Halfway(c, "reset")
                 \/ ResetCheck(c) /\ call[c].link \in links
  <1>1. CallMoves(c)
    BY NextMovesCalls
  <1>2. ASSUME call'[c] # None, call'[c].pc = "halfway"
        PROVE  \/ call'[c] = call[c]
               \/ Keeps(c) /\ ForgotDelete(c)
               \/ Keeps(c) /\ ResetCheck(c) /\ call[c].link \in links
    BY <1>1, <1>2 DEF CallMoves
  <1>3. ForgotDelete(c) => call[c].kind = "forgot"
    BY DEF ForgotDelete, Is
  <1>4. ResetCheck(c) => call[c].kind = "reset"
    BY DEF ResetCheck, Is
  <1>. QED BY <1>2, <1>3, <1>4 DEF Halfway, Is, Keeps

\* Two calls cannot both begin their first step in one step of the program.
LEMMA OneCheck ==
  ASSUME TypeInv, NEW c \in Calls, NEW d \in Calls, c # d,
         (ForgotDelete(c) \/ ResetCheck(c)) /\ (ForgotDelete(d) \/ ResetCheck(d))
  PROVE  ~Is(d, "halfway", Kinds)'
  <1>1. call \in [Calls -> CallRecs \cup {None}]
    BY DEF TypeInv, TypeOK
  <1>2. call'[d] = call[d]
    BY <1>1 DEF ForgotDelete, ResetCheck, Goto
  <1>3. call[d].pc = "sent"
    BY DEF ForgotDelete, ResetCheck, Is
  <1>. QED BY <1>2, <1>3 DEF Is

LEMMA NextLinks ==
  ASSUME TypeInv, LinksInv, Next
  PROVE  LinksInv'
  <1> USE SessionConstantsOK DEF TypeInv
  <1>1. /\ links \subseteq mailed /\ mailed \subseteq Links /\ uses \in [Links -> Nat]
        /\ \A c \in Calls : Halfway(c, "reset") => call[c].link \in Links
    BY DEF TypeOK, AnswersCarryTokens, Halfway
  <1>2. LinksRest \/ \E c \in Calls : LinkCreated(c) \/ LinkUsed(c)
    BY NextMovesLinks
  <1>3. crossed \subseteq crossed' /\ mailed \subseteq mailed'
    BY <1>2 DEF LinksRest, LinkCreated, LinkUsed
  <1>4. ASSUME NEW c \in Calls, Halfway(c, "forgot")', links' # {}
        PROVE  0 \in crossed'
    <2>1. Halfway(c, "forgot")
      <3>1. ~ForgotDelete(c)
        BY <1>4 DEF ForgotDelete
      <3>. QED BY <1>4, <3>1, HalfwayBefore
    <2>. QED BY <1>2, <1>3, <1>4, <2>1 DEF LinksInv, LinksRest, LinkCreated, LinkUsed
  <1>5. ASSUME NEW c \in Calls, NEW d \in Calls, c # d,
               Halfway(c, "forgot")', Halfway(d, "forgot")'
        PROVE  0 \in crossed'
    <2>1. /\ Halfway(c, "forgot") \/ ForgotDelete(c)
          /\ Halfway(d, "forgot") \/ ForgotDelete(d)
      BY <1>5, HalfwayBefore
    <2>2. CASE Halfway(c, "forgot") /\ Halfway(d, "forgot")
      BY <1>3, <1>5, <2>2 DEF LinksInv
    <2>3. CASE ForgotDelete(c) /\ Halfway(d, "forgot")
      BY <2>3 DEF ForgotDelete, Halfway
    <2>4. CASE Halfway(c, "forgot") /\ ForgotDelete(d)
      BY <2>4 DEF ForgotDelete, Halfway
    <2>5. CASE ForgotDelete(c) /\ ForgotDelete(d)
      BY <1>5, <2>5, OneCheck DEF Halfway, Is, Kinds
    <2>. QED BY <2>1, <2>2, <2>3, <2>4, <2>5
  <1>6. ASSUME NEW k \in links', NEW l \in links', k # l
        PROVE  0 \in crossed'
    BY <1>2, <1>3, <1>6 DEF LinksInv, LinksRest, LinkCreated, LinkUsed
  <1>7. ASSUME NEW c \in Calls, Halfway(c, "reset")'
        PROVE  /\ call'[c].link \in mailed'
               /\ uses'[call'[c].link] > 0 => call'[c].link \in crossed'
    <2>1. call'[c].link = call[c].link
      BY <1>7, HalfwayBefore
    <2>2. CASE Halfway(c, "reset")
      <3>1. call[c].link \in mailed /\ (uses[call[c].link] > 0 => call[c].link \in crossed)
        BY <2>2 DEF LinksInv
      <3>2. ASSUME NEW b \in Calls, LinkUsed(b)
            PROVE  uses'[call[c].link] > 0 => call[c].link \in crossed
        <4>1. CASE call[b].link = call[c].link
          BY <1>7, <2>2, <3>2, <4>1 DEF LinkUsed, LinksInv
        <4>2. CASE call[b].link # call[c].link
          BY <1>1, <2>2, <3>1, <3>2, <4>2 DEF LinkUsed
        <4>. QED BY <4>1, <4>2
      <3>. QED BY <1>2, <1>3, <2>1, <3>1, <3>2 DEF LinksRest, LinkCreated
    <2>3. CASE ResetCheck(c) /\ call[c].link \in links
      <3>1. uses' = uses /\ call[c].link \in mailed /\ call[c].link \in Links
        BY <1>1, <2>3 DEF ResetCheck
      <3>2. ~(uses[call[c].link] > 0)
        BY <2>3, <3>1 DEF LinksInv
      <3>. QED BY <1>3, <2>1, <3>1, <3>2
    <2>. QED BY <1>7, <2>2, <2>3, HalfwayBefore
  <1>8. ASSUME NEW c \in Calls, NEW d \in Calls, c # d, Halfway(c, "reset")',
               Halfway(d, "reset")', call'[c].link = call'[d].link
        PROVE  call'[c].link \in crossed'
    <2>1. /\ call'[c].link = call[c].link /\ call'[d].link = call[d].link
          /\ Halfway(c, "reset") \/ ResetCheck(c)
          /\ Halfway(d, "reset") \/ ResetCheck(d)
      BY <1>8, HalfwayBefore
    <2>2. CASE Halfway(c, "reset") /\ Halfway(d, "reset")
      BY <1>3, <1>8, <2>1, <2>2 DEF LinksInv
    <2>3. CASE ResetCheck(c) /\ Halfway(d, "reset")
      BY <1>8, <2>1, <2>3 DEF ResetCheck, Halfway
    <2>4. CASE Halfway(c, "reset") /\ ResetCheck(d)
      BY <1>8, <2>1, <2>4 DEF ResetCheck, Halfway
    <2>5. CASE ResetCheck(c) /\ ResetCheck(d)
      BY <1>8, <2>5, OneCheck DEF Halfway, Is, Kinds
    <2>. QED BY <2>1, <2>2, <2>3, <2>4, <2>5
  <1>9. ASSUME NEW l \in Links
        PROVE  /\ uses'[l] > 0 => l \in mailed' /\ l \notin links'
               /\ uses'[l] > 1 => l \in crossed'
    <2>1. /\ uses[l] > 0 => l \in mailed /\ l \notin links
          /\ uses[l] > 1 => l \in crossed
      BY DEF LinksInv
    <2>2. ASSUME NEW b \in Calls, LinkUsed(b)
          PROVE  /\ uses'[l] > 0 => l \in mailed' /\ l \notin links'
                 /\ uses'[l] > 1 => l \in crossed'
      <3>1. CASE call[b].link = l
        <4>1. uses'[l] = uses[l] + 1 /\ uses[l] \in Nat
          BY <1>1, <2>2, <3>1 DEF LinkUsed
        <4>2. l \in mailed /\ (uses[l] > 0 => l \in crossed)
          BY <2>2, <3>1 DEF LinkUsed, LinksInv
        <4>. QED BY <2>2, <4>1, <4>2 DEF LinkUsed
      <3>2. CASE call[b].link # l
        BY <1>1, <2>1, <2>2, <3>2 DEF LinkUsed
      <3>. QED BY <3>1, <3>2
    <2>. QED BY <1>2, <1>3, <2>1, <2>2 DEF LinksRest, LinkCreated
  <1>. QED
    BY <1>4, <1>5, <1>6, <1>7, <1>8, <1>9 DEF LinksInv, Halfway, Is

\* A link sets one password and only the last one asked for is good, unless two
\* requests passed the same statement before either went on.
THEOREM LinksAreGoodOnce == Spec => []LinksWorkOnce
  <1>1. Init => LinksInv
    BY DEF Init, LinksInv, Halfway, Is
  <1>2. TypeInv /\ LinksInv /\ [Next]_vars => LinksInv'
    <2>1. ASSUME LinksInv, UNCHANGED vars
          PROVE  LinksInv'
      BY <2>1 DEF LinksInv, Halfway, Is, vars, account, history
    <2>. QED BY <2>1, NextLinks
  <1>3. LinksInv => LinksWorkOnce
    <2>1. ASSUME LinksInv, 0 \notin crossed
          PROVE  ~(Cardinality(links) > 1)
      <3>1. CASE links = {}
        BY <3>1, FS_EmptySet
      <3>2. ASSUME NEW l \in links
            PROVE  Cardinality(links) = 1
        <4>1. links = {l}
          BY <2>1, <3>2 DEF LinksInv
        <4>. QED BY <4>1, FS_Singleton
      <3>. QED BY <3>1, <3>2
    <2>. QED BY <2>1 DEF LinksInv, LinksWorkOnce
  <1>. QED BY <1>1, <1>2, <1>3, TypesCorrect, PTL DEF Spec

-----------------------------------------------------------------------------
(* Refused refreshes.                                                       *)

\* A version a tab ended itself, with the answer that carries the next one
\* neither lost nor late.
EndedBy(t, v) == v < version /\ by[v + 1] = t /\ v \notin excused

\* Of such a version the jar keeps the token only until the tab has its answer,
\* and the tab never asks with it again.
RefusalInv ==
  \A t \in Tabs :
    /\ \A v \in Nat : EndedBy(t, v) =>
         /\ \/ refresh = None \/ refresh.ver # v
            \/ renewal[t] # None /\ renewal[t].pc = "ok" /\ renewal[t].token.ver = v + 1
         /\ renewal[t] # None /\ renewal[t].token # None => renewal[t].token.ver # v
    /\ (renewal[t] # None /\ renewal[t].pc = "denied" /\ renewal[t].token # None)
         => renewal[t].token.ver < version

\* The versions move on by one at a time, and each is ended by a tab's refresh
\* or by the server.
Ended ==
  /\ version' = version + 1
  /\ \/ by' = Append(by, "server") /\ renewal' = renewal
     \/ \E t \in Tabs : ServeRenewal(t) /\ Live(renewal[t].token) /\ by' = Append(by, t)

LEMMA NextEnds ==
  ASSUME Next
  PROVE  Ended \/ UNCHANGED <<version, by>>
  <1>1. ASSUME NEW c \in Calls, Server(c)
        PROVE  Ended \/ UNCHANGED <<version, by>>
    BY <1>1 DEF Server, ServeAccepted, ServeDenied, ServeLogout, ServeLogin, RefuseLogin,
       ForgotDelete, ForgotCreate, ResetCheck, ResetCommit, Revoke, account, history, Ended
  <1>2. ASSUME NEW c \in Calls, Arrives(c) \/ Lose(c)
        PROVE  UNCHANGED <<version, by>>
    BY <1>2 DEF Arrives, LoginArrives, UserArrives, LogoutArrives, AnswerArrives, Renew,
       CallFails, Lose, SetCookies, account, history
  <1>3. ASSUME NEW c \in Calls, Boot(c) \/ Submit(c)
        PROVE  UNCHANGED <<version, by>>
    BY <1>3 DEF Boot, Submit, Begin, account, history
  <1>4. ASSUME NEW t \in Tabs, ServeRenewal(t)
        PROVE  Ended \/ UNCHANGED <<version, by>>
    BY <1>4 DEF ServeRenewal, Revoke, Ended
  <1>5. ASSUME NEW t \in Tabs, \/ RenewalArrives(t) \/ RenewalFails(t) \/ LoseRenewal(t)
                               \/ Reload(t)
        PROVE  UNCHANGED <<version, by>>
    BY <1>5 DEF RenewalArrives, RenewalFails, LoseRenewal, Reload, SetCookies, account,
       history
  <1>6. CASE LinkExpires \/ AccessExpires \/ RefreshExpires
    BY <1>6 DEF LinkExpires, AccessExpires, RefreshExpires, account, history
  <1>. QED BY <1>1, <1>2, <1>3, <1>4, <1>5, <1>6 DEF Next, Renewing

\* The refresh cookie stays, goes, or is replaced by an answer; one that comes
\* late is excused.
LEMMA RefreshMoves ==
  ASSUME TypeInv, Next
  PROVE  /\ excused \subseteq excused'
         /\ \/ refresh' \in {None, refresh}
            \/ /\ version' = version /\ refresh' \in Tokens
               /\ ~Live(refresh') => refresh'.ver \in excused'
  <1>1. ASSUME NEW token \in Tokens, SetCookies(token), version' = version
        PROVE  /\ excused \subseteq excused' /\ refresh' = token
               /\ ~Live(token) => token.ver \in excused'
    BY <1>1 DEF SetCookies
  <1>2. ASSUME NEW c \in Calls, LoginArrives(c)
        PROVE  call[c].token \in Tokens /\ SetCookies(call[c].token) /\ version' = version
    BY <1>2 DEF LoginArrives, AnswersCarryTokens, TypeInv, account
  <1>3. ASSUME NEW t \in Tabs, RenewalArrives(t)
        PROVE  /\ renewal[t].token \in Tokens /\ SetCookies(renewal[t].token)
               /\ version' = version
    BY <1>3 DEF RenewalArrives, AnswersCarryTokens, TypeInv, account
  <1>4. ASSUME NEW c \in Calls, Server(c)
        PROVE  UNCHANGED <<refresh, excused>>
    BY <1>4 DEF Server, ServeAccepted, ServeDenied, ServeLogout, ServeLogin, RefuseLogin,
       ForgotDelete, ForgotCreate, ResetCheck, ResetCommit, browser, history
  <1>5. ASSUME NEW c \in Calls,
               \/ UserArrives(c) \/ LogoutArrives(c) \/ AnswerArrives(c) \/ Renew(c)
               \/ CallFails(c) \/ Lose(c)
        PROVE  refresh' \in {None, refresh} /\ excused' = excused
    BY <1>5 DEF UserArrives, LogoutArrives, AnswerArrives, Renew, CallFails, Lose, browser,
       history
  <1>6. ASSUME NEW c \in Calls, Boot(c) \/ Submit(c)
        PROVE  UNCHANGED <<refresh, excused>>
    BY <1>6 DEF Boot, Submit, Begin, history
  <1>7. ASSUME NEW t \in Tabs, ServeRenewal(t) \/ RenewalFails(t) \/ LoseRenewal(t) \/ Reload(t)
        PROVE  refresh' = refresh /\ excused \subseteq excused'
    BY <1>7 DEF ServeRenewal, RenewalFails, LoseRenewal, Reload, browser, history
  <1>8. CASE LinkExpires \/ AccessExpires \/ RefreshExpires
    BY <1>8 DEF LinkExpires, AccessExpires, RefreshExpires, browser, history
  <1>. QED
    BY <1>1, <1>2, <1>3, <1>4, <1>5, <1>6, <1>7, <1>8 DEF Next, Arrives, Renewing

LEMMA NextRefusals ==
  ASSUME TypeInv, TokensInv, RefusalInv, Next
  PROVE  RefusalInv'
  <1> USE SessionConstantsOK, NoneIsNothing
  <1>1. /\ version \in Nat /\ by \in Seq(Tabs \cup {"server"}) /\ Len(by) = version
        /\ refresh \in Tokens \cup {None}
        /\ renewal \in [Tabs -> RenewalRecs \cup {None}]
    BY DEF TypeInv, TypeOK
  <1>2. ASSUME NEW t \in Tabs, renewal[t] # None
        PROVE  /\ renewal[t].token \in Tokens \cup {None}
               /\ renewal[t].token # None =>
                    renewal[t].token.ver \in Nat /\ renewal[t].token.ver <= version
    <2>1. renewal[t].token \in Tokens \cup {None}
      BY <1>1, <1>2 DEF RenewalRecs
    <2>2. renewal[t].token # None => renewal[t].token \in Circulating
      BY <1>2 DEF Circulating
    <2>. QED BY <2>1, <2>2 DEF TokensInv, Tokens
  <1>3. refresh # None => refresh.ver \in Nat /\ refresh.ver <= version
    BY <1>1 DEF Circulating, TokensInv, Tokens
  <1>4. Ended \/ UNCHANGED <<version, by>>
    BY NextEnds
  <1>5. ASSUME NEW t \in Tabs, NEW v \in Nat, EndedBy(t, v)'
        PROVE  \/ EndedBy(t, v)
               \/ v = version /\ ServeRenewal(t) /\ Live(renewal[t].token)
    <2>1. v \notin excused
      BY <1>5, RefreshMoves DEF EndedBy
    <2>2. CASE UNCHANGED <<version, by>>
      BY <1>5, <2>1, <2>2 DEF EndedBy
    <2>3. CASE Ended
      <3>1. PICK who \in Tabs \cup {"server"} :
              /\ version' = version + 1 /\ by' = Append(by, who)
              /\ who \in Tabs => ServeRenewal(who) /\ Live(renewal[who].token)
        BY <2>3 DEF Ended
      <3>2. /\ \A i \in 1..version : by'[i] = by[i]
            /\ by'[version + 1] = who
        BY <1>1, <3>1
      <3>3. v < version + 1 /\ by'[v + 1] = t
        BY <1>5, <3>1 DEF EndedBy
      <3>4. CASE v < version
        <4>1. by[v + 1] = t
          BY <1>1, <3>2, <3>3, <3>4
        <4>. QED BY <2>1, <3>4, <4>1 DEF EndedBy
      <3>5. CASE v = version
        BY <3>1, <3>2, <3>3, <3>5
      <3>. QED BY <1>1, <3>3, <3>4, <3>5
    <2>. QED BY <1>4, <2>2, <2>3
  <1>6. ASSUME NEW t \in Tabs, ServeRenewal(t), Live(renewal[t].token)
        PROVE  /\ renewal'[t].pc = "ok" /\ renewal'[t].token.ver = version + 1
               /\ renewal'[t] # None /\ version' = version + 1
    <2>1. /\ renewal'[t] = [token |-> Rotated(renewal[t].token), pc |-> "ok"]
          /\ version' = version + 1
      BY <1>1, <1>6 DEF ServeRenewal, Revoke
    <2>2. renewal[t].token \in Tokens /\ renewal[t].token.ver = version
      BY <1>2, <1>6 DEF Live, ServeRenewal
    <2>3. renewal'[t] \in RenewalRecs
      BY <2>1, <2>2 DEF Rotated, RenewalRecs, Tokens
    <2>. QED BY <2>1, <2>2, <2>3 DEF Rotated
  <1>7. ASSUME NEW t \in Tabs, NEW v \in Nat, EndedBy(t, v)'
        PROVE  \/ refresh' = None \/ refresh'.ver # v
               \/ /\ renewal'[t] # None /\ renewal'[t].pc = "ok"
                  /\ renewal'[t].token.ver = v + 1
    <2>1. CASE v = version /\ ServeRenewal(t) /\ Live(renewal[t].token)
      BY <1>6, <2>1
    <2>2. CASE EndedBy(t, v) /\ refresh' = refresh /\ refresh # None /\ refresh.ver = v
      <3>1. renewal[t] # None /\ renewal[t].pc = "ok" /\ renewal[t].token.ver = v + 1
        BY <2>2 DEF RefusalInv
      <3>2. RenewalMoves(t)
        BY NextMovesRenewals
      <3>3. ~RenewalArrives(t)
        <4>1. RenewalArrives(t) => refresh' = renewal[t].token
          BY DEF RenewalArrives, SetCookies
        <4>2. v + 1 # v
          OBVIOUS
        <4>. QED BY <2>2, <3>1, <4>1, <4>2
      <3>4. ~LoseRenewal(t)
        <4>1. LoseRenewal(t) => v \in excused'
          BY <3>1 DEF LoseRenewal
        <4>. QED BY <1>7, <4>1 DEF EndedBy
      <3>5. ~ServeRenewal(t) /\ ~RenewalFails(t)
        BY <3>1 DEF ServeRenewal, RenewalFails
      <3>. QED BY <3>1, <3>2, <3>3, <3>4, <3>5 DEF RenewalMoves
    <2>3. CASE /\ EndedBy(t, v) /\ version' = version /\ refresh' \in Tokens
               /\ ~Live(refresh') => refresh'.ver \in excused'
      BY <1>1, <1>7, <2>3 DEF EndedBy, Live
    <2>. QED BY <1>5, <1>7, <2>1, <2>2, <2>3, RefreshMoves
  <1>8. ASSUME NEW t \in Tabs, NEW v \in Nat, EndedBy(t, v)',
               renewal'[t] # None, renewal'[t].token # None
        PROVE  renewal'[t].token.ver # v
    <2>1. CASE ServeRenewal(t) /\ Live(renewal[t].token)
      <3>1. renewal'[t].token.ver = version + 1 /\ v < version + 1
        BY <1>6, <1>8, <2>1 DEF EndedBy
      <3>. QED BY <1>1, <3>1
    <2>2. CASE EndedBy(t, v) /\ ~(ServeRenewal(t) /\ Live(renewal[t].token))
      <3>1. RenewalMoves(t)
        BY NextMovesRenewals
      <3>2. renewal[t] # None /\ renewal[t].token # None => renewal[t].token.ver # v
        BY <2>2 DEF RefusalInv
      <3>3. CASE renewal[t] = None /\ renewal'[t] = [token |-> refresh, pc |-> "sent"]
        BY <1>8, <2>2, <3>3 DEF RefusalInv
      <3>. QED BY <1>8, <2>2, <3>1, <3>2, <3>3 DEF RenewalMoves, ServeRenewal, LoseRenewal
    <2>. QED BY <1>5, <1>8, <2>1, <2>2
  <1>9. ASSUME NEW t \in Tabs, renewal'[t] # None, renewal'[t].pc = "denied",
               renewal'[t].token # None
        PROVE  renewal'[t].token.ver < version'
    <2>1. RenewalMoves(t)
      BY NextMovesRenewals
    <2>2. version' = version \/ version' = version + 1
      BY <1>4 DEF Ended
    <2>3. CASE renewal'[t] = renewal[t]
      <3>1. renewal[t].token.ver \in Nat /\ renewal[t].token.ver < version
        BY <1>2, <1>9, <2>3 DEF RefusalInv
      <3>. QED BY <1>1, <2>2, <2>3, <3>1
    <2>4. CASE /\ ServeRenewal(t) /\ ~Live(renewal[t].token)
               /\ renewal'[t] = [token |-> renewal[t].token, pc |-> "denied"]
      <3>1. /\ renewal[t].token.ver \in Nat /\ renewal[t].token.ver <= version
            /\ renewal[t].token.ver # version /\ renewal'[t].token = renewal[t].token
        BY <1>2, <1>9, <2>4 DEF Live, ServeRenewal
      <3>. QED BY <1>1, <2>2, <3>1
    <2>. QED BY <1>9, <2>1, <2>3, <2>4 DEF RenewalMoves
  <1>. QED BY <1>7, <1>8, <1>9 DEF RefusalInv, EndedBy

\* A tab is refused a refresh only for what others did or for an answer it did
\* not get in time.
THEOREM RefusalsAreExplained == Spec => []RefusalHasCause
  <1>1. Init => RefusalInv
    BY DEF Init, RefusalInv, EndedBy
  <1>2. TypeInv /\ TokensInv /\ RefusalInv /\ [Next]_vars => RefusalInv'
    <2>1. ASSUME RefusalInv, UNCHANGED vars
          PROVE  RefusalInv'
      BY <2>1 DEF RefusalInv, EndedBy, vars, account, browser, history
    <2>. QED BY <2>1, NextRefusals
  <1>3. TypeInv /\ TokensInv /\ RefusalInv => RefusalHasCause
    <2>. SUFFICES ASSUME TypeInv, TokensInv, RefusalInv, NEW t \in Tabs, renewal[t] # None,
                         renewal[t].pc = "denied", renewal[t].token # None,
                         renewal[t].token.ver \notin excused
                  PROVE  by[renewal[t].token.ver + 1] # t
      BY DEF RefusalHasCause
    <2>1. renewal[t].token \in Circulating
      BY DEF Circulating
    <2>2. renewal[t].token.ver \in Nat
      BY <2>1 DEF TokensInv, Tokens
    <2>3. renewal[t].token.ver < version
      BY DEF RefusalInv
    <2>. QED BY <2>2, <2>3 DEF RefusalInv, EndedBy
  <1>. QED BY <1>1, <1>2, <1>3, TypesCorrect, TokensCorrect, PTL DEF Spec

-----------------------------------------------------------------------------
(* Sign-outs.                                                               *)

\* A tab being loaded has no calls and shows nobody; a boot still under way in a
\* tab that shows a user was overtaken.
BootInv ==
  \A t \in Tabs :
    /\ t \in fresh => ~user[t] /\ CallsOf(t) = {}
    /\ user[t] => \A c \in CallsOf(t) : call[c].kind = "boot" => t \in overtook

\* What a step does to what a tab shows.
TabMoves(t) ==
  \/ /\ user'[t] = user[t] \/ ~user'[t]
     /\ t \in fresh' => t \in fresh
     /\ overtook' = overtook
  \/ \E c \in Calls : UserArrives(c)
  \/ \E u \in Tabs : Reload(u)

LEMMA NextMovesTabs ==
  ASSUME TypeInv, Next, NEW t \in Tabs
  PROVE  TabMoves(t)
  <1> USE SessionConstantsOK
  <1>1. user \in [Tabs -> BOOLEAN] /\ TabOf \in [Calls -> Tabs]
    BY DEF TypeInv, TypeOK
  <1>2. ASSUME NEW c \in Calls, Server(c)
        PROVE  UNCHANGED <<user, fresh, overtook>>
    BY <1>2 DEF Server, ServeAccepted, ServeDenied, ServeLogout, ServeLogin, RefuseLogin,
       ForgotDelete, ForgotCreate, ResetCheck, ResetCommit, browser, history
  <1>3. ASSUME NEW c \in Calls, LoginArrives(c) \/ AnswerArrives(c) \/ Renew(c) \/ Lose(c)
        PROVE  UNCHANGED <<user, fresh, overtook>>
    BY <1>3 DEF LoginArrives, AnswerArrives, Renew, Lose, browser, history
  <1>4. ASSUME NEW c \in Calls, LogoutArrives(c) \/ CallFails(c)
        PROVE  TabMoves(t)
    BY <1>1, <1>4 DEF LogoutArrives, CallFails, UserAfter, history, TabMoves
  <1>5. ASSUME NEW c \in Calls, Boot(c) \/ Submit(c)
        PROVE  TabMoves(t)
    BY <1>5 DEF Boot, Submit, Begin, history, TabMoves
  <1>6. ASSUME NEW u \in Tabs, ServeRenewal(u) \/ RenewalArrives(u) \/ LoseRenewal(u)
        PROVE  UNCHANGED <<user, fresh, overtook>>
    BY <1>6 DEF ServeRenewal, RenewalArrives, LoseRenewal, browser
  <1>7. ASSUME NEW u \in Tabs, RenewalFails(u)
        PROVE  TabMoves(t)
    BY <1>1, <1>7 DEF RenewalFails, UserAfter, history, TabMoves
  <1>8. CASE LinkExpires \/ AccessExpires \/ RefreshExpires
    BY <1>8 DEF LinkExpires, AccessExpires, RefreshExpires, browser, history, TabMoves
  <1>. QED
    BY <1>2, <1>3, <1>4, <1>5, <1>6, <1>7, <1>8 DEF Next, Arrives, Renewing, TabMoves

LEMMA NextBoots ==
  ASSUME TypeInv, BootInv, Next
  PROVE  BootInv'
  <1> USE SessionConstantsOK
  <1>1. /\ user \in [Tabs -> BOOLEAN] /\ TabOf \in [Calls -> Tabs]
        /\ call \in [Calls -> CallRecs \cup {None}]
    BY DEF TypeInv, TypeOK
  <1>2. ASSUME NEW t \in Tabs, t \in fresh', t \in fresh
        PROVE  ~user'[t]
    <2>1. ~\E c \in Calls : UserArrives(c) /\ TabOf[c] = t
      BY <1>2 DEF BootInv, UserArrives, Is, CallsOf
    <2>. QED BY <1>1, <1>2, <2>1, NextMovesTabs DEF TabMoves, BootInv, UserArrives, Reload
  <1>3. ASSUME NEW t \in Tabs, t \in fresh', t \notin fresh
        PROVE  \E u \in Tabs : Reload(u) /\ t = u
    BY <1>3, NextMovesTabs DEF TabMoves, UserArrives, Reload
  <1>4. ASSUME NEW c \in Calls, call'[c] # None, call[c] = None
        PROVE  /\ TabOf[c] \notin fresh'
               /\ call'[c].kind = "boot" => ~user'[TabOf[c]]
    <2>1. Boot(c) \/ (Submit(c) /\ call'[c].kind # "boot")
      BY <1>4, NextMovesCalls DEF CallMoves, Keeps, LoginArrives, Is
    <2>2. CASE Boot(c)
      BY <1>1, <2>2 DEF Boot, Begin, BootInv
    <2>3. CASE Submit(c) /\ call'[c].kind # "boot"
      BY <2>3 DEF Submit
    <2>. QED BY <2>1, <2>2, <2>3
  <1>5. ASSUME NEW c \in Calls, call'[c] # None, call'[c].kind = "boot", call[c] # None
        PROVE  call[c].kind = "boot"
    BY <1>5, NextMovesCalls DEF CallMoves, Keeps
  <1>6. ASSUME NEW t \in Tabs, t \in fresh'
        PROVE  ~user'[t] /\ CallsOf(t)' = {}
    <2>1. CASE t \in fresh
      <3>1. ASSUME NEW c \in Calls, TabOf[c] = t, call'[c] # None
            PROVE  FALSE
        <4>1. call[c] = None
          BY <2>1, <3>1 DEF BootInv, CallsOf
        <4>. QED BY <1>4, <1>6, <3>1, <4>1
      <3>2. CallsOf(t)' = {}
        BY <3>1 DEF CallsOf
      <3>. QED BY <1>2, <1>6, <2>1, <3>2
    <2>2. CASE t \notin fresh
      <3>1. Reload(t)
        BY <1>3, <1>6, <2>2
      <3>. QED BY <1>1, <3>1 DEF Reload, CallsOf
    <2>. QED BY <2>1, <2>2
  <1>7. ASSUME NEW t \in Tabs, user'[t], NEW c \in Calls, TabOf[c] = t, call'[c] # None,
               call'[c].kind = "boot"
        PROVE  t \in overtook'
    <2>1. call[c] # None /\ call[c].kind = "boot"
      BY <1>4, <1>5, <1>7
    <2>2. user[t] => t \in overtook
      BY <1>7, <2>1 DEF BootInv, CallsOf
    <2>3. ASSUME NEW b \in Calls, UserArrives(b)
          PROVE  t \in overtook'
      <3>1. c # b
        BY <1>1, <1>7, <2>3 DEF UserArrives, Done
      <3>2. CASE TabOf[b] = t
        BY <1>7, <2>1, <2>3, <3>1, <3>2 DEF UserArrives, CallsOf
      <3>3. CASE TabOf[b] # t
        <4>1. user[t] /\ overtook \subseteq overtook'
          BY <1>1, <1>7, <2>3, <3>3 DEF UserArrives
        <4>. QED BY <2>2, <4>1
      <3>. QED BY <3>2, <3>3
    <2>4. ASSUME NEW u \in Tabs, Reload(u)
          PROVE  t \in overtook'
      BY <1>1, <1>7, <2>2, <2>4 DEF Reload
    <2>. QED BY <1>7, <2>2, <2>3, <2>4, NextMovesTabs DEF TabMoves
  <1>8. ASSUME NEW t \in Tabs
        PROVE  /\ t \in fresh' => ~user'[t] /\ CallsOf(t)' = {}
               /\ user'[t] => \A c \in CallsOf(t)' : call'[c].kind = "boot" => t \in overtook'
    BY <1>6, <1>7 DEF CallsOf
  <1>. QED BY <1>8 DEF BootInv

\* A tab stops showing a user when he logs out or loads the page again, or when
\* a boot he overtook fails.
THEOREM SignOutsAreTheUsers == Spec => SignOutsAreMeant
  <1>1. Init => BootInv
    BY DEF Init, BootInv, CallsOf
  <1>2. TypeInv /\ BootInv /\ [Next]_vars => BootInv'
    <2>1. ASSUME BootInv, UNCHANGED vars
          PROVE  BootInv'
      BY <2>1 DEF BootInv, CallsOf, vars, browser, history
    <2>. QED BY <2>1, NextBoots
  <1>. DEFINE Meant(t) ==
         \/ t \in fresh' \/ t \in overtook
         \/ \E c \in CallsOf(t) : call[c].kind = "logout" /\ call'[c] = None
  <1>3. ASSUME TypeInv, BootInv, Next, NEW t \in Tabs, user[t], ~user'[t]
        PROVE  Meant(t)
    <2>1. /\ user \in [Tabs -> BOOLEAN] /\ TabOf \in [Calls -> Tabs]
          /\ call \in [Calls -> CallRecs \cup {None}]
      BY <1>3, SessionConstantsOK DEF TypeInv, TypeOK
    <2>2. ASSUME NEW c \in CallsOf(t), call'[c] = None, call[c].kind \in {"boot", "logout"}
          PROVE  Meant(t)
      BY <1>3, <2>2 DEF BootInv
    <2>3. ASSUME NEW c \in Calls, Server(c)
          PROVE  user' = user
      BY <2>3 DEF Server, ServeAccepted, ServeDenied, ServeLogout, ServeLogin, RefuseLogin,
         ForgotDelete, ForgotCreate, ResetCheck, ResetCommit, browser
    <2>4. ASSUME NEW c \in Calls, \/ LoginArrives(c) \/ AnswerArrives(c) \/ Renew(c)
                                  \/ Lose(c) \/ Boot(c) \/ Submit(c)
          PROVE  user' = user
      BY <2>4 DEF LoginArrives, AnswerArrives, Renew, Lose, Boot, Submit, Begin, browser
    <2>5. ASSUME NEW c \in Calls, UserArrives(c)
          PROVE  user'[t]
      BY <1>3, <2>1, <2>5 DEF UserArrives
    <2>6. ASSUME NEW c \in Calls, LogoutArrives(c) \/ CallFails(c)
          PROVE  Meant(t)
      <3>1. call[c] # None /\ call'[c] = None
        BY <2>1, <2>6 DEF LogoutArrives, CallFails, Is, Done
      <3>2. TabOf[c] = t /\ call[c].kind \in {"boot", "logout"}
        BY <1>3, <2>1, <2>6 DEF LogoutArrives, CallFails, UserAfter, Is
      <3>3. c \in CallsOf(t)
        BY <3>1, <3>2 DEF CallsOf
      <3>. QED BY <2>2, <3>1, <3>2, <3>3
    <2>7. ASSUME NEW u \in Tabs, RenewalFails(u)
          PROVE  Meant(t)
      <3>1. u = t /\ ~UserAfter(t, Expired(t))
        BY <1>3, <2>1, <2>7 DEF RenewalFails
      <3>2. PICK c \in Expired(t) : call[c].kind \in {"boot", "logout"}
        BY <1>3, <3>1 DEF UserAfter
      <3>3. c \in CallsOf(t) /\ call'[c] = None
        BY <2>7, <3>1, <3>2 DEF RenewalFails, Expired, Waiting, CallsOf
      <3>. QED BY <2>2, <3>2, <3>3
    <2>8. ASSUME NEW u \in Tabs, Reload(u)
          PROVE  Meant(t)
      BY <1>3, <2>1, <2>8 DEF Reload
    <2>9. ASSUME NEW u \in Tabs, ServeRenewal(u) \/ RenewalArrives(u) \/ LoseRenewal(u)
          PROVE  user' = user
      BY <2>9 DEF ServeRenewal, RenewalArrives, LoseRenewal, browser
    <2>10. LinkExpires \/ AccessExpires \/ RefreshExpires => user' = user
      BY DEF LinkExpires, AccessExpires, RefreshExpires, browser
    <2>. QED
      BY <1>3, <2>3, <2>4, <2>5, <2>6, <2>7, <2>8, <2>9, <2>10 DEF Next, Arrives, Renewing
  <1>4. TypeInv /\ BootInv /\ [Next]_vars =>
          [\A t \in Tabs : user[t] /\ ~user'[t] => Meant(t)]_vars
    BY <1>3
  <1>. QED BY <1>1, <1>2, <1>4, TypesCorrect, PTL DEF Spec, SignOutsAreMeant
=============================================================================
