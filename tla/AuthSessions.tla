---------------------------- MODULE AuthSessions ----------------------------
(***************************************************************************)
(* Sessions of one account: token versions and password resets in the      *)
(* server (apps/api/src/auth) and one browser whose tabs share a cookie    *)
(* jar (apps/web/src/api/client.ts, auth/AuthProvider.tsx).  A call is one *)
(* use of apiFetch; what a call needs of the server is one step, or two    *)
(* where the handler writes in two statements; its answer, which sets      *)
(* the cookies, arrives in a step of its own and in any order.             *)
(***************************************************************************)
EXTENDS Naturals, FiniteSets, Sequences

CONSTANTS
  None, Tabs, Calls,
  TabOf,      \* [Calls -> Tabs]: the tab a call belongs to
  Links,      \* bound: reset links that may be mailed, 1..n
  MaxSends,   \* bound: calls begun
  MaxLosses   \* bound: requests or answers lost on the way

ASSUME SessionConstantsOK ==
  /\ TabOf \in [Calls -> Tabs] /\ "server" \notin Tabs
  /\ Links \subseteq Nat \ {0}
  /\ MaxSends \in Nat /\ MaxLosses \in Nat
  /\ None \notin Nat

Kinds == {"boot", "me", "data", "login", "logout", "forgot", "reset"}

VARIABLES
  version, password,  \* the users row; a password is known by its number
  links,              \* password_reset_tokens that have not expired
  mailed,             \* links the user has got by mail
  access, refresh,    \* the cookies
  user,               \* by tab: `user` of AuthProvider is set
  fresh,              \* tabs that have not asked who the user is yet
  call,
  renewal,            \* by tab: the promise in flight in refreshPromise
  sends, losses,
  closed,             \* history: logged out or reset, no login since
  by,                 \* history: who ended each version, a tab or "server"
  excused,            \* history: versions the browser could not keep up with
  overtook,           \* history: tabs that logged in while still booting
  uses,               \* history: passwords set with each link
  crossed             \* history: links checked twice before use; 0: made at once

browser == <<access, refresh, user, fresh>>
account == <<version, password, links, mailed>>
history == <<closed, by, excused, overtook, uses, crossed>>
vars == <<account, browser, call, renewal, sends, losses, history>>

\* A pair of tokens; `pw` is the password its chain of refreshes began with.
Tokens == [ver : Nat, pw : Nat]
CallRecs == [kind : Kinds, token : Tokens \cup {None}, link : Links \cup {None},
             again : BOOLEAN,
             pc : {"sent", "halfway", "ok", "denied", "lost", "waiting"}]
RenewalRecs == [token : Tokens \cup {None}, pc : {"sent", "ok", "denied", "lost"}]

ASSUME NoneIsNothing == None \notin Tokens \cup CallRecs \cup RenewalRecs

\* Nobody is signed in, or the browser keeps a session, and its tabs are being
\* loaded or have been.
Init ==
  /\ version = 0 /\ password = 0 /\ links = {} /\ mailed = {}
  /\ \/ /\ access = None /\ closed = TRUE
        /\ fresh = Tabs
     \/ /\ access = [ver |-> 0, pw |-> 0] /\ closed = FALSE
        /\ fresh \in {{}, Tabs}
  /\ refresh = access
  /\ user = [t \in Tabs |-> t \notin fresh]
  /\ call = [c \in Calls |-> None] /\ renewal = [t \in Tabs |-> None]
  /\ sends = 0 /\ losses = 0
  /\ by = << >> /\ excused = {} /\ overtook = {}
  /\ uses = [l \in Links |-> 0] /\ crossed = {}

-----------------------------------------------------------------------------
Is(c, pc, kinds) == call[c] # None /\ call[c].pc = pc /\ call[c].kind \in kinds
Live(token)      == token # None /\ token.ver = version
CallsOf(t)       == {c \in Calls : TabOf[c] = t /\ call[c] # None}
Goto(c, pc)      == call' = [call EXCEPT ![c].pc = pc]
Done(c)          == call' = [call EXCEPT ![c] = None]

\* The version moves on: every token signed before is dead.
Revoke(who) == version' = version + 1 /\ by' = Append(by, who)

(* The server.                                                              *)

\* A request with the access cookie of a live version.
ServeAccepted(c) ==
  /\ Is(c, "sent", {"boot", "me", "data"}) /\ Live(call[c].token)
  /\ Goto(c, "ok")
  /\ UNCHANGED <<account, browser, renewal, sends, losses, history>>

ServeDenied(c) ==
  /\ Is(c, "sent", {"boot", "me", "data", "logout"}) /\ ~Live(call[c].token)
  /\ Goto(c, "denied")
  /\ UNCHANGED <<account, browser, renewal, sends, losses, history>>

ServeLogout(c) ==
  /\ Is(c, "sent", {"logout"}) /\ Live(call[c].token)
  /\ Revoke("server") /\ closed' = TRUE
  /\ Goto(c, "ok")
  /\ UNCHANGED <<password, links, mailed, browser, renewal, sends, losses,
                 excused, overtook, uses, crossed>>

\* Hash and version are of one read; the tokens are signed with that version.
Signed == [ver |-> version, pw |-> password]

ServeLogin(c) ==
  /\ Is(c, "sent", {"login"})
  /\ call' = [call EXCEPT ![c].pc = "ok", ![c].token = Signed]
  /\ closed' = FALSE
  /\ UNCHANGED <<account, browser, renewal, sends, losses, by, excused, overtook,
                 uses, crossed>>

\* A wrong password.
RefuseLogin(c) ==
  /\ Is(c, "sent", {"login"}) /\ Goto(c, "denied")
  /\ UNCHANGED <<account, browser, renewal, sends, losses, history>>

\* A link is asked for: the old ones are deleted, then the new one is created
\* and mailed.
ForgotDelete(c) ==
  /\ Is(c, "sent", {"forgot"}) /\ Goto(c, "halfway")
  /\ links' = {}
  /\ crossed' = IF \E d \in Calls : Is(d, "halfway", {"forgot"})
                THEN crossed \cup {0} ELSE crossed
  /\ UNCHANGED <<version, password, mailed, browser, renewal, sends, losses,
                 closed, by, excused, overtook, uses>>

ForgotCreate(c) ==
  /\ Is(c, "halfway", {"forgot"}) /\ Goto(c, "ok")
  /\ \E l \in Links \ mailed :
       /\ \A k \in Links \ mailed : l <= k
       /\ links' = links \cup {l} /\ mailed' = mailed \cup {l}
  /\ UNCHANGED <<version, password, browser, renewal, sends, losses, history>>

ResetCheck(c) ==
  /\ Is(c, "sent", {"reset"})
  /\ Goto(c, IF call[c].link \in links THEN "halfway" ELSE "denied")
  /\ crossed' = IF \E d \in Calls : Is(d, "halfway", {"reset"}) /\ call[d].link = call[c].link
                THEN crossed \cup {call[c].link} ELSE crossed
  /\ UNCHANGED <<account, browser, renewal, sends, losses, closed, by, excused,
                 overtook, uses>>

\* Mutant: the sessions go on.
ResetOnlyPassword(c) ==
  /\ Is(c, "halfway", {"reset"}) /\ Goto(c, "ok")
  /\ password' = password + 1 /\ links' = {}
  /\ uses' = [uses EXCEPT ![call[c].link] = @ + 1]
  /\ UNCHANGED <<version, mailed, browser, renewal, sends, losses, closed, by,
                 excused, overtook, crossed>>

\* Mutant: the link stays.
ResetKeepsLink(c) ==
  /\ Is(c, "halfway", {"reset"}) /\ Goto(c, "ok")
  /\ password' = password + 1 /\ Revoke("server")
  /\ closed' = TRUE
  /\ uses' = [uses EXCEPT ![call[c].link] = @ + 1]
  /\ UNCHANGED <<links, mailed, browser, renewal, sends, losses, excused, overtook,
                 crossed>>

\* One transaction, in which the link is not looked at again.
ResetCommit(c) ==
  /\ Is(c, "halfway", {"reset"}) /\ Goto(c, "ok")
  /\ password' = password + 1 /\ Revoke("server") /\ links' = {}
  /\ closed' = TRUE
  /\ uses' = [uses EXCEPT ![call[c].link] = @ + 1]
  /\ UNCHANGED <<mailed, browser, renewal, sends, losses, excused, overtook, crossed>>

LinkExpires ==
  /\ \E l \in links : links' = links \ {l}
  /\ UNCHANGED <<version, password, mailed, browser, call, renewal, sends, losses,
                 history>>

\* Mutant: the update looks for the user only and signs the version it finds.
RenewAnyVersion(t) ==
  /\ renewal[t] # None /\ renewal[t].pc = "sent" /\ renewal[t].token # None
  /\ Revoke(t)
  /\ renewal' = [renewal EXCEPT ![t].pc = "ok", ![t].token.ver = version + 1]
  /\ UNCHANGED <<password, links, mailed, browser, call, sends, losses, closed,
                 excused, overtook, uses, crossed>>

\* The tokens that follow these: signed with the version the update leaves.
Rotated(token) == [ver |-> token.ver + 1, pw |-> token.pw]

\* Rotation: one conditional update; whoever comes second with a token misses.
ServeRenewal(t) ==
  /\ renewal[t] # None /\ renewal[t].pc = "sent"
  /\ IF Live(renewal[t].token)
     THEN /\ Revoke(t)
          /\ renewal' = [renewal EXCEPT
               ![t] = [token |-> Rotated(renewal[t].token), pc |-> "ok"]]
     ELSE /\ renewal' = [renewal EXCEPT ![t].pc = "denied"]
          /\ UNCHANGED <<version, by>>
  /\ UNCHANGED <<password, links, mailed, browser, call, sends, losses, closed,
                 excused, overtook, uses, crossed>>

-----------------------------------------------------------------------------
(* The browser.                                                             *)

Begin(c, kind, link) ==
  /\ call[c] = None /\ sends < MaxSends
  /\ call' = [call EXCEPT ![c] = [kind |-> kind, token |-> access, link |-> link,
                                  again |-> FALSE, pc |-> "sent"]]
  /\ sends' = sends + 1
  /\ UNCHANGED <<account, access, refresh, user, renewal, losses, history>>

\* A page is loaded: AuthProvider asks who the user is.
Boot(c) ==
  /\ TabOf[c] \in fresh /\ fresh' = fresh \ {TabOf[c]}
  /\ Begin(c, "boot", None)

\* Pages behind ProtectedRoute need a user; the login page sends a user away.
Submit(c) ==
  /\ TabOf[c] \notin fresh /\ UNCHANGED fresh
  /\ \/ user[TabOf[c]] /\ \E kind \in {"data", "logout"} : Begin(c, kind, None)
     \/ ~user[TabOf[c]] /\ Begin(c, "login", None)
     \/ Cardinality(mailed) + Cardinality({d \in Calls : call[d] # None
          /\ call[d].kind = "forgot"}) < Cardinality(Links) /\ Begin(c, "forgot", None)
     \/ \E l \in mailed : Begin(c, "reset", l)

\* The cookies of an answer replace what the jar holds, in order of arrival.
SetCookies(token) ==
  /\ access' = token /\ refresh' = token
  /\ excused' = IF Live(token) THEN excused ELSE excused \cup {token.ver}

\* login() goes on with refreshUser().
LoginArrives(c) ==
  /\ Is(c, "ok", {"login"})
  /\ SetCookies(call[c].token)
  /\ call' = [call EXCEPT ![c].kind = "me", ![c].pc = "sent"]
  /\ UNCHANGED <<account, user, fresh, renewal, sends, losses, closed, by, overtook,
                 uses, crossed>>

UserArrives(c) ==
  /\ Is(c, "ok", {"boot", "me"}) /\ Done(c)
  /\ user' = [user EXCEPT ![TabOf[c]] = TRUE]
  /\ overtook' = IF \E d \in CallsOf(TabOf[c]) \ {c} : call[d].kind = "boot"
                 THEN overtook \cup {TabOf[c]} ELSE overtook
  /\ UNCHANGED <<account, access, refresh, fresh, renewal, sends, losses, closed,
                 by, excused, uses, crossed>>

LogoutArrives(c) ==
  /\ Is(c, "ok", {"logout"}) /\ Done(c)
  /\ access' = None /\ refresh' = None
  /\ user' = [user EXCEPT ![TabOf[c]] = FALSE]
  /\ UNCHANGED <<account, fresh, renewal, sends, losses, history>>

AnswerArrives(c) ==
  /\ Is(c, "ok", {"data", "forgot", "reset"}) /\ Done(c)
  /\ UNCHANGED <<account, browser, renewal, sends, losses, history>>

\* Mutant: every 401 asks for tokens of its own.
RenewForEachCall(c) ==
  /\ Is(c, "denied", Kinds \ {"login"}) /\ ~call[c].again
  /\ Goto(c, "waiting")
  /\ renewal' = [renewal EXCEPT ![TabOf[c]] = [token |-> refresh, pc |-> "sent"]]
  /\ UNCHANGED <<account, browser, sends, losses, history>>

\* A 401 to a first attempt waits for the tab's refresh, and starts it if there
\* is none.
Renew(c) ==
  /\ Is(c, "denied", Kinds \ {"login"}) /\ ~call[c].again
  /\ Goto(c, "waiting")
  /\ renewal' = [renewal EXCEPT ![TabOf[c]] =
                   IF @ = None THEN [token |-> refresh, pc |-> "sent"] ELSE @]
  /\ UNCHANGED <<account, browser, sends, losses, history>>

Waiting(t) == {c \in CallsOf(t) : call[c].pc = "waiting"}

\* The promise resolves: everything that waited is sent once more.
RenewalArrives(t) ==
  /\ renewal[t] # None /\ renewal[t].pc = "ok"
  /\ SetCookies(renewal[t].token)
  /\ renewal' = [renewal EXCEPT ![t] = None]
  /\ call' = [c \in Calls |->
       IF c \in Waiting(t)
       THEN [call[c] EXCEPT !.pc = "sent", !.again = TRUE, !.token = renewal[t].token]
       ELSE call[c]]
  /\ UNCHANGED <<account, user, fresh, sends, losses, closed, by, overtook, uses,
                 crossed>>

\* Mutant: any failed call signs out.
UserAfterAnyFailure(t, failed) == user[t] /\ failed = {}

\* What a tab makes of calls that failed: a failed boot or logout leaves nobody
\* signed in, any other failure is only shown.
UserAfter(t, failed) ==
  user[t] /\ \A c \in failed : call[c].kind \notin {"boot", "logout"}

\* Mutant: the rejection reaches a call only if it waits alone.
ExpiredAlone(t) == {c \in Waiting(t) : Waiting(t) = {c}}

\* The promise rejects: everything that waited fails with "Session expired".
Expired(t) == Waiting(t)

RenewalFails(t) ==
  /\ renewal[t] # None /\ renewal[t].pc \in {"denied", "lost"}
  /\ renewal' = [renewal EXCEPT ![t] = None]
  /\ user' = [user EXCEPT ![t] = UserAfter(t, Expired(t))]
  /\ call' = [c \in Calls |-> IF c \in Expired(t) THEN None ELSE call[c]]
  /\ UNCHANGED <<account, access, refresh, fresh, sends, losses, history>>

CallFails(c) ==
  /\ \/ Is(c, "lost", Kinds)
     \/ Is(c, "denied", {"login"})
     \/ Is(c, "denied", Kinds) /\ call[c].again
  /\ user' = [user EXCEPT ![TabOf[c]] = UserAfter(TabOf[c], {c})]
  /\ Done(c)
  /\ UNCHANGED <<account, access, refresh, fresh, renewal, sends, losses, history>>

\* maxAge of the access cookie, exp of its token.
AccessExpires ==
  /\ access # None /\ access' = None
  /\ UNCHANGED <<account, refresh, user, fresh, call, renewal, sends, losses, history>>

\* Seven days: no call lasts so long.
RefreshExpires ==
  /\ \A c \in Calls : call[c] = None
  /\ access = None /\ refresh # None /\ refresh' = None
  /\ UNCHANGED <<account, access, user, fresh, call, renewal, sends, losses, history>>

\* The network: a request or its answer is lost, and fetch rejects.  (A refusal
\* that is lost is like a request that is.)
Lose(c) ==
  /\ losses < MaxLosses /\ losses' = losses + 1
  /\ call[c] # None /\ call[c].pc \in {"sent", "ok"} /\ Goto(c, "lost")
  /\ UNCHANGED <<account, browser, renewal, sends, history>>

LoseRenewal(t) ==
  /\ losses < MaxLosses /\ losses' = losses + 1
  /\ renewal[t] # None /\ renewal[t].pc \in {"sent", "ok"}
  /\ renewal' = [renewal EXCEPT ![t].pc = "lost"]
  /\ excused' = IF renewal[t].pc = "ok"
                THEN excused \cup {renewal[t].token.ver - 1} ELSE excused
  /\ UNCHANGED <<account, browser, call, sends, closed, by, overtook, uses, crossed>>

\* The user loads the page again.
Reload(t) ==
  /\ CallsOf(t) = {} /\ t \notin fresh
  /\ fresh' = fresh \cup {t} /\ user' = [user EXCEPT ![t] = FALSE]
  /\ overtook' = overtook \ {t}
  /\ UNCHANGED <<account, access, refresh, call, renewal, sends, losses, closed, by,
                 excused, uses, crossed>>

-----------------------------------------------------------------------------
Server(c) ==
  \/ ServeAccepted(c) \/ ServeDenied(c) \/ ServeLogout(c) \/ ServeLogin(c)
  \/ RefuseLogin(c) \/ ForgotDelete(c) \/ ForgotCreate(c) \/ ResetCheck(c)
  \/ ResetCommit(c)

Arrives(c) ==
  \/ LoginArrives(c) \/ UserArrives(c) \/ LogoutArrives(c) \/ AnswerArrives(c)
  \/ Renew(c) \/ CallFails(c)

Renewing(t) == ServeRenewal(t) \/ RenewalArrives(t) \/ RenewalFails(t)

Next ==
  \/ \E c \in Calls : Server(c) \/ Arrives(c) \/ Boot(c) \/ Submit(c) \/ Lose(c)
  \/ \E t \in Tabs : Renewing(t) \/ LoseRenewal(t) \/ Reload(t)
  \/ LinkExpires \/ AccessExpires \/ RefreshExpires

Spec == Init /\ [][Next]_vars

-----------------------------------------------------------------------------
TypeOK ==
  /\ version \in Nat /\ password \in Nat
  /\ links \subseteq mailed /\ mailed \subseteq Links
  /\ access \in Tokens \cup {None} /\ refresh \in Tokens \cup {None}
  /\ user \in [Tabs -> BOOLEAN] /\ fresh \subseteq Tabs
  /\ call \in [Calls -> CallRecs \cup {None}]
  /\ renewal \in [Tabs -> RenewalRecs \cup {None}]
  /\ sends \in 0..MaxSends /\ losses \in 0..MaxLosses
  /\ closed \in BOOLEAN /\ by \in Seq(Tabs \cup {"server"}) /\ Len(by) = version
  /\ excused \subseteq Nat /\ overtook \subseteq Tabs
  /\ uses \in [Links -> Nat] /\ crossed \subseteq Links \cup {0}

\* Every token there is: in the jar, on its way to the server, on its way back.
Circulating ==
  ({access, refresh} \cup {call[c].token : c \in {d \in Calls : call[d] # None}}
     \cup {renewal[t].token : t \in {u \in Tabs : renewal[u] # None}}) \ {None}

\* A reset ends every session, also those a slow login or refresh was about to
\* open when it happened: whatever the server accepts goes back to a login with
\* the password of now.
SessionsKnowThePassword ==
  \A token \in Circulating : Live(token) => token.pw = password

\* After a logout or a reset no token anywhere opens the account, whatever
\* refreshes of other tabs were under way, until somebody logs in.
LoggedOutUntilLogin ==
  closed => \A token \in Circulating : ~Live(token)

\* A tab is refused a refresh only because another tab or the server ended the
\* version, or because the answer that carried the next one was lost or came
\* late: never by a second refresh of its own.
RefusalHasCause ==
  \A t \in Tabs :
    (renewal[t] # None /\ renewal[t].pc = "denied" /\ renewal[t].token # None)
      => \/ by[renewal[t].token.ver + 1] # t
         \/ renewal[t].token.ver \in excused

\* A reset link sets one password, and the last one asked for is the only one
\* good, except where two requests passed the same statement before either
\* went on.
LinksWorkOnce ==
  /\ \A l \in Links : uses[l] > 1 => l \in crossed
  /\ Cardinality(links) > 1 => 0 \in crossed

\* A tab that shows a user goes on to do so until the user logs out or loads the
\* page again, or until the failed boot of a tab that logged in faster than it
\* booted comes in late.
SignOutsAreMeant ==
  [][\A t \in Tabs : user[t] /\ ~user'[t] =>
       \/ t \in fresh' \/ t \in overtook
       \/ \E c \in CallsOf(t) : call[c].kind = "logout" /\ call'[c] = None]_vars

\* Whoever waits for a refresh has one to wait for: no call is left behind when
\* the promise resolves or rejects.
NobodyWaitsForNothing ==
  \A c \in Calls : call[c] # None /\ call[c].pc = "waiting" => renewal[TabOf[c]] # None
=============================================================================
