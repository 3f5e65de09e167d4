------------------------------- MODULE Sessions -------------------------------
(***************************************************************************)
(* Signing in and out: the table sessions, the middleware RequireAuth and  *)
(* the auth handlers (internal/api/handlers.go), and one browser whose     *)
(* tabs share its cookie (web/app.js, web/login.html).  Requests of the    *)
(* tabs are handled concurrently and their answers may arrive in any order *)
(* or not at all.  The row of a session and the cookie expire by different *)
(* clocks.                                                                 *)
(***************************************************************************)
EXTENDS Naturals, FiniteSets

CONSTANTS
  Tabs,     \* the tabs of the browser
  Visible,  \* those that can be seen; a hidden one does not poll
  Tokens,   \* the tokens that logins may create, each at most once
  None      \* no token

SessionsAssumption == None \notin Tokens /\ Visible \subseteq Tabs

\* A tab polls (the telemetry strip), and does one other thing at a time.
Slots == (Visible \X {"poll"}) \cup (Tabs \X {"act"})
Kinds == {"login", "logout", "me", "load"}

VARIABLES
  session,    \* the table sessions; a row that was deleted is "deleted"
  cookie,     \* the browser's cookie gruntdeck_session
  page,       \* what each tab shows
  request,    \* the requests under way
  disturbed,  \* history: logins and logouts crossed, or one went wrong
  replaced    \* history: the tokens the browser held when it sent a login

vars == <<session, cookie, page, request, disturbed, replaced>>

Free == [kind |-> "none", token |-> None, pc |-> "idle", answer |-> "none"]

TypeOK ==
  /\ session \in [Tokens -> {"none", "live", "expired", "deleted"}]
  /\ cookie \in Tokens \cup {None}
  /\ page \in [Tabs -> {"login", "app"}]
  /\ request \in [Slots -> [kind : Kinds \cup {"none"}, token : Tokens \cup {None},
                            pc : {"idle", "sent", "handle", "answered"},
                            answer : {"none", "ok", "refused", "error"}]]
  /\ disturbed \in BOOLEAN /\ replaced \subseteq Tokens
  /\ cookie # None => session[cookie] # "none"

Init ==
  /\ session = [t \in Tokens |-> "none"] /\ cookie = None
  /\ page = [i \in Tabs |-> "login"]
  /\ request = [s \in Slots |-> Free]
  /\ disturbed = FALSE /\ replaced = {}

----------------------------------------------------------------------------
(* The browser sends a request with the cookie it has at that moment. *)

InAuth(s) == request[s].kind \in {"login", "logout"}

Send(s, kind) ==
  /\ request[s] = Free
  /\ request' = [request EXCEPT ![s] =
       [Free EXCEPT !.kind = kind, !.pc = "sent", !.token = cookie]]
  /\ disturbed' = (disturbed \/ (kind \in {"login", "logout"} /\ \E o \in Slots : InAuth(o)))
  /\ replaced' = IF kind = "login" THEN replaced \cup ({cookie} \ {None}) ELSE replaced
  /\ UNCHANGED <<session, cookie, page>>

handleLoginSubmit(i) == page[i] = "login" /\ Send(<<i, "act">>, "login")
SendLogout(i) == page[i] = "app" /\ Send(<<i, "act">>, "logout")
checkUserSession(i) == page[i] = "app" /\ Send(<<i, "act">>, "me")

\* A visible tab asks for its lists again and again.
loadTelemetryStrip(i) == i \in Visible /\ page[i] = "app" /\ Send(<<i, "poll">>, "load")

\* The page of the login form is public: it can be opened at any time.
OpenLogin(i) ==
  /\ page[i] = "app" /\ request[<<i, "act">>] = Free
  /\ page' = [page EXCEPT ![i] = "login"]
  /\ request' = [s \in Slots |-> IF s[1] = i THEN Free ELSE request[s]]
  /\ UNCHANGED <<session, cookie, disturbed, replaced>>

----------------------------------------------------------------------------
(* The server. *)

Answer(s, answer) ==
  request' = [request EXCEPT ![s].pc = "answered", ![s].answer = answer]

\* GetSessionByToken: the row is there and the database's clock has not passed its expiry.
Found(t) == t # None /\ session[t] = "live"

\* Every path but the login's; a statement that fails rejects the request.
RequireAuth(s) ==
  /\ request[s].pc = "sent" /\ request[s].kind # "login"
  /\ \/ Found(request[s].token) /\ request' = [request EXCEPT ![s].pc = "handle"]
     \/ Answer(s, "refused")
  /\ UNCHANGED <<session, cookie, page, disturbed, replaced>>

\* Name and password are wrong, or a statement fails; an insert may fail to its caller
\* and take effect.  Otherwise the answer carries the fresh token.
handleLogin(s) ==
  /\ request[s].pc = "sent" /\ request[s].kind = "login"
  /\ \/ Answer(s, "refused") /\ UNCHANGED <<session, disturbed>>
     \/ \E t \in Tokens :
          /\ session[t] = "none"
          /\ session' = [session EXCEPT ![t] = "live"]
          /\ \/ /\ request' = [request EXCEPT ![s].pc = "answered", ![s].answer = "ok",
                                              ![s].token = t]
                /\ UNCHANGED disturbed
             \/ Answer(s, "error") /\ disturbed' = TRUE
  /\ UNCHANGED <<cookie, page, replaced>>

\* Variant: logout only clears the cookie.
handleLogoutClears(s) ==
  /\ request[s].pc = "handle" /\ request[s].kind = "logout"
  /\ Answer(s, "ok")
  /\ UNCHANGED <<session, cookie, page, disturbed, replaced>>

\* The error of the deletion is dropped: the answer is the same.
handleLogout(s) ==
  /\ request[s].pc = "handle" /\ request[s].kind = "logout"
  /\ Answer(s, "ok")
  /\ \/ session' = [session EXCEPT ![request[s].token] = "deleted"] /\ UNCHANGED disturbed
     \/ disturbed' = TRUE /\ UNCHANGED session
  /\ UNCHANGED <<cookie, page, replaced>>

\* Reads the session once more, and its user.
handleGetMe(s) ==
  /\ request[s].pc = "handle" /\ request[s].kind = "me"
  /\ \/ Found(request[s].token) /\ Answer(s, "ok")
     \/ Answer(s, "refused")
  /\ UNCHANGED <<session, cookie, page, disturbed, replaced>>

\* Any other handler.
Handle(s) ==
  /\ request[s].pc = "handle" /\ request[s].kind = "load"
  /\ \E answer \in {"ok", "error"} : Answer(s, answer)
  /\ UNCHANGED <<session, cookie, page, disturbed, replaced>>

ExpireRow(t) ==
  /\ session[t] = "live"
  /\ session' = [session EXCEPT ![t] = "expired"]
  /\ UNCHANGED <<cookie, page, request, disturbed, replaced>>

----------------------------------------------------------------------------
(* The browser again. *)

\* Variant: the list loaders show the error and stay where they are.
NextPageStays(s) ==
  LET r == request[s] IN
  IF r.kind = "login" THEN IF r.answer = "ok" THEN "app" ELSE "login"
  ELSE IF r.kind = "logout" THEN "login"
  ELSE IF r.kind = "me" /\ r.answer # "ok" THEN "login" ELSE page[s[1]]

\* handleLogout goes to the form whatever the answer, checkUserSession unless it is ok,
\* a list when it is a 401.
NextPage(s) ==
  LET r == request[s] IN
  CASE r.kind = "login" -> IF r.answer = "ok" THEN "app" ELSE page[s[1]]
    [] r.kind = "logout" -> "login"
    [] r.kind = "me" -> IF r.answer = "ok" THEN page[s[1]] ELSE "login"
    [] r.kind = "load" -> IF r.answer = "refused" THEN "login" ELSE page[s[1]]

\* Leaving a page gives up what it was still loading.
After(s, next) ==
  [o \in Slots |->
     IF o = s \/ (o[1] = s[1] /\ next # page[s[1]] /\ request[o].kind \in {"me", "load"})
     THEN Free ELSE request[o]]

Receive(s) ==
  /\ request[s].pc = "answered"
  /\ page' = [page EXCEPT ![s[1]] = NextPage(s)]
  /\ cookie' = CASE request[s].kind = "login" /\ request[s].answer = "ok" -> request[s].token
                 [] request[s].kind = "logout" /\ request[s].answer = "ok" -> None
                 [] OTHER -> cookie
  /\ request' = After(s, NextPage(s))
  /\ UNCHANGED <<session, disturbed, replaced>>

\* The request does not reach the server, or the answer not the browser.
Lose(s) ==
  LET next == IF request[s].kind \in {"logout", "me"} THEN "login" ELSE page[s[1]] IN
  /\ request[s].pc \in {"sent", "answered"}
  /\ page' = [page EXCEPT ![s[1]] = next]
  /\ request' = After(s, next)
  /\ disturbed' = (disturbed \/ InAuth(s))
  /\ UNCHANGED <<session, cookie, replaced>>

\* By the browser's clock, which may be ahead of the database's.
ExpireCookie ==
  /\ cookie # None
  /\ cookie' = None
  /\ disturbed' = (disturbed \/ session[cookie] = "live")
  /\ UNCHANGED <<session, page, request, replaced>>

----------------------------------------------------------------------------
Serve(s) ==
  RequireAuth(s) \/ handleLogin(s) \/ handleLogout(s) \/ handleGetMe(s) \/ Handle(s)

Browse(i) ==
  handleLoginSubmit(i) \/ SendLogout(i) \/ checkUserSession(i) \/ OpenLogin(i)

Next ==
  \/ \E i \in Tabs : Browse(i) \/ loadTelemetryStrip(i)
  \/ \E s \in Slots : Serve(s) \/ Receive(s) \/ Lose(s)
  \/ \E t \in Tokens : ExpireRow(t)
  \/ ExpireCookie

Spec == Init /\ [][Next]_vars

\* The poll goes on in a visible tab, and what it sends again and again gets through at
\* last, to the server and back.  Users, clocks and other requests owe nothing.
Fairness ==
  \A i \in Visible :
    /\ WF_vars(loadTelemetryStrip(i))
    /\ SF_vars(Serve(<<i, "poll">>)) /\ SF_vars(Receive(<<i, "poll">>))

----------------------------------------------------------------------------
(* What signing in and out promises. *)

\* Where logins and logouts neither cross nor go wrong, no session outlives its use: one
\* that would still be accepted is the browser's, or on its way to it, or was left behind
\* by a login over it.  (A logout has deleted its row before it clears the cookie.)
LiveSessionsHeld ==
  ~disturbed =>
    \A t \in Tokens \ replaced :
      session[t] = "live" =>
        cookie = t \/ \E s \in Slots : request[s].token = t /\ request[s].answer = "ok"

\* A visible tab does not go on showing the application on a session that has ended: its next
\* poll is refused and takes it to the login form, unless somebody signs in first.
SignedOutTabsLeave ==
  \A i \in Visible :
    page[i] = "app" /\ ~Found(cookie) ~> page[i] = "login" \/ Found(cookie)
=============================================================================
