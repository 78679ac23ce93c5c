------------------------------ MODULE Sessions ------------------------------
(***************************************************************************)
(* Logging in and the session cookie (auth.go, server.go), for one browser *)
(* that follows redirects.  The server keeps no sessions: a cookie carries *)
(* its own end, signed with a key made of the configured credentials.      *)
(*                                                                         *)
(* Time is counted in half seconds.                                        *)
(***************************************************************************)
EXTENDS Integers

CONSTANTS
  SessionTTL,  \* sessionCookieTTL
  MaxTime,     \* bound: the clock stops there
  MaxKey,      \* bound: the credentials change at restarts up to this one
  NoCookie     \* the cookie is missing or empty

ASSUME SessionAssumption ==
  /\ {SessionTTL, MaxTime, MaxKey} \subseteq Nat /\ SessionTTL % 2 = 0
  /\ NoCookie \notin [time : Nat, key : Nat]

VARIABLES
  now,      \* the clock
  key,      \* the number of the credentials that the server was started with
  cookie,   \* in the browser: [exp, key]
  request,  \* the path that the browser asks for, or "none"
  shown,    \* what it shows: "page" behind the login, "login", "none"
  login     \* [time, key] of the login that the browser is in, for the property

sessionVars == <<now, key, cookie, request, shown, login>>

\* Time.Unix.
Unix(t) == t \div 2

\* Seeded fault: the end of the session is not looked at.
SessionCookieSigned == cookie # NoCookie /\ cookie.key = key

\* sessionCookieValid.
SessionCookieValid == cookie # NoCookie /\ cookie.key = key /\ Unix(now) < cookie.exp

SessionInit ==
  /\ now = 0 /\ key = 1
  /\ cookie = NoCookie /\ login = NoCookie
  /\ request = "none" /\ shown = "none"

Tick ==
  /\ now < MaxTime /\ now' = now + 1
  /\ UNCHANGED <<key, cookie, request, shown, login>>

\* A restart, with the same credentials or new ones; a request is cut off.
Restart ==
  /\ key' \in {key, key + 1} /\ key' <= MaxKey
  /\ request' = "none" /\ shown' = IF request = "none" THEN shown ELSE "none"
  /\ UNCHANGED <<now, cookie, login>>

\* The browser drops the cookie: at the latest when its MaxAge is over, but it
\* goes by a clock of its own.
Forget ==
  /\ cookie # NoCookie /\ cookie' = NoCookie
  /\ UNCHANGED <<now, key, request, shown, login>>

Visit ==
  /\ request = "none"
  /\ request' \in {"/", "/browse", "/login"} /\ shown' = "none"
  /\ UNCHANGED <<now, key, cookie, login>>

\* handleRoot.
Root ==
  /\ request = "/" /\ request' = "/browse"
  /\ UNCHANGED <<now, key, cookie, shown, login>>

\* requireAuth around any handler.
RequireAuth ==
  /\ request = "/browse"
  /\ \/ SessionCookieValid /\ request' = "none" /\ shown' = "page"
     \/ ~SessionCookieValid /\ request' = "/login" /\ shown' = shown
  /\ UNCHANGED <<now, key, cookie, login>>

\* Seeded fault: whoever has a cookie is sent on.
LoginPageTrusting ==
  /\ request = "/login"
  /\ \/ cookie # NoCookie /\ request' = "/browse" /\ shown' = shown
     \/ cookie = NoCookie /\ request' = "none" /\ shown' = "login"
  /\ UNCHANGED <<now, key, cookie, login>>

\* GET /login.
LoginPage ==
  /\ request = "/login"
  /\ \/ SessionCookieValid /\ request' = "/browse" /\ shown' = shown
     \/ ~SessionCookieValid /\ request' = "none" /\ shown' = "login"
  /\ UNCHANGED <<now, key, cookie, login>>

\* POST /login with the right credentials; wrong ones show the form again.
LogIn ==
  /\ shown = "login" /\ request = "none"
  /\ cookie' = [exp |-> Unix(now + SessionTTL), key |-> key]
  /\ login' = [time |-> now, key |-> key]
  /\ request' = "/browse" /\ shown' = "none"
  /\ UNCHANGED <<now, key>>

\* POST /logout.
LogOut ==
  /\ shown = "page" /\ request = "none"
  /\ cookie' = NoCookie /\ login' = NoCookie
  /\ request' = "/login" /\ shown' = "none"
  /\ UNCHANGED <<now, key>>

Answer == Root \/ RequireAuth \/ LoginPage

SessionNext == Tick \/ Restart \/ Forget \/ Visit \/ Answer \/ LogIn \/ LogOut

\* The server answers every request.
SessionSpec == SessionInit /\ [][SessionNext]_sessionVars /\ WF_sessionVars(Answer)

-----------------------------------------------------------------------------
\* Properties

SessionTypeOK ==
  /\ now \in 0 .. MaxTime /\ key \in 1 .. MaxKey
  /\ cookie # NoCookie => cookie.exp \in Nat /\ cookie.key \in 1 .. key
  /\ login # NoCookie => login.time \in 0 .. now
  /\ request \in {"none", "/", "/browse", "/login"}
  /\ shown \in {"none", "page", "login"}

\* A page is only given to a browser that logged in with the credentials of
\* today, less than the time of a session ago, and has not logged out since,
\* however long it keeps its cookie and wherever the seconds round (auth.go:43).
PagesAfterLogin ==
  [][ shown' = "page" /\ shown # "page" =>
        /\ login # NoCookie /\ login.key = key
        /\ now - login.time < SessionTTL ]_sessionVars

\* A browser ends up on a page or on the form: the redirects of the pages and of
\* the form never send it around for good, whatever cookie it has kept from
\* before a restart (auth.go:98, server.go:114).
VisitEnds == request # "none" ~> request = "none"

=============================================================================
