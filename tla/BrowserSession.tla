---------------------------- MODULE BrowserSession ----------------------------
(***************************************************************************)
(* One user's browser against the server of RefreshTokens.                 *)
(*                                                                         *)
(* The tabs share the httpOnly cookie that holds the refresh token.  Each  *)
(* tab has its own copy of lib/api-client.ts, hence its own refreshPromise *)
(* (the single-flight guard) and its own access token (auth-store.ts).  A  *)
(* request carries the cookie of the moment it was sent; it may wait in    *)
(* the network before a handler reads it, its answer may arrive after      *)
(* later answers, and either may be lost.                                  *)
(*                                                                         *)
(* A refused refresh does not clear the cookie: refresh_token of the       *)
(* router calls delete_cookie on the injected response and then raises     *)
(* HTTPException, for which FastAPI builds another response.               *)
(***************************************************************************)
EXTENDS RefreshTokens

CONSTANTS
  Tabs,
  NoTab,   \* the tab that sent the request was closed or reloaded
  Visitor  \* the user whose browser this is

ASSUME BrowserAssumption == Visitor \in Users /\ NoTab \notin Tabs

VARIABLES
  cookie,   \* refresh token in the cookie jar, 0 when there is none
  page,     \* "loading" until SessionBootstrap has asked for a token
  access,   \* whether the tab holds an access token
  promise,  \* whether refreshPromise is pending
  req,      \* the request each handler's connection carries
  shared,   \* history: logins with two requests outstanding at once
  lost      \* history: logins of which a request or an answer was lost

browser == <<cookie, page, access, promise, req, shared, lost>>
allvars == <<vars, browser>>

NoReq == [tab |-> NoTab, kind |-> "none", cookie |-> 0]
Req == [tab : Tabs \cup {NoTab}, kind : {"none", "login", "refresh", "logout"},
        cookie : Nat]

BrowserTypeOK ==
  /\ cookie \in Nat
  /\ page \in [Tabs -> {"loading", "ready"}]
  /\ access \in [Tabs -> BOOLEAN]
  /\ promise \in [Tabs -> BOOLEAN]
  /\ req \in [Handlers -> Req]
  /\ shared \subseteq Nat
  /\ lost \subseteq Nat

BrowserInit ==
  /\ Init
  /\ cookie = 0
  /\ page = [t \in Tabs |-> "ready"]
  /\ access = [t \in Tabs |-> FALSE]
  /\ promise = [t \in Tabs |-> FALSE]
  /\ req = [h \in Handlers |-> NoReq]
  /\ shared = {}
  /\ lost = {}

-----------------------------------------------------------------------------
(* Sending *)

Outstanding(f) == {h \in Handlers : req[h].cookie # 0 /\ Family(req[h].cookie) = f}

\* Tab t sends a request of this kind; the browser attaches the cookie.
Send(h, t, kind) ==
  /\ req[h] = NoReq
  /\ req' = [req EXCEPT ![h] = [tab |-> t, kind |-> kind, cookie |-> cookie]]
  /\ shared' = IF cookie # 0 /\ Outstanding(Family(cookie)) # {}
               THEN shared \cup {Family(cookie)} ELSE shared

\* refreshAccessToken is called by SessionBootstrap on page load, by request
\* and uploadFileWithProgress on a 401, and by NetworkStatusGate on reconnect
\* (the last two only with an access token).
WantsRefresh(t) == page[t] = "loading" \/ access[t]

SendRefresh(h, t) ==
  /\ WantsRefresh(t) /\ ~ promise[t]
  /\ cookie # 0
  /\ Send(h, t, "refresh")
  /\ promise' = [promise EXCEPT ![t] = TRUE]
  /\ page' = [page EXCEPT ![t] = "ready"]
  /\ UNCHANGED <<vars, cookie, access, lost>>

\* Without a cookie the router answers 401 before touching any state.
RefreshWithoutCookie(t) ==
  /\ WantsRefresh(t) /\ ~ promise[t]
  /\ cookie = 0
  /\ page' = [page EXCEPT ![t] = "ready"]
  /\ access' = [access EXCEPT ![t] = FALSE]
  /\ UNCHANGED <<vars, cookie, promise, req, shared, lost>>

\* The login page, after the one-time code was accepted.
SendLogin(h, t) ==
  /\ ~ access[t] /\ page[t] = "ready"
  /\ Send(h, t, "login")
  /\ UNCHANGED <<vars, cookie, page, access, promise, lost>>

\* handleLogout clears the store first.
SendLogout(h, t) ==
  /\ access[t]
  /\ Send(h, t, "logout")
  /\ access' = [access EXCEPT ![t] = FALSE]
  /\ UNCHANGED <<vars, cookie, page, promise, lost>>

\* A reload throws the tab's memory away; its requests stay on their way.
Reload(t) ==
  /\ page' = [page EXCEPT ![t] = "loading"]
  /\ access' = [access EXCEPT ![t] = FALSE]
  /\ promise' = [promise EXCEPT ![t] = FALSE]
  /\ req' = [h \in Handlers |->
               IF req[h].tab = t THEN [req[h] EXCEPT !.tab = NoTab] ELSE req[h]]
  /\ UNCHANGED <<vars, cookie, shared, lost>>

-----------------------------------------------------------------------------
(* The server and the network *)

\* A handler picks the request up.
Arrive(h) ==
  /\ pc[h] = "idle"
  /\ \/ req[h].kind = "login" /\ LoginBegin(h, Visitor)
     \/ req[h].kind = "refresh" /\ RefreshBegin(h, req[h].cookie)
     \/ req[h].kind = "logout" /\ req[h].cookie # 0 /\ LogoutBegin(h, req[h].cookie)
  /\ UNCHANGED browser

Serve(h) ==
  /\ \/ LoginIssue(h) \/ RefreshReadUser(h) \/ RefreshIssue(h) \/ RefreshRotate(h)
     \/ RevokeWalk(h) \/ RevokeCommit(h) \/ LogoutCommit(h)
  /\ UNCHANGED browser

Settle_KeepsPromise(h, granted) ==
  /\ access' = [t \in Tabs |->
                  IF t = req[h].tab /\ req[h].kind # "logout"
                  THEN granted \/ (access[t] /\ req[h].kind = "login")
                  ELSE access[t]]
  /\ req' = [req EXCEPT ![h] = NoReq]
  /\ UNCHANGED <<page, promise, shared>>

\* What the tab that waits for h does with the outcome: the then and finally
\* of refreshAccessToken, or the login page storing the token.
Settle(h, granted) ==
  /\ access' = [t \in Tabs |->
                  IF t = req[h].tab /\ req[h].kind # "logout"
                  THEN granted \/ (access[t] /\ req[h].kind = "login")
                  ELSE access[t]]
  /\ promise' = [t \in Tabs |->
                   promise[t] /\ ~ (t = req[h].tab /\ req[h].kind = "refresh")]
  /\ req' = [req EXCEPT ![h] = NoReq]
  /\ UNCHANGED <<page, shared>>

Deliver_DropsCookie(h) ==
  /\ Respond(h)
  /\ cookie' = CASE pc[h] = "answer_token" /\ req[h].kind = "login" -> loc[h].new
                 [] pc[h] = "answer_logout" -> 0
                 [] OTHER -> cookie
  /\ Settle(h, pc[h] = "answer_token")
  /\ UNCHANGED lost

\* The browser applies Set-Cookie, then the tab's promise settles.
Deliver(h) ==
  /\ Respond(h)
  /\ cookie' = CASE pc[h] = "answer_token"  -> loc[h].new
                 [] pc[h] = "answer_denied" -> cookie
                 [] pc[h] = "answer_logout" -> 0
  /\ Settle(h, pc[h] = "answer_token")
  /\ UNCHANGED lost

\* The logout of a browser without a cookie only deletes the cookie again.
LogoutWithoutCookie(h) ==
  /\ pc[h] = "idle" /\ req[h].kind = "logout" /\ req[h].cookie = 0
  /\ cookie' = 0
  /\ Settle(h, FALSE)
  /\ UNCHANGED <<vars, lost>>

\* A request that never arrives, a handler that dies or an answer that is lost:
\* fetch rejects, refreshAccessToken clears the store.
Lose(h) ==
  /\ req[h] # NoReq
  /\ Fail(h) \/ (pc[h] = "idle" /\ UNCHANGED vars)
  /\ Settle(h, FALSE)
  /\ lost' = lost \cup {Family(i) : i \in {req[h].cookie} \ {0}}
  /\ UNCHANGED cookie

World ==
  /\ Tick \/ \E u \in Users : UserStatusChanges(u)
  /\ UNCHANGED browser

Answer(h) == Arrive(h) \/ Serve(h) \/ Deliver(h) \/ LogoutWithoutCookie(h)

BrowserNext ==
  \/ \E h \in Handlers :
       \/ \E t \in Tabs : SendRefresh(h, t) \/ SendLogin(h, t) \/ SendLogout(h, t)
       \/ Answer(h)
       \/ Lose(h)
  \/ \E t \in Tabs : RefreshWithoutCookie(t) \/ Reload(t)
  \/ World

\* Handlers finish and the network answers or reports an error in finite time.
BrowserSpec ==
  /\ BrowserInit /\ [][BrowserNext]_allvars
  /\ \A h \in Handlers : WF_allvars(Answer(h) \/ Lose(h))

-----------------------------------------------------------------------------
(* Properties *)

\* The token in the cookie is one refresh accepts (until it expires or the
\* account is suspended), unless requests of the session overlapped, one was
\* lost, or one is still outstanding: the rotation leaves the browser in step
\* with the server.
CookieInStep ==
  (/\ cookie # 0 /\ Outstanding(Family(cookie)) = {}
   /\ Family(cookie) \notin shared \cup lost) => ~ tokens[cookie].revoked

\* A session whose requests never overlapped and never got lost is never
\* mistaken for a stolen one.
OnlyDisturbedSessionsFlagged ==
  \A h \in Handlers : pc[h] = "revoke_walk" => Family(loc[h].row) \in shared \cup lost

\* refreshPromise is always released, so a tab never waits for ever on a
\* refresh and never loses the ability to start another one.
PromiseSettles == \A t \in Tabs : promise[t] ~> ~ promise[t]

-----------------------------------------------------------------------------
(* What makes the properties inductive *)

\* The browser only ever sends tokens a response delivered, and a handler works
\* on the token its request carries.
RequestsKnown ==
  /\ cookie # 0 => cookie \in delivered
  /\ \A h \in Handlers :
       /\ req[h].kind = "refresh" => req[h].cookie # 0
       /\ req[h].cookie # 0 => req[h].cookie \in delivered
       /\ loc[h].row # 0 => loc[h].row = req[h].cookie

\* Requests that overlap on the server overlapped on the network before.
OverlapsNoted ==
  /\ contended \subseteq shared
  /\ \A g, h \in Handlers :
       (/\ g # h /\ req[g].cookie # 0 /\ req[h].cookie # 0
        /\ Family(req[g].cookie) = Family(req[h].cookie))
         => Family(req[g].cookie) \in shared

\* The token an answer is about to carry is usable.
IssuedUsable ==
  \A h \in Handlers :
    (/\ pc[h] \in {"refresh_rotate", "answer_token"}
     /\ Family(loc[h].new) \notin contended) => ~ tokens[loc[h].new].revoked

\* The token of an undisturbed session is still usable when a handler reads it.
SentUsable ==
  \A h \in Handlers :
    (/\ pc[h] = "idle" /\ req[h].cookie # 0
     /\ Family(req[h].cookie) \notin shared \cup lost)
       => ~ tokens[req[h].cookie].revoked

\* The cookie of an undisturbed session is usable, or the answer that replaces
\* or deletes it is on its way.
CookieUsable ==
  (cookie # 0 /\ Family(cookie) \notin shared \cup lost) =>
    \/ ~ tokens[cookie].revoked
    \/ \E h \in Handlers : /\ pc[h] \in {"answer_token", "answer_logout"}
                           /\ loc[h].row # 0 /\ Family(loc[h].row) = Family(cookie)

BrowserInv ==
  /\ IInv /\ BrowserTypeOK /\ RequestsKnown /\ OverlapsNoted /\ IssuedUsable
  /\ SentUsable /\ CookieUsable /\ OnlyDisturbedSessionsFlagged
=============================================================================
