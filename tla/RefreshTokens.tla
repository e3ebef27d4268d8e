---------------------------- MODULE RefreshTokens ----------------------------
(***************************************************************************)
(* Rotating refresh tokens: services/auth_service.py and the endpoints of  *)
(* routers/auth.py that call it.                                           *)
(*                                                                         *)
(* As in OrderService every request runs in a handler of its own; a step   *)
(* ends at a SELECT whose result is used later or at a commit.  refresh    *)
(* commits TWICE: issue_token_pair commits the new row, and only then is   *)
(* the old row revoked and linked to it, by an UPDATE of a row that was    *)
(* read before the first commit.  Everything between the two commits can   *)
(* be interleaved with other requests or cut off by a crash.               *)
(*                                                                         *)
(* What a client may present is a token some response delivered to it, old *)
(* or current, in any order and any number of times.                       *)
(***************************************************************************)
EXTENDS Integers, Sequences, FiniteSets

CONSTANTS
  Handlers,   \* request handlers
  Users,      \* accounts
  None,       \* no user
  Lifetime,   \* refresh_token_expire_days, in ticks of the clock
  MaxTokens,  \* bound: rows of refresh_tokens
  MaxClock    \* bound: last instant of the clock

ASSUME RefreshTokensAssumption ==
  /\ None \notin Users
  /\ Lifetime \in Nat
  /\ MaxTokens \in Nat
  /\ MaxClock \in Nat

VARIABLES
  tokens,     \* refresh_tokens; a row's id is its index
  status,     \* users.status
  clock,      \* utcnow()
  pc,         \* where each handler is in its request
  loc,        \* what each handler holds in memory
  origin,     \* history: the row a token was issued for, and its login
  delivered,  \* history: tokens a response carried to a client
  contended   \* history: logins two requests worked on at the same time

vars == <<tokens, status, clock, pc, loc, origin, delivered, contended>>

Token == [user : Users, expires : Nat, revoked : BOOLEAN, replaced_by : Nat]
Origin == [parent : Nat, family : Nat]
UserStatus == {"active", "suspended"}

PC == {"idle", "login_issue", "refresh_user", "refresh_issue", "refresh_rotate",
       "revoke_walk", "logout_commit",
       "answer_token", "answer_denied", "answer_logout"}

\* row: the presented token; new: the token being issued; cur, held: the row
\* _revoke_chain_forward reads next and those it has marked but not committed.
NoRequest == [user |-> None, row |-> 0, new |-> 0, cur |-> 0, held |-> {}]
Request == [user : Users \cup {None}, row : Nat, new : Nat, cur : Nat,
            held : SUBSET Nat]

TypeOK ==
  /\ tokens \in Seq(Token)
  /\ status \in [Users -> UserStatus]
  /\ clock \in Nat
  /\ pc \in [Handlers -> PC]
  /\ loc \in [Handlers -> Request]
  /\ origin \in Seq(Origin)
  /\ delivered \subseteq Nat
  /\ contended \subseteq Nat

Init ==
  /\ tokens = << >>
  /\ status = [u \in Users |-> "active"]
  /\ clock = 0
  /\ pc = [h \in Handlers |-> "idle"]
  /\ loc = [h \in Handlers |-> NoRequest]
  /\ origin = << >>
  /\ delivered = {}
  /\ contended = {}

-----------------------------------------------------------------------------
(* Helpers *)

Goto(h, from, to) == pc[h] = from /\ pc' = [pc EXCEPT ![h] = to]

Fresh == Len(tokens) + 1

\* The bound on rows, reserving one for every request that may still insert.
Issuing == {h \in Handlers :
              pc[h] \in {"login_issue", "refresh_user", "refresh_issue"}}
RoomForOne == Len(tokens) + Cardinality(Issuing) < MaxTokens

Family(i) == origin[i].family

\* Requests in progress on the login that row i descends from.
WorkingOn(f) == {h \in Handlers : pc[h] # "idle" /\ loc[h].row # 0
                                    /\ Family(loc[h].row) = f}

\* A request on row i starts: note whether its login is already being worked on.
NoteContention(i) ==
  contended' = IF WorkingOn(Family(i)) # {} THEN contended \cup {Family(i)}
                                            ELSE contended

\* decode_token: the JWT carries the same expiry as the row.
Expired(i) == clock > tokens[i].expires

NewRow(u) == [user |-> u, expires |-> clock + Lifetime,
              revoked |-> FALSE, replaced_by |-> 0]

-----------------------------------------------------------------------------
(* verify_otp of the router, once the code was accepted and the user found *)

LoginBegin(h, u) ==
  /\ Goto(h, "idle", "login_issue")
  /\ RoomForOne
  /\ status[u] = "active"
  /\ loc' = [loc EXCEPT ![h] = [NoRequest EXCEPT !.user = u]]
  /\ UNCHANGED <<tokens, status, clock, origin, delivered, contended>>

\* issue_token_pair: one INSERT, committed at once.
LoginIssue(h) ==
  /\ Goto(h, "login_issue", "answer_token")
  /\ tokens' = Append(tokens, NewRow(loc[h].user))
  /\ origin' = Append(origin, [parent |-> 0, family |-> Fresh])
  /\ loc' = [loc EXCEPT ![h].new = Fresh]
  /\ UNCHANGED <<status, clock, delivered, contended>>

-----------------------------------------------------------------------------
(* refresh *)

\* The row is read; a revoked one starts _revoke_chain_forward from it.
RefreshBegin_IgnoresRevocation(h, i) ==
  /\ \/ /\ ~ Expired(i)
        /\ RoomForOne
        /\ Goto(h, "idle", "refresh_user")
     \/ /\ Expired(i)
        /\ Goto(h, "idle", "answer_denied")
  /\ loc' = [loc EXCEPT ![h] = [NoRequest EXCEPT !.row = i,
                                   !.user = tokens[i].user]]
  /\ NoteContention(i)
  /\ UNCHANGED <<tokens, status, clock, origin, delivered>>

RefreshBegin(h, i) ==
  /\ \/ /\ ~ Expired(i) /\ tokens[i].revoked
        /\ Goto(h, "idle", "revoke_walk")
     \/ /\ ~ Expired(i) /\ ~ tokens[i].revoked
        /\ RoomForOne
        /\ Goto(h, "idle", "refresh_user")
     \/ /\ Expired(i)
        /\ Goto(h, "idle", "answer_denied")
  /\ loc' = [loc EXCEPT ![h] =
               [NoRequest EXCEPT !.row = i, !.user = tokens[i].user,
                                 !.cur = tokens[i].replaced_by]]
  /\ NoteContention(i)
  /\ UNCHANGED <<tokens, status, clock, origin, delivered>>

RefreshReadUser(h) ==
  /\ \/ Goto(h, "refresh_user", "refresh_issue") /\ status[loc[h].user] = "active"
     \/ Goto(h, "refresh_user", "answer_denied") /\ status[loc[h].user] = "suspended"
  /\ UNCHANGED <<tokens, status, clock, loc, origin, delivered, contended>>

\* issue_token_pair: the first commit.  The old row is still valid.
RefreshIssue(h) ==
  /\ Goto(h, "refresh_issue", "refresh_rotate")
  /\ tokens' = Append(tokens, NewRow(loc[h].user))
  /\ origin' = Append(origin, [parent |-> loc[h].row, family |-> Family(loc[h].row)])
  /\ loc' = [loc EXCEPT ![h].new = Fresh]
  /\ UNCHANGED <<status, clock, delivered, contended>>

\* The second commit writes revoked_at and replaced_by, whatever the row holds
\* by now.
RefreshRotate_KeepsOld(h) ==
  /\ Goto(h, "refresh_rotate", "answer_token")
  /\ tokens' = [tokens EXCEPT ![loc[h].row].replaced_by = loc[h].new]
  /\ UNCHANGED <<status, clock, loc, origin, delivered, contended>>

RefreshRotate(h) ==
  /\ Goto(h, "refresh_rotate", "answer_token")
  /\ tokens' = [tokens EXCEPT ![loc[h].row].revoked = TRUE,
                              ![loc[h].row].replaced_by = loc[h].new]
  /\ UNCHANGED <<status, clock, loc, origin, delivered, contended>>

\* _revoke_chain_forward: one SELECT per row of the chain ...
RevokeWalk_NextOnly(h) ==
  LET i == loc[h].cur
  IN  /\ pc[h] = "revoke_walk" /\ i # 0
      /\ loc' = [loc EXCEPT ![h].cur = 0,
                            ![h].held = IF tokens[i].revoked THEN @ ELSE @ \cup {i}]
      /\ UNCHANGED <<tokens, status, clock, pc, origin, delivered, contended>>

RevokeWalk_NeverAdvances(h) ==
  LET i == loc[h].cur
  IN  /\ pc[h] = "revoke_walk" /\ i # 0
      /\ loc' = [loc EXCEPT ![h].held = IF tokens[i].revoked THEN @ ELSE @ \cup {i}]
      /\ UNCHANGED <<tokens, status, clock, pc, origin, delivered, contended>>

RevokeWalk(h) ==
  LET i == loc[h].cur
  IN  /\ pc[h] = "revoke_walk" /\ i # 0
      /\ loc' = [loc EXCEPT ![h].cur = tokens[i].replaced_by,
                            ![h].held = IF tokens[i].revoked THEN @ ELSE @ \cup {i}]
      /\ UNCHANGED <<tokens, status, clock, pc, origin, delivered, contended>>

\* ... and one commit for all rows that were read as not revoked.
RevokeCommit_Toggles(h) ==
  /\ loc[h].cur = 0
  /\ Goto(h, "revoke_walk", "answer_denied")
  /\ tokens' = [i \in DOMAIN tokens |->
                  IF i \in loc[h].held \cup {loc[h].row}
                  THEN [tokens[i] EXCEPT !.revoked = ~ @] ELSE tokens[i]]
  /\ UNCHANGED <<status, clock, loc, origin, delivered, contended>>

RevokeCommit(h) ==
  /\ loc[h].cur = 0
  /\ Goto(h, "revoke_walk", "answer_denied")
  /\ tokens' = [i \in DOMAIN tokens |->
                  IF i \in loc[h].held THEN [tokens[i] EXCEPT !.revoked = TRUE]
                                       ELSE tokens[i]]
  /\ UNCHANGED <<status, clock, loc, origin, delivered, contended>>

-----------------------------------------------------------------------------
(* logout *)

LogoutBegin(h, i) ==
  /\ \/ ~ tokens[i].revoked /\ Goto(h, "idle", "logout_commit")
     \/ tokens[i].revoked /\ Goto(h, "idle", "answer_logout")
  /\ loc' = [loc EXCEPT ![h] = [NoRequest EXCEPT !.row = i]]
  /\ NoteContention(i)
  /\ UNCHANGED <<tokens, status, clock, origin, delivered>>

LogoutCommit(h) ==
  /\ Goto(h, "logout_commit", "answer_logout")
  /\ tokens' = [tokens EXCEPT ![loc[h].row].revoked = TRUE]
  /\ UNCHANGED <<status, clock, loc, origin, delivered, contended>>

-----------------------------------------------------------------------------
(* Answers, failures and the rest of the world *)

\* The response reaches the client; only an issued token is news to it.
Respond(h) ==
  /\ pc[h] \in {"answer_token", "answer_denied", "answer_logout"}
  /\ pc' = [pc EXCEPT ![h] = "idle"]
  /\ loc' = [loc EXCEPT ![h] = NoRequest]
  /\ delivered' = IF pc[h] = "answer_token" THEN delivered \cup {loc[h].new}
                                            ELSE delivered
  /\ UNCHANGED <<tokens, status, clock, origin, contended>>

\* An exception, a killed worker or a lost response: what was not committed is
\* gone and the client learns nothing.
Fail(h) ==
  /\ pc[h] # "idle"
  /\ pc' = [pc EXCEPT ![h] = "idle"]
  /\ loc' = [loc EXCEPT ![h] = NoRequest]
  /\ UNCHANGED <<tokens, status, clock, origin, delivered, contended>>

\* set_user_suspended
UserStatusChanges(u) ==
  /\ \E s \in UserStatus \ {status[u]} : status' = [status EXCEPT ![u] = s]
  /\ UNCHANGED <<tokens, clock, pc, loc, origin, delivered, contended>>

Tick ==
  /\ clock < MaxClock
  /\ clock' = clock + 1
  /\ UNCHANGED <<tokens, status, pc, loc, origin, delivered, contended>>

\* A handler that has begun a request goes on with it.
Continue(h) ==
  \/ LoginIssue(h)
  \/ RefreshReadUser(h)
  \/ RefreshIssue(h)
  \/ RefreshRotate(h)
  \/ RevokeWalk(h)
  \/ RevokeCommit(h)
  \/ LogoutCommit(h)
  \/ Respond(h)

Next ==
  \/ \E h \in Handlers :
       \/ \E u \in Users : LoginBegin(h, u)
       \/ \E i \in delivered : RefreshBegin(h, i) \/ LogoutBegin(h, i)
       \/ Continue(h)
       \/ Fail(h)
  \/ \E u \in Users : UserStatusChanges(u)
  \/ Tick

Fairness == \A h \in Handlers : WF_vars(Continue(h))

Spec == Init /\ [][Next]_vars /\ Fairness

-----------------------------------------------------------------------------
(* Properties *)

\* Every replaced_by link leads to a newer row, issued to the same user in
\* exchange for the row that carries the link, so _revoke_chain_forward never
\* runs in a circle or into another session, whatever races overwrote the link.
ChainPointsForward ==
  \A i \in DOMAIN tokens :
    LET j == tokens[i].replaced_by
    IN  j # 0 => /\ j \in DOMAIN tokens /\ j > i
                 /\ origin[j].parent = i
                 /\ tokens[j].user = tokens[i].user

\* A client that holds a token got it in exchange for one that is revoked for
\* good: the second commit of refresh comes before the response, so neither a
\* crash between the commits nor a racing logout leaves a predecessor usable.
DeliveredReplacesParent ==
  \A i \in delivered : origin[i].parent # 0 => tokens[origin[i].parent].revoked

\* Rows of a login that a client was given and refresh would still accept.
LiveOf(f) == {i \in delivered : Family(i) = f /\ ~ tokens[i].revoked}

\* A login whose requests never overlapped has at most one usable token in
\* clients' hands, after any number of crashes, lost responses and reuses.
SingleLiveToken ==
  \A i, j \in delivered :
    (/\ Family(i) = Family(j) /\ Family(i) \notin contended
     /\ ~ tokens[i].revoked /\ ~ tokens[j].revoked) => i = j

\* revoked_at is never cleared, and a row is revoked only by a request that
\* presented a token of the same login: detecting a reuse never ends another
\* session, of this user or of anybody else.
RevocationIsLocal ==
  \A i \in DOMAIN tokens :
    /\ tokens[i].revoked => tokens'[i].revoked
    /\ tokens'[i].revoked # tokens[i].revoked => WorkingOn(Family(i)) # {}
RevocationStaysLocal == [][RevocationIsLocal]_vars

\* "The whole chain is revoked" (the comment in refresh): when a reuse was
\* detected on a login whose requests never overlapped, the commit of
\* _revoke_chain_forward leaves it no usable token.
ReuseEndsSession ==
  \A h \in Handlers :
    (/\ pc[h] = "revoke_walk" /\ pc'[h] = "answer_denied"
     /\ Family(loc[h].row) \notin contended) => LiveOf(Family(loc[h].row))' = {}
ReuseEndsTheSession == [][ReuseEndsSession]_vars

\* Every request ends: in particular the chain walk terminates while other
\* requests keep lengthening and rewiring the chain.
RequestsEnd == \A h \in Handlers : pc[h] # "idle" ~> pc[h] = "idle"

-----------------------------------------------------------------------------
(* What makes the properties inductive *)

\* Every row was inserted by a login or in exchange for a delivered row, whose
\* user and login it inherits.
Lineage ==
  /\ DOMAIN origin = DOMAIN tokens
  /\ delivered \subseteq DOMAIN tokens
  /\ \A i \in DOMAIN tokens :
       LET p == origin[i].parent
       IN  /\ p # 0 => /\ p \in delivered /\ p < i
                       /\ Family(p) = Family(i)
                       /\ tokens[p].user = tokens[i].user
           /\ p = 0 => Family(i) = i
           /\ Family(i) = i \/ Family(i) \in delivered

\* What a handler at p may hold in memory l about the table.
Held(p, l) ==
  /\ p = "idle" => l = NoRequest
  /\ l.row # 0 => l.row \in delivered
  /\ p = "login_issue" => l.user \in Users /\ l.row = 0 /\ l.new = 0
  /\ p \in {"refresh_user", "refresh_issue", "refresh_rotate"} =>
       l.row # 0 /\ l.user = tokens[l.row].user
  /\ p \in {"revoke_walk", "logout_commit"} => l.row # 0
  /\ p \in {"refresh_rotate", "answer_token"} => l.new # 0
  /\ p \in {"refresh_user", "refresh_issue"} => l.new = 0
  /\ l.new # 0 => l.new \in DOMAIN tokens /\ origin[l.new].parent = l.row
  /\ (p = "answer_token" /\ l.row # 0) => tokens[l.row].revoked
  /\ \A i \in ({l.cur} \ {0}) \cup l.held :
       l.row # 0 /\ i \in DOMAIN tokens /\ Family(i) = Family(l.row)

\* What a handler alone on its login knows about the tokens of that login.
Sole(p, l) ==
  (l.row # 0 /\ Family(l.row) \notin contended) =>
    /\ p \in {"refresh_user", "refresh_issue", "refresh_rotate"} =>
         \A i \in delivered :
           (Family(i) = Family(l.row) /\ ~ tokens[i].revoked) => i = l.row
    /\ p = "answer_token" =>
         \A i \in delivered : Family(i) = Family(l.row) => tokens[i].revoked

HandlersHold == \A h \in Handlers : Held(pc[h], loc[h]) /\ Sole(pc[h], loc[h])

\* Overlapping requests were noted, and no two handlers issue the same token.
Separate ==
  \A g, h \in Handlers : g # h =>
    /\ (loc[g].row # 0 /\ loc[h].row # 0 /\ Family(loc[g].row) = Family(loc[h].row))
         => Family(loc[g].row) \in contended
    /\ loc[g].new # 0 => loc[g].new # loc[h].new

\* A login's token is nobody's before its answer is delivered.
LoginsUndelivered ==
  \A h \in Handlers : (loc[h].row = 0 /\ loc[h].new # 0) => loc[h].new \notin delivered

IInv ==
  /\ TypeOK /\ Lineage /\ ChainPointsForward /\ DeliveredReplacesParent
  /\ SingleLiveToken /\ HandlersHold /\ Separate /\ LoginsUndelivered

\* Following replaced_by from any delivered row of login f stays on delivered
\* rows until it meets row j.
LinkedTo(f, j) ==
  \A i \in delivered : (Family(i) = f /\ i # j) =>
    tokens[i].replaced_by \in delivered /\ tokens[i].replaced_by <= j

\* In a login whose requests never overlapped every delivered row leads to the
\* usable one.
ChainKept ==
  \A j \in delivered :
    (Family(j) \notin contended /\ ~ tokens[j].revoked) => LinkedTo(Family(j), j)

\* What a handler alone on its login knows about the links of that login: the
\* walk of _revoke_chain_forward has marked the usable row or is on its way to it.
SoleOnChain(p, l) ==
  (l.row # 0 /\ Family(l.row) \notin contended) =>
    /\ p \in {"refresh_user", "refresh_issue", "refresh_rotate"} =>
         ~ tokens[l.row].revoked
    /\ p = "answer_token" =>
         tokens[l.row].replaced_by = l.new /\ LinkedTo(Family(l.row), l.row)
    /\ p = "revoke_walk" =>
         \A j \in LiveOf(Family(l.row)) :
           j \in l.held \/ (l.cur \in delivered /\ l.cur <= j)

ChainInv == ChainKept /\ \A h \in Handlers : SoleOnChain(pc[h], loc[h])
=============================================================================
