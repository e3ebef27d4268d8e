------------------------------ MODULE OtpService ------------------------------
(***************************************************************************)
(* One-time codes: services/otp_service.py and the endpoints of            *)
(* routers/auth.py up to the point where a login continues with            *)
(* issue_token_pair (module RefreshTokens).                                *)
(*                                                                         *)
(* A step of a handler ends at the verdict of the rate limit, at a SELECT  *)
(* whose result is used later or at a commit.  The rate limit of module    *)
(* OtpRateLimit may admit or refuse any request here.  Time is abstracted  *)
(* to its effect: a code expires at any moment.                            *)
(***************************************************************************)
EXTENDS Integers, Sequences, FiniteSets, OtpSettings

CONSTANTS
  MaxAttempts,  \* otp_max_attempts
  MaxRows       \* bound: rows of otp_challenge

ASSUME OtpAssumption ==
  /\ MaxAttempts \in Nat \ {0}
  /\ MaxRows \in Nat

VARIABLES
  challenges,  \* otp_challenge; a row's id is its index
  users,       \* destinations with an account
  pc,          \* where each handler is in its request
  loc,         \* what each handler holds in memory
  guesses,     \* history: verdicts committed on each row
  contended    \* history: challenges two requests worked on at the same time

rows == <<challenges, guesses, contended>>
vars == <<rows, users, pc, loc>>

OTPStatus == {"pending", "verified", "expired", "locked", "cancelled"}
OTPPurpose == {"login", "add_contact_channel"}
Challenge == [dest : Dests, purpose : OTPPurpose, status : OTPStatus,
              attempts : Nat, live : BOOLEAN]
Guesses == [wrong : Nat, right : Nat]

\* A handler that is about to write a row it has read
Writing == {"expired", "locked", "wrong", "verified", "cancel"}
PC == {"idle", "throttle", "insert", "send", "read_user", "create_user"} \cup Writing

\* row, attempts: the challenge as it was read
NoRequest == [row |-> 0, attempts |-> 0, dest |-> None, purpose |-> "login"]
Request == [row : Nat, attempts : Nat, dest : Dests \cup {None}, purpose : OTPPurpose]

TypeOK ==
  /\ challenges \in Seq(Challenge)
  /\ users \subseteq Dests
  /\ pc \in [Handlers -> PC]
  /\ loc \in [Handlers -> Request]
  /\ guesses \in Seq(Guesses)
  /\ contended \subseteq Nat

Init ==
  /\ challenges = << >>
  /\ users = {}
  /\ pc = [h \in Handlers |-> "idle"]
  /\ loc = [h \in Handlers |-> NoRequest]
  /\ guesses = << >>
  /\ contended = {}

-----------------------------------------------------------------------------
(* Helpers *)

Goto(h, from, to) == pc[h] = from /\ pc' = [pc EXCEPT ![h] = to] /\ UNCHANGED loc

\* The handler answers and forgets the request.
End(h, from) ==
  /\ pc[h] = from
  /\ pc' = [pc EXCEPT ![h] = "idle"]
  /\ loc' = [loc EXCEPT ![h] = NoRequest]

\* The handler starts on a request, or goes on with more in its memory.
With(h, from, to, memory) ==
  /\ pc[h] = from
  /\ pc' = [pc EXCEPT ![h] = to]
  /\ loc' = [loc EXCEPT ![h] = memory]

\* The bound on rows, reserving one for every request that may still insert.
Requesting == {h \in Handlers :
                 pc[h] \in {"cancel", "throttle", "insert"}}
RoomForOne == Len(challenges) + Cardinality(Requesting) < MaxRows

WorkingOn(i) == {h \in Handlers : pc[h] \in Writing /\ loc[h].row = i}

\* A request that will write row i starts: note whether another one is at it.
NoteContention(i) ==
  contended' = IF WorkingOn(i) # {} THEN contended \cup {i} ELSE contended

-----------------------------------------------------------------------------
(* request_otp *)

RequestBegin(h, d, p) ==
  /\ With(h, "idle", "throttle", [NoRequest EXCEPT !.dest = d, !.purpose = p])
  /\ RoomForOne
  /\ UNCHANGED <<rows, users>>

\* enforce_cooldown and enforce_otp_request_limits admit the request or not.
Throttle(h) ==
  /\ Goto(h, "throttle", "insert") \/ End(h, "throttle")
  /\ UNCHANGED <<rows, users>>

\* The row and its hash are flushed and committed in one transaction.
Insert(h) ==
  /\ Goto(h, "insert", "send")
  /\ challenges' = Append(challenges,
       [dest |-> loc[h].dest, purpose |-> loc[h].purpose,
        status |-> "pending", attempts |-> 0, live |-> TRUE])
  /\ guesses' = Append(guesses, [wrong |-> 0, right |-> 0])
  /\ UNCHANGED <<contended, users>>

\* _send_otp: the provider is called and its message id is stored.
SendOtp(h) ==
  /\ End(h, "send")
  /\ UNCHANGED <<rows, users>>

-----------------------------------------------------------------------------
(* verify_otp *)

\* The row is read; the checks are made on what was read, each with its write.
Verdict(row, right) ==
  CASE ~ row.live -> "expired"
    [] row.live /\ row.attempts >= MaxAttempts -> "locked"
    [] row.live /\ row.attempts < MaxAttempts /\ ~ right -> "wrong"
    [] row.live /\ row.attempts < MaxAttempts /\ right -> "verified"

Memory(i) == [NoRequest EXCEPT !.row = i, !.attempts = challenges[i].attempts,
                !.dest = challenges[i].dest, !.purpose = challenges[i].purpose]

VerifyBegin_AnyStatus(h, i, right) ==
  /\ With(h, "idle", Verdict(challenges[i], right), Memory(i))
  /\ NoteContention(i)
  /\ UNCHANGED <<challenges, guesses, users>>

VerifyBegin(h, i, right) ==
  /\ With(h, "idle", Verdict(challenges[i], right), Memory(i))
  /\ challenges[i].status = "pending"
  /\ NoteContention(i)
  /\ UNCHANGED <<challenges, guesses, users>>

\* A challenge that is not PENDING is refused without a write.
VerifyRefused(h, i) ==
  /\ pc[h] = "idle" /\ challenges[i].status # "pending"
  /\ UNCHANGED vars

\* The expired and the locked challenge get their status, and nothing else.
WriteRefusal(h) ==
  /\ pc[h] \in {"expired", "locked"}
  /\ End(h, pc[h])
  /\ challenges' = [challenges EXCEPT ![loc[h].row].status = pc[h]]
  /\ UNCHANGED <<guesses, contended, users>>

\* attempt_count is written as the value read before, plus one.
WriteWrong_NeverLocks(h) ==
  LET i == loc[h].row
  IN  /\ End(h, "wrong")
      /\ challenges' = [challenges EXCEPT ![i].attempts = loc[h].attempts + 1]
      /\ guesses' = [guesses EXCEPT ![i].wrong = guesses[i].wrong + 1]
      /\ UNCHANGED <<contended, users>>

WriteWrong(h) ==
  LET i == loc[h].row
      tries == loc[h].attempts + 1
      status == IF tries >= MaxAttempts THEN "locked" ELSE challenges[i].status
  IN  /\ End(h, "wrong")
      /\ challenges' = [challenges EXCEPT ![i].attempts = tries, ![i].status = status]
      /\ guesses' = [guesses EXCEPT ![i].wrong = guesses[i].wrong + 1]
      /\ UNCHANGED <<contended, users>>

\* The router logs in for the purpose LOGIN only.
LogIn(h) ==
  \/ Goto(h, "verified", "read_user") /\ loc[h].purpose = "login"
  \/ End(h, "verified") /\ loc[h].purpose # "login"

WriteVerified(h) ==
  LET i == loc[h].row
  IN  /\ LogIn(h)
      /\ challenges' = [challenges EXCEPT ![i].status = "verified"]
      /\ guesses' = [guesses EXCEPT ![i].right = guesses[i].right + 1]
      /\ UNCHANGED <<contended, users>>

\* get_or_create_user
ReadUser(h) ==
  /\ \/ End(h, "read_user") /\ loc[h].dest \in users
     \/ Goto(h, "read_user", "create_user") /\ loc[h].dest \notin users
  /\ UNCHANGED <<rows, users>>

\* The unique index refuses a second account; the request then fails.
CreateUser(h) ==
  /\ End(h, "create_user")
  /\ users' = users \cup {loc[h].dest}
  /\ UNCHANGED <<rows>>

-----------------------------------------------------------------------------
(* resend_otp *)

\* A PENDING challenge is cancelled, in a commit of its own, ...
ResendBegin(h, i) ==
  /\ \/ /\ With(h, "idle", "cancel", Memory(i))
        /\ challenges[i].status = "pending"
        /\ NoteContention(i)
     \/ /\ With(h, "idle", "throttle", [Memory(i) EXCEPT !.row = 0, !.attempts = 0])
        /\ challenges[i].status # "pending"
        /\ UNCHANGED contended
  /\ RoomForOne
  /\ UNCHANGED <<challenges, guesses, users>>

\* ... before the new request meets the cooldown and the limits.
Cancel_Reopens(h) ==
  /\ With(h, "cancel", "throttle", [loc[h] EXCEPT !.row = 0, !.attempts = 0])
  /\ challenges' = [challenges EXCEPT ![loc[h].row].status = "pending"]
  /\ UNCHANGED <<guesses, contended, users>>

Cancel(h) ==
  /\ With(h, "cancel", "throttle", [loc[h] EXCEPT !.row = 0, !.attempts = 0])
  /\ challenges' = [challenges EXCEPT ![loc[h].row].status = "cancelled"]
  /\ UNCHANGED <<guesses, contended, users>>

-----------------------------------------------------------------------------
(* Failures and time *)

\* An exception (the provider, Redis or the database) or a killed worker: the
\* request ends where it is.
Fail(h) ==
  /\ pc[h] # "idle"
  /\ End(h, pc[h])
  /\ UNCHANGED <<rows, users>>

CodeExpires(i) ==
  /\ challenges[i].live
  /\ challenges' = [challenges EXCEPT ![i].live = FALSE]
  /\ UNCHANGED <<guesses, contended, users, pc, loc>>

Continue(h) ==
  \/ Throttle(h) \/ Insert(h) \/ SendOtp(h)
  \/ WriteRefusal(h) \/ WriteWrong(h) \/ WriteVerified(h)
  \/ ReadUser(h) \/ CreateUser(h) \/ Cancel(h)

Begin(h) ==
  \/ \E d \in Dests, p \in OTPPurpose : RequestBegin(h, d, p)
  \/ \E i \in DOMAIN challenges :
       \/ \E right \in BOOLEAN : VerifyBegin(h, i, right)
       \/ VerifyRefused(h, i)
       \/ ResendBegin(h, i)

Next ==
  \/ \E h \in Handlers : Begin(h) \/ Continue(h) \/ Fail(h)
  \/ \E i \in DOMAIN challenges : CodeExpires(i)

Spec == Init /\ [][Next]_vars

-----------------------------------------------------------------------------
(* Properties *)

\* A code is accepted once ("OTP is single-use", section 4.1 of the OTP plan):
\* among requests that did not overlap, a right code is accepted at most once,
\* and the challenge is then VERIFIED for good.
OneTimeUse ==
  \A i \in DOMAIN challenges \ contended :
    /\ guesses[i].right <= 1
    /\ guesses[i].right = 1 <=> challenges[i].status = "verified"

\* A challenge that is still PENDING has attempts left, whatever requests
\* overlap.  Without overlap attempt_count counts the wrong codes, and the last
\* one that is allowed locks the challenge: nothing is compared after it.
AttemptsLimited ==
  \A i \in DOMAIN challenges :
    /\ challenges[i].status = "pending" => challenges[i].attempts < MaxAttempts
    /\ i \notin contended =>
         /\ challenges[i].attempts = guesses[i].wrong
         /\ guesses[i].wrong <= MaxAttempts
         /\ guesses[i].wrong = MaxAttempts => challenges[i].status = "locked"

\* A challenge never becomes PENDING again, whatever requests overlap, so no
\* cancelled or used code comes back to life; and without overlap no settled
\* challenge changes its status (a late answer does not lock a verified one).
StatusSettles ==
  \A i \in DOMAIN challenges :
    LET old == challenges[i].status
        new == challenges'[i].status
    IN  old # new => /\ new # "pending"
                     /\ old # "pending" => i \in contended
SettledStays == [][StatusSettles]_vars

-----------------------------------------------------------------------------
(* What makes the properties above inductive *)

\* The history has one entry per row.
Aligned == DOMAIN guesses = DOMAIN challenges

\* What a handler at p that holds l knows: the row it is about to write was read
\* with attempts left (so it never goes to "locked"), and is still as it was read
\* unless another request works on it.
Held(p, l) ==
  /\ p # "idle" => l.dest \in Dests
  /\ p \in Writing =>
       /\ p # "locked"
       /\ l.row \in DOMAIN challenges
       /\ l.attempts < MaxAttempts
       /\ l.row \notin contended =>
            /\ challenges[l.row].status = "pending"
            /\ challenges[l.row].attempts = l.attempts

HandlersHold == \A h \in Handlers : Held(pc[h], loc[h])

\* Two requests that work on one row were noted.
Separate ==
  \A g, h \in Handlers :
    (g # h /\ pc[g] \in Writing /\ pc[h] \in Writing /\ loc[g].row = loc[h].row)
      => loc[g].row \in contended

IInv == TypeOK /\ Aligned /\ HandlersHold /\ Separate /\ OneTimeUse /\ AttemptsLimited
=============================================================================
