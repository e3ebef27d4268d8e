--------------------------- MODULE OtpServiceProofs ---------------------------
(***************************************************************************)
(* Proofs about OtpService for any number of handlers, challenges and      *)
(* attempts.  The invariant IInv adds to the properties what a handler     *)
(* knows of the row it has read and not written yet: nothing once another  *)
(* request has worked on that row, everything before.                      *)
(***************************************************************************)
EXTENDS OtpService, SequenceTheorems, TLAPS

-----------------------------------------------------------------------------
(* Steps by what they write *)

LEMMA NoRequestType == NoRequest \in Request /\ NoRequest.row = 0
BY DEF NoRequest, Request, OTPPurpose

\* A handler moves on, alone or noting that it shares a row; no row is written.
LEMMA MemoryStep ==
  ASSUME IInv, NEW h \in Handlers, NEW p \in PC, NEW l \in Request,
         pc' = [pc EXCEPT ![h] = p], loc' = [loc EXCEPT ![h] = l],
         UNCHANGED <<challenges, guesses>>, users' \subseteq Dests,
         contended \subseteq contended', contended' \subseteq Nat,
         Held(p, l)',
         p \in Writing =>
           \A g \in Handlers \ {h} :
             (pc[g] \in Writing /\ loc[g].row = l.row) => l.row \in contended'
  PROVE  IInv'
<1>0. /\ TypeOK /\ Aligned /\ HandlersHold /\ Separate /\ OneTimeUse /\ AttemptsLimited
  BY DEF IInv
<1>1. /\ pc' \in [Handlers -> PC] /\ loc' \in [Handlers -> Request]
      /\ pc'[h] = p /\ loc'[h] = l
      /\ \A g \in Handlers \ {h} : pc'[g] = pc[g] /\ loc'[g] = loc[g]
  BY <1>0 DEF TypeOK
<1>2. TypeOK' /\ Aligned'
  BY <1>0, <1>1 DEF TypeOK, Aligned
<1>3. HandlersHold'
  <2> SUFFICES ASSUME NEW g \in Handlers PROVE Held(pc[g], loc[g])'
    BY DEF HandlersHold
  <2>1. CASE g = h
    BY <1>1, <2>1
  <2>2. CASE g # h
    <3>1. Held(pc[g], loc[g])
      BY <1>0 DEF HandlersHold
    <3> QED
      BY <1>1, <2>2, <3>1 DEF Held
  <2> QED
    BY <2>1, <2>2
<1>4. Separate'
  <2> SUFFICES ASSUME NEW f \in Handlers, NEW g \in Handlers, f # g,
                      pc'[f] \in Writing, pc'[g] \in Writing, loc'[f].row = loc'[g].row
               PROVE  loc'[f].row \in contended'
    BY DEF Separate
  <2>1. CASE f # h /\ g # h
    BY <1>0, <1>1, <2>1 DEF Separate
  <2>2. CASE f = h
    BY <1>1, <2>2
  <2>3. CASE g = h
    BY <1>1, <2>3
  <2> QED
    BY <2>1, <2>2, <2>3
<1>5. OneTimeUse' /\ AttemptsLimited'
  BY <1>0 DEF OneTimeUse, AttemptsLimited
<1> QED
  BY <1>2, <1>3, <1>4, <1>5 DEF IInv

\* What the properties say of one row.
RowOK(i) ==
  /\ challenges[i].status = "pending" => challenges[i].attempts < MaxAttempts
  /\ i \notin contended =>
       /\ guesses[i].right <= 1
       /\ guesses[i].right = 1 <=> challenges[i].status = "verified"
       /\ challenges[i].attempts = guesses[i].wrong
       /\ guesses[i].wrong <= MaxAttempts
       /\ guesses[i].wrong = MaxAttempts => challenges[i].status = "locked"

LEMMA RowsOK ==
  (OneTimeUse /\ AttemptsLimited) <=> \A i \in DOMAIN challenges : RowOK(i)
BY DEF OneTimeUse, AttemptsLimited, RowOK

\* A handler writes the row it holds and is done with it.
LEMMA WriteStep ==
  ASSUME IInv, NEW h \in Handlers, pc[h] \in Writing,
         NEW p \in PC \ Writing, NEW l \in Request,
         pc' = [pc EXCEPT ![h] = p], loc' = [loc EXCEPT ![h] = l],
         p # "idle" => l.dest \in Dests,
         NEW c \in Challenge, challenges' = [challenges EXCEPT ![loc[h].row] = c],
         NEW k \in Guesses, guesses' = [guesses EXCEPT ![loc[h].row] = k],
         UNCHANGED <<contended, users>>,
         c.status = "pending" => c.attempts < MaxAttempts,
         loc[h].row \notin contended =>
           /\ k.right <= 1
           /\ k.right = 1 <=> c.status = "verified"
           /\ c.attempts = k.wrong
           /\ k.wrong <= MaxAttempts
           /\ k.wrong = MaxAttempts => c.status = "locked"
  PROVE  IInv'
<1>a. PICK i : i = loc[h].row
  OBVIOUS
<1>0. /\ TypeOK /\ Aligned /\ HandlersHold /\ Separate /\ OneTimeUse /\ AttemptsLimited
  BY DEF IInv
<1>1. /\ pc' \in [Handlers -> PC] /\ loc' \in [Handlers -> Request]
      /\ pc'[h] = p /\ loc'[h] = l
      /\ \A g \in Handlers \ {h} : pc'[g] = pc[g] /\ loc'[g] = loc[g]
  BY <1>0 DEF TypeOK
<1>2. i \in DOMAIN challenges
  BY <1>a, <1>0 DEF HandlersHold, Held
<1>3. /\ challenges' \in Seq(Challenge) /\ DOMAIN challenges' = DOMAIN challenges
      /\ \A j \in DOMAIN challenges : challenges'[j] = IF j = i THEN c ELSE challenges[j]
  BY <1>a, <1>0, <1>2, LenProperties, ExceptSeq DEF TypeOK
<1>4. /\ guesses' \in Seq(Guesses) /\ DOMAIN guesses' = DOMAIN guesses
      /\ \A j \in DOMAIN guesses : guesses'[j] = IF j = i THEN k ELSE guesses[j]
  BY <1>a, <1>0, <1>2, LenProperties, ExceptSeq DEF TypeOK, Aligned
<1>5. TypeOK' /\ Aligned'
  BY <1>0, <1>1, <1>3, <1>4 DEF TypeOK, Aligned
<1>6. HandlersHold'
  <2> SUFFICES ASSUME NEW g \in Handlers PROVE Held(pc[g], loc[g])'
    BY DEF HandlersHold
  <2>1. CASE g = h
    BY <1>1, <2>1 DEF Held
  <2>2. CASE g # h
    <3>1. Held(pc[g], loc[g])
      BY <1>0 DEF HandlersHold
    <3>2. pc[g] \in Writing /\ loc[g].row = i => i \in contended
      BY <1>a, <1>0, <2>2 DEF Separate
    <3> QED
      BY <1>1, <1>3, <2>2, <3>1, <3>2 DEF Held
  <2> QED
    BY <2>1, <2>2
<1>7. Separate'
  BY <1>0, <1>1 DEF Separate
<1>8. (OneTimeUse /\ AttemptsLimited)'
  <2>1. \A j \in DOMAIN challenges : RowOK(j)
    BY <1>0, RowsOK
  <2>2. challenges'[i] = c /\ guesses'[i] = k
    BY <1>0, <1>2, <1>3, <1>4 DEF Aligned
  <2>3. RowOK(i)'
    BY <1>a, <2>2 DEF RowOK
  <2>4. \A j \in DOMAIN challenges \ {i} : RowOK(j)'
    BY <1>0, <1>3, <1>4, <2>1 DEF RowOK, Aligned
  <2>5. \A j \in DOMAIN challenges' : RowOK(j)'
    BY <1>3, <2>3, <2>4
  <2> QED
    BY <2>5 DEF OneTimeUse, AttemptsLimited, RowOK
<1> QED
  BY <1>5, <1>6, <1>7, <1>8 DEF IInv

-----------------------------------------------------------------------------
(* The actions *)

LEMMA InitInv == Init => IInv
BY NoRequestType
   DEF Init, IInv, TypeOK, Aligned, HandlersHold, Held, Separate, OneTimeUse,
       AttemptsLimited, PC, Writing

LEMMA EndInv ==
  ASSUME IInv, NEW h \in Handlers, NEW from, End(h, from), UNCHANGED <<rows>>,
         users' \subseteq Dests
  PROVE  IInv'
<1>1. "idle" \in PC /\ "idle" \notin Writing
  BY DEF PC, Writing
<1>2. Held("idle", NoRequest)'
  BY <1>1 DEF Held
<1> QED
  BY <1>1, <1>2, NoRequestType, MemoryStep DEF End, rows, IInv, TypeOK

LEMMA GotoInv ==
  ASSUME IInv, NEW h \in Handlers, NEW from \in PC \ {"idle"}, NEW to \in PC \ Writing,
         Goto(h, from, to), UNCHANGED <<rows, users>>
  PROVE  IInv'
<1>1. /\ loc[h] \in Request /\ loc[h].dest \in Dests /\ users \subseteq Dests
      /\ contended \subseteq Nat /\ loc' = [loc EXCEPT ![h] = loc[h]]
  BY DEF Goto, IInv, TypeOK, HandlersHold, Held
<1>2. PICK l : l = loc[h]
  OBVIOUS
<1>3. Held(to, l)'
  BY <1>1, <1>2 DEF Held
<1> QED
  BY <1>1, <1>2, <1>3, MemoryStep DEF Goto, rows

LEMMA ThrottleInv ==
  ASSUME IInv, NEW h \in Handlers, Throttle(h)
  PROVE  IInv'
<1>1. CASE Goto(h, "throttle", "insert")
  BY <1>1, GotoInv DEF Throttle, PC, Writing
<1>2. CASE End(h, "throttle")
  BY <1>2, EndInv DEF Throttle, IInv, TypeOK
<1> QED
  BY <1>1, <1>2 DEF Throttle

LEMMA ReadUserInv ==
  ASSUME IInv, NEW h \in Handlers, ReadUser(h)
  PROVE  IInv'
<1>1. CASE Goto(h, "read_user", "create_user")
  BY <1>1, GotoInv DEF ReadUser, PC, Writing
<1>2. CASE End(h, "read_user")
  BY <1>2, EndInv DEF ReadUser, IInv, TypeOK
<1> QED
  BY <1>1, <1>2 DEF ReadUser

LEMMA CreateUserInv ==
  ASSUME IInv, NEW h \in Handlers, CreateUser(h)
  PROVE  IInv'
<1>1. loc[h].dest \in Dests
  BY DEF CreateUser, End, IInv, HandlersHold, Held
<1>2. users' \subseteq Dests
  BY <1>1 DEF CreateUser, IInv, TypeOK
<1> QED
  BY <1>2, EndInv DEF CreateUser

LEMMA RequestBeginInv ==
  ASSUME IInv, NEW h \in Handlers, NEW d \in Dests, NEW p \in OTPPurpose,
         RequestBegin(h, d, p)
  PROVE  IInv'
<1>1. PICK l : l = [NoRequest EXCEPT !.dest = d, !.purpose = p]
  OBVIOUS
<1>2. l \in Request /\ l.dest \in Dests
  BY <1>1 DEF NoRequest, Request
<1>3. "throttle" \in PC /\ "throttle" \notin Writing
  BY DEF PC, Writing
<1>4. Held("throttle", l)'
  BY <1>2, <1>3 DEF Held
<1> QED
  BY <1>1, <1>2, <1>3, <1>4, MemoryStep DEF RequestBegin, With, rows, IInv, TypeOK

\* The memory of a request on row i, and the note it takes of others on that row.
LEMMA BeginOnRow ==
  ASSUME IInv, NEW i \in DOMAIN challenges
  PROVE  /\ i \in Nat /\ challenges[i] \in Challenge
         /\ Memory(i) \in Request /\ Memory(i).row = i
         /\ Memory(i).attempts = challenges[i].attempts
         /\ Memory(i).dest \in Dests /\ Memory(i).dest = challenges[i].dest
         /\ Memory(i).purpose = challenges[i].purpose
         /\ NoteContention(i) =>
              /\ contended' \subseteq Nat /\ contended \subseteq contended'
              /\ \A g \in Handlers :
                   (pc[g] \in Writing /\ loc[g].row = i) => i \in contended'
<1>1. i \in Nat /\ challenges[i] \in Challenge
  BY LenProperties, ElementOfSeq DEF IInv, TypeOK
<1>2. /\ Memory(i) \in Request /\ Memory(i).row = i
      /\ Memory(i).attempts = challenges[i].attempts
      /\ Memory(i).dest \in Dests /\ Memory(i).dest = challenges[i].dest
      /\ Memory(i).purpose = challenges[i].purpose
  BY <1>1 DEF Memory, NoRequest, Request, Challenge
<1> QED
  BY <1>1, <1>2 DEF NoteContention, WorkingOn, IInv, TypeOK

LEMMA VerifyBeginInv ==
  ASSUME IInv, NEW h \in Handlers, NEW i \in DOMAIN challenges, NEW right \in BOOLEAN,
         VerifyBegin(h, i, right)
  PROVE  IInv'
<1>1. PICK l, p : l = Memory(i) /\ p = Verdict(challenges[i], right)
  OBVIOUS
<1>2. /\ pc' = [pc EXCEPT ![h] = p] /\ loc' = [loc EXCEPT ![h] = l]
      /\ challenges[i].status = "pending" /\ NoteContention(i)
      /\ UNCHANGED <<challenges, guesses, users>>
  BY <1>1 DEF VerifyBegin, With
<1>3. /\ i \in Nat /\ challenges[i] \in Challenge
      /\ l \in Request /\ l.row = i /\ l.attempts = challenges[i].attempts
      /\ l.dest \in Dests
      /\ contended' \subseteq Nat /\ contended \subseteq contended'
      /\ \A g \in Handlers : (pc[g] \in Writing /\ loc[g].row = i) => i \in contended'
  BY <1>1, <1>2, BeginOnRow
<1>4. challenges[i].attempts < MaxAttempts
  BY <1>2 DEF IInv, AttemptsLimited
<1>5. p \in {"expired", "wrong", "verified"}
  BY <1>1, <1>3, <1>4, OtpAssumption DEF Verdict, Challenge
<1>6. p \in PC
  BY <1>5 DEF PC, Writing
<1>7. Held(p, l)'
  BY <1>2, <1>3, <1>4, <1>5 DEF Held
<1> QED
  BY <1>2, <1>3, <1>6, <1>7, MemoryStep DEF IInv, TypeOK

LEMMA ResendBeginInv ==
  ASSUME IInv, NEW h \in Handlers, NEW i \in DOMAIN challenges, ResendBegin(h, i)
  PROVE  IInv'
<1>1. CASE /\ With(h, "idle", "cancel", Memory(i))
           /\ challenges[i].status = "pending" /\ NoteContention(i)
  <2>1. PICK l : l = Memory(i)
    OBVIOUS
  <2>2. /\ i \in Nat /\ challenges[i] \in Challenge
        /\ l \in Request /\ l.row = i /\ l.attempts = challenges[i].attempts
        /\ l.dest \in Dests
        /\ contended' \subseteq Nat /\ contended \subseteq contended'
        /\ \A g \in Handlers : (pc[g] \in Writing /\ loc[g].row = i) => i \in contended'
    BY <1>1, <2>1, BeginOnRow
  <2>3. challenges[i].attempts < MaxAttempts
    BY <1>1 DEF IInv, AttemptsLimited
  <2>4. "cancel" \in PC
    BY DEF PC, Writing
  <2>5. Held("cancel", l)'
    BY <1>1, <2>2, <2>3 DEF Held, ResendBegin
  <2> QED
    <3>1. /\ pc' = [pc EXCEPT ![h] = "cancel"] /\ loc' = [loc EXCEPT ![h] = l]
          /\ UNCHANGED <<challenges, guesses>> /\ users' \subseteq Dests
      BY <1>1, <2>1 DEF ResendBegin, With, IInv, TypeOK
    <3> QED
      BY <2>2, <2>4, <2>5, <3>1, MemoryStep
<1>2. CASE /\ With(h, "idle", "throttle", [Memory(i) EXCEPT !.row = 0, !.attempts = 0])
           /\ UNCHANGED contended
  <2>1. PICK l : l = [Memory(i) EXCEPT !.row = 0, !.attempts = 0]
    OBVIOUS
  <2>2. l \in Request /\ l.dest \in Dests
    <3>1. PICK k : k = Memory(i)
      OBVIOUS
    <3>2. k \in Request /\ k.dest \in Dests /\ l = [k EXCEPT !.row = 0, !.attempts = 0]
      BY <2>1, <3>1, BeginOnRow
    <3> QED
      BY <3>2 DEF Request
  <2>3. "throttle" \in PC /\ "throttle" \notin Writing
    BY DEF PC, Writing
  <2>4. Held("throttle", l)'
    BY <2>2, <2>3 DEF Held
  <2> QED
    BY <1>2, <2>1, <2>2, <2>3, <2>4, MemoryStep DEF ResendBegin, With, IInv, TypeOK
<1> QED
  BY <1>1, <1>2 DEF ResendBegin

\* What a handler that is about to write holds.
LEMMA AboutToWrite ==
  ASSUME IInv, NEW h \in Handlers, pc[h] \in Writing
  PROVE  LET i == loc[h].row IN
         /\ i \in DOMAIN challenges /\ i \in DOMAIN guesses
         /\ challenges[i] \in Challenge /\ guesses[i] \in Guesses
         /\ loc[h] \in Request /\ loc[h].dest \in Dests
         /\ loc[h].attempts \in Nat /\ loc[h].attempts < MaxAttempts
         /\ pc[h] # "locked"
         /\ i \notin contended =>
              /\ challenges[i].status = "pending" /\ challenges[i].attempts = loc[h].attempts
              /\ guesses[i].wrong = loc[h].attempts /\ guesses[i].right = 0
<1>1. PICK i : i = loc[h].row
  OBVIOUS
<1>2. /\ loc[h] \in Request /\ loc[h].attempts \in Nat
      /\ challenges \in Seq(Challenge) /\ guesses \in Seq(Guesses)
  BY DEF IInv, TypeOK, Request
<1>3. "idle" \notin Writing
  BY DEF Writing
<1>4. /\ i \in DOMAIN challenges /\ loc[h].dest \in Dests
      /\ loc[h].attempts < MaxAttempts /\ pc[h] # "locked"
      /\ i \notin contended =>
           challenges[i].status = "pending" /\ challenges[i].attempts = loc[h].attempts
  BY <1>1, <1>3 DEF IInv, HandlersHold, Held
<1>5. i \in DOMAIN guesses
  BY <1>4 DEF IInv, Aligned
<1>6. challenges[i] \in Challenge /\ guesses[i] \in Guesses
  BY <1>2, <1>4, <1>5, ElementOfSeq, LenProperties
<1>7. i \notin contended => guesses[i].wrong = loc[h].attempts /\ guesses[i].right = 0
  BY <1>4, <1>6 DEF IInv, OneTimeUse, AttemptsLimited, Guesses
<1> QED
  BY <1>1, <1>2, <1>4, <1>5, <1>6, <1>7

LEMMA WriteRefusalInv ==
  ASSUME IInv, NEW h \in Handlers, WriteRefusal(h)
  PROVE  IInv'
<1>1. PICK i, l : i = loc[h].row /\ l = NoRequest
  OBVIOUS
<1>2. pc[h] \in Writing /\ pc[h] \in {"expired", "locked"}
  BY DEF WriteRefusal, End, Writing
<1>3. /\ i \in DOMAIN challenges /\ i \in DOMAIN guesses
      /\ challenges[i] \in Challenge /\ guesses[i] \in Guesses
      /\ loc[h] \in Request /\ loc[h].dest \in Dests
      /\ loc[h].attempts \in Nat /\ loc[h].attempts < MaxAttempts /\ pc[h] # "locked"
      /\ i \notin contended =>
           /\ challenges[i].status = "pending" /\ challenges[i].attempts = loc[h].attempts
           /\ guesses[i].wrong = loc[h].attempts /\ guesses[i].right = 0
  BY <1>1, <1>2, AboutToWrite
<1>4. PICK c, k : /\ c = [challenges[i] EXCEPT !.status = pc[h]]
                  /\ k = guesses[i]
  OBVIOUS
<1>5. /\ c \in Challenge /\ k \in Guesses
      /\ c.status = "pending" => c.attempts < MaxAttempts
      /\ i \notin contended =>
           /\ k.right <= 1
           /\ k.right = 1 <=> c.status = "verified"
           /\ c.attempts = k.wrong
           /\ k.wrong <= MaxAttempts
           /\ k.wrong = MaxAttempts => c.status = "locked"
  BY <1>2, <1>3, <1>4, OtpAssumption DEF Challenge, Guesses, OTPStatus
<1>6. /\ challenges' = [challenges EXCEPT ![i] = c]
      /\ guesses' = [guesses EXCEPT ![i] = k]
      /\ UNCHANGED <<contended, users>>
  BY <1>1, <1>2, <1>3, <1>4 DEF WriteRefusal, IInv, TypeOK
<1>7. "idle" \in PC \ Writing /\ "read_user" \in PC \ Writing /\ "throttle" \in PC \ Writing
  BY DEF PC, Writing
<1>8. /\ l \in Request 
      /\ pc' = [pc EXCEPT ![h] = "idle"] /\ loc' = [loc EXCEPT ![h] = l]
  BY <1>1, <1>3, NoRequestType DEF WriteRefusal, End, Request
<1> QED
  BY <1>1, <1>2, <1>5, <1>6, <1>7, <1>8, WriteStep

LEMMA TriedChallenge ==
  ASSUME NEW c \in Challenge, NEW n \in Nat, NEW st \in OTPStatus
  PROVE  LET d == [c EXCEPT !.attempts = n + 1, !.status = st]
         IN  d \in Challenge /\ d.attempts = n + 1 /\ d.status = st
<1>1. PICK m \in Nat : m = n + 1
  OBVIOUS
<1>2. PICK e : e = [c EXCEPT !.attempts = m]
  OBVIOUS
<1>3. e \in Challenge /\ e.attempts = m
  BY <1>2 DEF Challenge
<1>4. [e EXCEPT !.status = st] \in Challenge /\ [e EXCEPT !.status = st].attempts = m
      /\ [e EXCEPT !.status = st].status = st
  BY <1>3 DEF Challenge
<1>5. [c EXCEPT !.attempts = n + 1, !.status = st] = [e EXCEPT !.status = st]
  BY <1>1, <1>2
<1> QED
  BY <1>1, <1>4, <1>5

LEMMA WriteWrongInv ==
  ASSUME IInv, NEW h \in Handlers, WriteWrong(h)
  PROVE  IInv'
<1>1. PICK i, l : i = loc[h].row /\ l = NoRequest
  OBVIOUS
<1>2. pc[h] \in Writing /\ pc[h] \in {"wrong"}
  BY DEF WriteWrong, End, Writing
<1>3. /\ i \in DOMAIN challenges /\ i \in DOMAIN guesses
      /\ challenges[i] \in Challenge /\ guesses[i] \in Guesses
      /\ loc[h] \in Request /\ loc[h].dest \in Dests
      /\ loc[h].attempts \in Nat /\ loc[h].attempts < MaxAttempts /\ pc[h] # "locked"
      /\ i \notin contended =>
           /\ challenges[i].status = "pending" /\ challenges[i].attempts = loc[h].attempts
           /\ guesses[i].wrong = loc[h].attempts /\ guesses[i].right = 0
  BY <1>1, <1>2, AboutToWrite
<1>4. PICK c, k : /\ c = [challenges[i] EXCEPT !.attempts = loc[h].attempts + 1,
                         !.status = IF loc[h].attempts + 1 >= MaxAttempts THEN "locked"
                                    ELSE challenges[i].status]
                  /\ k = [guesses[i] EXCEPT !.wrong = guesses[i].wrong + 1]
  OBVIOUS
<1>5. /\ c \in Challenge /\ k \in Guesses
      /\ c.status = "pending" => c.attempts < MaxAttempts
      /\ i \notin contended =>
           /\ k.right <= 1
           /\ k.right = 1 <=> c.status = "verified"
           /\ c.attempts = k.wrong
           /\ k.wrong <= MaxAttempts
           /\ k.wrong = MaxAttempts => c.status = "locked"
  <2>1. /\ c \in Challenge /\ k \in Guesses /\ c.attempts = loc[h].attempts + 1
        /\ c.status = IF loc[h].attempts + 1 >= MaxAttempts THEN "locked"
                      ELSE challenges[i].status
        /\ k.wrong = guesses[i].wrong + 1 /\ k.right = guesses[i].right
    <3>1. PICK st : st = IF loc[h].attempts + 1 >= MaxAttempts THEN "locked"
                         ELSE challenges[i].status
      OBVIOUS
    <3>2. st \in OTPStatus
      BY <1>3, <3>1 DEF Challenge, OTPStatus
    <3>3. c = [challenges[i] EXCEPT !.attempts = loc[h].attempts + 1, !.status = st]
      BY <1>4, <3>1
    <3>4. c \in Challenge /\ c.attempts = loc[h].attempts + 1 /\ c.status = st
      BY <1>3, <3>2, <3>3, TriedChallenge
    <3>5. k \in Guesses /\ k.wrong = guesses[i].wrong + 1 /\ k.right = guesses[i].right
      BY <1>3, <1>4 DEF Guesses
    <3> QED
      BY <3>1, <3>4, <3>5
  <2>2. MaxAttempts \in Nat
    BY OtpAssumption
  <2>3. CASE loc[h].attempts + 1 >= MaxAttempts
    <3>1. loc[h].attempts + 1 = MaxAttempts /\ c.status = "locked"
      BY <1>3, <2>1, <2>2, <2>3
    <3> QED
      BY <1>3, <2>1, <2>2, <3>1
  <2>4. CASE ~ (loc[h].attempts + 1 >= MaxAttempts)
    <3>1. /\ loc[h].attempts + 1 < MaxAttempts /\ loc[h].attempts + 1 # MaxAttempts
          /\ c.status = challenges[i].status
      BY <1>3, <2>1, <2>2, <2>4
    <3> QED
      BY <1>3, <2>1, <2>2, <3>1
  <2> QED
    BY <2>3, <2>4
<1>6. /\ challenges' = [challenges EXCEPT ![i] = c]
      /\ guesses' = [guesses EXCEPT ![i] = k]
      /\ UNCHANGED <<contended, users>>
  BY <1>1, <1>2, <1>3, <1>4 DEF WriteWrong, IInv, TypeOK
<1>7. "idle" \in PC \ Writing /\ "read_user" \in PC \ Writing /\ "throttle" \in PC \ Writing
  BY DEF PC, Writing
<1>8. /\ l \in Request 
      /\ pc' = [pc EXCEPT ![h] = "idle"] /\ loc' = [loc EXCEPT ![h] = l]
  BY <1>1, <1>3, NoRequestType DEF WriteWrong, End, Request
<1> QED
  BY <1>1, <1>2, <1>5, <1>6, <1>7, <1>8, WriteStep

LEMMA WriteVerifiedInv ==
  ASSUME IInv, NEW h \in Handlers, WriteVerified(h)
  PROVE  IInv'
<1>1. PICK i, l : i = loc[h].row /\ l = loc[h]
  OBVIOUS
<1>2. pc[h] \in Writing /\ pc[h] \in {"verified"}
  BY DEF WriteVerified, LogIn, Goto, End, Writing
<1>3. /\ i \in DOMAIN challenges /\ i \in DOMAIN guesses
      /\ challenges[i] \in Challenge /\ guesses[i] \in Guesses
      /\ loc[h] \in Request /\ loc[h].dest \in Dests
      /\ loc[h].attempts \in Nat /\ loc[h].attempts < MaxAttempts /\ pc[h] # "locked"
      /\ i \notin contended =>
           /\ challenges[i].status = "pending" /\ challenges[i].attempts = loc[h].attempts
           /\ guesses[i].wrong = loc[h].attempts /\ guesses[i].right = 0
  BY <1>1, <1>2, AboutToWrite
<1>4. PICK c, k : /\ c = [challenges[i] EXCEPT !.status = "verified"]
                  /\ k = [guesses[i] EXCEPT !.right = guesses[i].right + 1]
  OBVIOUS
<1>5. /\ c \in Challenge /\ k \in Guesses
      /\ c.status = "pending" => c.attempts < MaxAttempts
      /\ i \notin contended =>
           /\ k.right <= 1
           /\ k.right = 1 <=> c.status = "verified"
           /\ c.attempts = k.wrong
           /\ k.wrong <= MaxAttempts
           /\ k.wrong = MaxAttempts => c.status = "locked"
  BY <1>2, <1>3, <1>4, OtpAssumption DEF Challenge, Guesses, OTPStatus
<1>6. /\ challenges' = [challenges EXCEPT ![i] = c]
      /\ guesses' = [guesses EXCEPT ![i] = k]
      /\ UNCHANGED <<contended, users>>
  BY <1>1, <1>2, <1>3, <1>4 DEF WriteVerified, IInv, TypeOK
<1>7. "idle" \in PC \ Writing /\ "read_user" \in PC \ Writing /\ "throttle" \in PC \ Writing
  BY DEF PC, Writing
<1>8. CASE End(h, "verified")
  <2>1. pc' = [pc EXCEPT ![h] = "idle"] /\ loc' = [loc EXCEPT ![h] = NoRequest]
    BY <1>8 DEF End
  <2> QED
    BY <1>1, <1>2, <1>5, <1>6, <1>7, <2>1, NoRequestType, WriteStep
<1>9. CASE Goto(h, "verified", "read_user")
  <2>1. pc' = [pc EXCEPT ![h] = "read_user"] /\ loc' = [loc EXCEPT ![h] = l]
    BY <1>1, <1>9 DEF Goto, IInv, TypeOK
  <2>2. l \in Request /\ l.dest \in Dests
    BY <1>1, <1>3
  <2> QED
    BY <1>1, <1>2, <1>5, <1>6, <1>7, <2>1, <2>2, WriteStep
<1> QED
  BY <1>8, <1>9 DEF WriteVerified, LogIn

LEMMA CancelInv ==
  ASSUME IInv, NEW h \in Handlers, Cancel(h)
  PROVE  IInv'
<1>1. PICK i, l : i = loc[h].row /\ l = [loc[h] EXCEPT !.row = 0, !.attempts = 0]
  OBVIOUS
<1>2. pc[h] \in Writing /\ pc[h] \in {"cancel"}
  BY DEF Cancel, With, Writing
<1>3. /\ i \in DOMAIN challenges /\ i \in DOMAIN guesses
      /\ challenges[i] \in Challenge /\ guesses[i] \in Guesses
      /\ loc[h] \in Request /\ loc[h].dest \in Dests
      /\ loc[h].attempts \in Nat /\ loc[h].attempts < MaxAttempts /\ pc[h] # "locked"
      /\ i \notin contended =>
           /\ challenges[i].status = "pending" /\ challenges[i].attempts = loc[h].attempts
           /\ guesses[i].wrong = loc[h].attempts /\ guesses[i].right = 0
  BY <1>1, <1>2, AboutToWrite
<1>4. PICK c, k : /\ c = [challenges[i] EXCEPT !.status = "cancelled"]
                  /\ k = guesses[i]
  OBVIOUS
<1>5. /\ c \in Challenge /\ k \in Guesses
      /\ c.status = "pending" => c.attempts < MaxAttempts
      /\ i \notin contended =>
           /\ k.right <= 1
           /\ k.right = 1 <=> c.status = "verified"
           /\ c.attempts = k.wrong
           /\ k.wrong <= MaxAttempts
           /\ k.wrong = MaxAttempts => c.status = "locked"
  BY <1>2, <1>3, <1>4, OtpAssumption DEF Challenge, Guesses, OTPStatus
<1>6. /\ challenges' = [challenges EXCEPT ![i] = c]
      /\ guesses' = [guesses EXCEPT ![i] = k]
      /\ UNCHANGED <<contended, users>>
  BY <1>1, <1>2, <1>3, <1>4 DEF Cancel, IInv, TypeOK
<1>7. "idle" \in PC \ Writing /\ "read_user" \in PC \ Writing /\ "throttle" \in PC \ Writing
  BY DEF PC, Writing
<1>8. /\ l \in Request /\ l.dest \in Dests
      /\ pc' = [pc EXCEPT ![h] = "throttle"] /\ loc' = [loc EXCEPT ![h] = l]
  BY <1>1, <1>3, NoRequestType DEF Cancel, With, Request
<1> QED
  BY <1>1, <1>2, <1>5, <1>6, <1>7, <1>8, WriteStep

LEMMA InsertInv ==
  ASSUME IInv, NEW h \in Handlers, Insert(h)
  PROVE  IInv'
<1>0. /\ TypeOK /\ Aligned /\ HandlersHold /\ Separate /\ OneTimeUse /\ AttemptsLimited
  BY DEF IInv
<1>1. PICK c, k : /\ c = [dest |-> loc[h].dest, purpose |-> loc[h].purpose,
                           status |-> "pending", attempts |-> 0, live |-> TRUE]
                  /\ k = [wrong |-> 0, right |-> 0]
  OBVIOUS
<1>2. loc[h] \in Request /\ loc[h].dest \in Dests
  BY <1>0 DEF TypeOK, HandlersHold, Held, Insert, Goto
<1>3. /\ c \in Challenge /\ c.status = "pending" /\ c.attempts = 0
      /\ k \in Guesses /\ k.wrong = 0 /\ k.right = 0
  BY <1>1, <1>2 DEF Challenge, Guesses, OTPStatus, Request
<1>4. challenges' = Append(challenges, c) /\ guesses' = Append(guesses, k)
  BY <1>1 DEF Insert
<1>5. PICK n : n = Len(challenges) + 1
  OBVIOUS
<1>6. /\ challenges' \in Seq(Challenge) /\ DOMAIN challenges' = DOMAIN challenges \cup {n}
      /\ n \notin DOMAIN challenges
      /\ \A j \in DOMAIN challenges : challenges'[j] = challenges[j]
      /\ challenges'[n] = c
  BY <1>0, <1>3, <1>4, <1>5, AppendProperties, LenProperties DEF TypeOK
<1>7. Len(guesses) = Len(challenges)
  BY <1>0, LenProperties DEF TypeOK, Aligned
<1>8. /\ guesses' \in Seq(Guesses) /\ DOMAIN guesses' = DOMAIN guesses \cup {n}
      /\ \A j \in DOMAIN guesses : guesses'[j] = guesses[j]
      /\ guesses'[n] = k
  BY <1>0, <1>3, <1>4, <1>5, <1>7, AppendProperties, LenProperties DEF TypeOK
<1>9. /\ pc' = [pc EXCEPT ![h] = "send"] /\ pc[h] = "insert" /\ loc' = loc
      /\ UNCHANGED <<contended, users>>
  BY DEF Insert, Goto
<1>10. "send" \in PC /\ "send" \notin Writing
  BY DEF PC, Writing
<1>11. /\ pc' \in [Handlers -> PC] /\ pc'[h] = "send"
       /\ \A g \in Handlers \ {h} : pc'[g] = pc[g]
  BY <1>0, <1>9, <1>10 DEF TypeOK
<1>12. TypeOK' /\ Aligned'
  BY <1>0, <1>6, <1>8, <1>9, <1>11 DEF TypeOK, Aligned
<1>13. HandlersHold'
  <2> SUFFICES ASSUME NEW g \in Handlers PROVE Held(pc[g], loc[g])'
    BY DEF HandlersHold
  <2>1. Held(pc[g], loc[g])
    BY <1>0 DEF HandlersHold
  <2>2. CASE g = h
    BY <1>2, <1>9, <1>10, <1>11, <2>2 DEF Held
  <2>3. CASE g # h
    BY <1>6, <1>9, <1>11, <2>1, <2>3 DEF Held
  <2> QED
    BY <2>2, <2>3
<1>14. Separate'
  BY <1>0, <1>9, <1>10, <1>11 DEF Separate
<1>15. (OneTimeUse /\ AttemptsLimited)'
  <2>1. \A j \in DOMAIN challenges : RowOK(j)
    BY <1>0, RowsOK
  <2>2. \A j \in DOMAIN challenges : RowOK(j)'
    BY <1>0, <1>6, <1>8, <1>9, <2>1 DEF RowOK, Aligned
  <2>3. RowOK(n)'
    BY <1>3, <1>6, <1>8, OtpAssumption DEF RowOK
  <2>4. \A j \in DOMAIN challenges' : RowOK(j)'
    BY <1>6, <2>2, <2>3
  <2> QED
    BY <2>4 DEF OneTimeUse, AttemptsLimited, RowOK
<1> QED
  BY <1>12, <1>13, <1>14, <1>15 DEF IInv

\* The code of a row expires: nothing a property or a handler speaks of changes.
LEMMA CodeExpiresInv ==
  ASSUME IInv, NEW i \in DOMAIN challenges, CodeExpires(i)
  PROVE  IInv'
<1>0. /\ TypeOK /\ Aligned /\ HandlersHold /\ Separate /\ OneTimeUse /\ AttemptsLimited
  BY DEF IInv
<1>1. PICK c : c = [challenges[i] EXCEPT !.live = FALSE]
  OBVIOUS
<1>2. challenges[i] \in Challenge
  BY <1>0, ElementOfSeq, LenProperties DEF TypeOK
<1>3. /\ c \in Challenge /\ c.status = challenges[i].status
      /\ c.attempts = challenges[i].attempts
  BY <1>1, <1>2 DEF Challenge
<1>4. challenges' = [challenges EXCEPT ![i] = c] /\ UNCHANGED <<guesses, contended, users, pc, loc>>
  BY <1>1 DEF CodeExpires
<1>5. /\ challenges' \in Seq(Challenge) /\ DOMAIN challenges' = DOMAIN challenges
      /\ \A j \in DOMAIN challenges : challenges'[j] = IF j = i THEN c ELSE challenges[j]
  BY <1>0, <1>3, <1>4, LenProperties, ExceptSeq DEF TypeOK
<1>6. \A j \in DOMAIN challenges : /\ challenges'[j].status = challenges[j].status
                                  /\ challenges'[j].attempts = challenges[j].attempts
  BY <1>3, <1>5
<1>7. TypeOK' /\ Aligned' /\ Separate'
  BY <1>0, <1>4, <1>5 DEF TypeOK, Aligned, Separate
<1>8. HandlersHold'
  BY <1>0, <1>4, <1>5, <1>6 DEF HandlersHold, Held
<1>9. OneTimeUse' /\ AttemptsLimited'
  BY <1>0, <1>4, <1>5, <1>6 DEF OneTimeUse, AttemptsLimited
<1> QED
  BY <1>7, <1>8, <1>9 DEF IInv

LEMMA StutterInv ==
  ASSUME IInv, UNCHANGED vars
  PROVE  IInv'
BY DEF vars, rows, IInv, TypeOK, Aligned, HandlersHold, Held, Separate, OneTimeUse,
   AttemptsLimited

LEMMA NextInv ==
  ASSUME IInv, [Next]_vars
  PROVE  IInv'
<1>1. ASSUME NEW h \in Handlers, Begin(h)
      PROVE  IInv'
  <2>1. CASE \E d \in Dests, p \in OTPPurpose : RequestBegin(h, d, p)
    BY <2>1, RequestBeginInv
  <2>2. CASE \E i \in DOMAIN challenges, right \in BOOLEAN : VerifyBegin(h, i, right)
    BY <2>2, VerifyBeginInv
  <2>3. CASE \E i \in DOMAIN challenges : VerifyRefused(h, i)
    BY <2>3, StutterInv DEF VerifyRefused
  <2>4. CASE \E i \in DOMAIN challenges : ResendBegin(h, i)
    BY <2>4, ResendBeginInv
  <2> QED
    BY <1>1, <2>1, <2>2, <2>3, <2>4 DEF Begin
<1>2. ASSUME NEW h \in Handlers, Continue(h)
      PROVE  IInv'
  <2>1. CASE SendOtp(h)
    BY <2>1, EndInv DEF SendOtp, IInv, TypeOK
  <2> QED
    BY <1>2, <2>1, ThrottleInv, InsertInv, WriteRefusalInv, WriteWrongInv, WriteVerifiedInv,
       ReadUserInv, CreateUserInv, CancelInv DEF Continue
<1>3. ASSUME NEW h \in Handlers, Fail(h)
      PROVE  IInv'
  BY <1>3, EndInv DEF Fail, IInv, TypeOK
<1>4. CASE UNCHANGED vars
  BY <1>4, StutterInv
<1> QED
  BY <1>1, <1>2, <1>3, <1>4, CodeExpiresInv DEF Next

-----------------------------------------------------------------------------
(* The theorems *)

LEMMA Invariance == Spec => []IInv
BY InitInv, NextInv, PTL DEF Spec

\* Rows, accounts and what handlers hold always have their types.
THEOREM TypeCorrect == Spec => []TypeOK
BY Invariance, PTL DEF IInv

\* A code is accepted at most once by requests that do not overlap (verify_otp).
THEOREM CodesAreSingleUse == Spec => []OneTimeUse
BY Invariance, PTL DEF IInv

\* A PENDING challenge has attempts left, however many requests overlap, and
\* without overlap attempt_count is exact and its last value locks the challenge.
THEOREM AttemptsStayLimited == Spec => []AttemptsLimited
BY Invariance, PTL DEF IInv

\* No step makes a challenge PENDING again, and no request that is alone on a
\* challenge overwrites its verdict.
LEMMA StatusStep ==
  ASSUME IInv, [Next]_vars
  PROVE  StatusSettles
<1> SUFFICES ASSUME NEW i \in DOMAIN challenges,
                    challenges'[i].status # challenges[i].status
             PROVE  /\ challenges'[i].status # "pending"
                    /\ challenges[i].status # "pending" => i \in contended
  BY DEF StatusSettles
<1>1. challenges' # challenges
  OBVIOUS
<1>2. \/ \E h \in Handlers : Insert(h) \/ WriteRefusal(h) \/ WriteWrong(h)
                            \/ WriteVerified(h) \/ Cancel(h)
      \/ \E j \in DOMAIN challenges : CodeExpires(j)
  BY <1>1 DEF Next, Begin, Continue, Fail, RequestBegin, VerifyBegin, VerifyRefused, ResendBegin,
     Throttle, SendOtp, ReadUser, CreateUser, rows, vars
<1>3. challenges \in Seq(Challenge) /\ challenges[i] \in Challenge
  BY ElementOfSeq, LenProperties DEF IInv, TypeOK
<1>4. ASSUME NEW h \in Handlers, pc[h] \in Writing,
             \A j \in DOMAIN challenges : j # loc[h].row => challenges'[j] = challenges[j],
             challenges'[loc[h].row].status # "pending"
             \/ challenges'[loc[h].row].status = challenges[loc[h].row].status
      PROVE  /\ challenges'[i].status # "pending"
             /\ challenges[i].status # "pending" => i \in contended
  BY <1>4, AboutToWrite
<1>5. CASE \E h \in Handlers : Insert(h)
  BY <1>3, <1>5, AppendProperties, LenProperties DEF Insert
<1>6. CASE \E j \in DOMAIN challenges : CodeExpires(j)
  BY <1>3, <1>6 DEF CodeExpires, Challenge
<1>7. ASSUME NEW h \in Handlers, WriteRefusal(h) \/ WriteWrong(h) \/ WriteVerified(h) \/ Cancel(h)
      PROVE  /\ challenges'[i].status # "pending"
             /\ challenges[i].status # "pending" => i \in contended
  <2>1. pc[h] \in Writing
    BY <1>7 DEF WriteRefusal, WriteWrong, WriteVerified, Cancel, LogIn, Goto, End, With, Writing
  <2>2. loc[h].row \in DOMAIN challenges /\ challenges[loc[h].row] \in Challenge
    BY <2>1, AboutToWrite
  <2>3. \A j \in DOMAIN challenges : j # loc[h].row => challenges'[j] = challenges[j]
    BY <1>7, <1>3 DEF WriteRefusal, WriteWrong, WriteVerified, Cancel
  <2>4. \/ challenges'[loc[h].row].status # "pending"
        \/ challenges'[loc[h].row].status = challenges[loc[h].row].status
    <3>1. CASE WriteRefusal(h)
      BY <1>3, <2>2, <3>1 DEF WriteRefusal, Challenge
    <3>2. CASE WriteWrong(h)
      BY <1>3, <2>2, <3>2 DEF WriteWrong, Challenge
    <3>3. CASE WriteVerified(h)
      BY <1>3, <2>2, <3>3 DEF WriteVerified, Challenge
    <3>4. CASE Cancel(h)
      BY <1>3, <2>2, <3>4 DEF Cancel, Challenge
    <3> QED
      BY <1>7, <3>1, <3>2, <3>3, <3>4
  <2> QED
    BY <1>4, <2>1, <2>3, <2>4
<1> QED
  BY <1>2, <1>5, <1>6, <1>7

\* A challenge that is settled stays settled.
THEOREM ChallengesStaySettled == Spec => SettledStays
<1>1. IInv /\ [Next]_vars => [StatusSettles]_vars
  BY StatusStep
<1> QED
  BY <1>1, Invariance, PTL DEF Spec, SettledStays
=============================================================================
