-------------------------- MODULE NotificationWorker --------------------------
(***************************************************************************)
(* The notification outbox and the worker that empties it:                 *)
(* services/notification_service.py writes rows, workers/scheduler.py      *)
(* sends them (dispatch_outbox) and queues reminders (scan_reminders).     *)
(*                                                                         *)
(* Each worker process runs the two jobs in threads of its own, at most    *)
(* one instance of each (max_instances = 1), both under a Redis lock with  *)
(* a time to live.  Time is abstracted to the order of events: a backoff   *)
(* elapses, a lock expires and a reminder window opens and closes at any   *)
(* moment.  A lock that expires under a running job (a batch of 50 slow    *)
(* sends takes longer than 60 s), a process crash, a commit that fails     *)
(* ("database is locked") and a provider that accepts a message but whose  *)
(* answer is lost are faults; their number is bounded by MaxFaults.        *)
(***************************************************************************)
EXTENDS Integers, Sequences, FiniteSets, FiniteSetsExt

CONSTANTS
  Workers,      \* worker processes
  Regs,         \* registrations
  MaxAttempts,  \* notification_max_attempts
  BatchSize,    \* _BATCH_SIZE
  MaxRows,      \* bound: rows of notification_outbox
  MaxFaults     \* bound: faults

ASSUME WorkerAssumption ==
  /\ MaxAttempts \in Nat \ {0}
  /\ BatchSize \in Nat \ {0}
  /\ MaxRows \in Nat
  /\ MaxFaults \in Nat

VARIABLES
  outbox,    \* notification_outbox; a row's id is its index
  reminded,  \* registrations with reminder_sent_at set
  window,    \* "open" for a CONFIRMED registration of a PUBLISHED event whose
             \* session starts in 59 to 61 minutes, "over" for good after that
  lock,      \* whether the Redis key of a job exists
  pc,        \* where each worker is in each job
  todo,      \* rows and registrations selected and not handled yet, and the
             \* registration whose reminder is queued but not marked
  cur,       \* the row being sent, as it was loaded
  accepted,  \* history: how often the provider took each row
  faults,    \* history: faults so far
  causes,    \* history: the kinds of these faults
  redo       \* history: for each job, the faults after which it may do again
             \* what it has done

vars == <<outbox, reminded, window, lock, pc, todo, cur,
          accepted, faults, causes, redo>>
tables == <<outbox, reminded>>

Jobs == {"dispatch", "scan"}
\* A job stands for the expiry of its lock while it ran.
FaultKinds == {"crash", "exception", "lost_answer"} \cup Jobs
NotificationStatus == {"pending", "sent", "failed"}
Row == [reg : Regs, template : {"complete", "reminder"},
        status : NotificationStatus, attempts : Nat, due : BOOLEAN]
PC == {"idle", "select", "load", "send", "commit_sent", "commit_retry",
       "remind", "mark", "release"}

Nothing == [id |-> 0, status |-> "pending", attempts |-> 0]
Loaded == [id : Nat, status : NotificationStatus, attempts : Nat]

TypeOK ==
  /\ outbox \in Seq(Row)
  /\ reminded \subseteq Regs
  /\ window \in [Regs -> {"before", "open", "over"}]
  /\ lock \in [Jobs -> BOOLEAN]
  /\ pc \in [Workers -> [Jobs -> PC]]
  /\ todo \in [Workers -> [rows : SUBSET Nat, regs : SUBSET Regs, mark : SUBSET Regs]]
  /\ cur \in [Workers -> Loaded]
  /\ accepted \in Seq(Nat)
  /\ faults \in Nat
  /\ causes \subseteq FaultKinds
  /\ redo \in [Jobs -> Nat]

NoWork == [rows |-> {}, regs |-> {}, mark |-> {}]

Init ==
  /\ outbox = << >>
  /\ reminded = {}
  /\ window = [r \in Regs |-> "before"]
  /\ lock = [j \in Jobs |-> FALSE]
  /\ pc = [w \in Workers |-> [j \in Jobs |-> "idle"]]
  /\ todo = [w \in Workers |-> NoWork]
  /\ cur = [w \in Workers |-> Nothing]
  /\ accepted = << >>
  /\ faults = 0
  /\ causes = {}
  /\ redo = [j \in Jobs |-> 0]

-----------------------------------------------------------------------------
(* Helpers *)

Goto(w, j, from, to) == pc[w][j] = from /\ pc' = [pc EXCEPT ![w][j] = to]

\* A fault, and the jobs that it makes forget what they have done.
Fault(kind, jobs) ==
  /\ faults < MaxFaults
  /\ faults' = faults + 1
  /\ causes' = causes \cup {kind}
  /\ redo' = [j \in Jobs |-> IF j \in jobs THEN redo[j] + 1 ELSE redo[j]]

NoFault == UNCHANGED <<faults, causes, redo>>

\* The jobs of a worker that have done a thing and have not committed that it is
\* done: a message is sent and not marked, a reminder queued and not marked.
Uncommitted(w) == {j \in Jobs : pc[w][j] \in {"commit_sent", "mark"}}

NewRow(r, t) == [reg |-> r, template |-> t, status |-> "pending",
                 attempts |-> 0, due |-> TRUE]

\* enqueue: the rows for a user's destinations, here one, in one commit.
enqueue(r, t) ==
  /\ Len(outbox) < MaxRows
  /\ outbox' = Append(outbox, NewRow(r, t))
  /\ accepted' = Append(accepted, 0)

Load(i) == [id |-> i, status |-> outbox[i].status, attempts |-> outbox[i].attempts]

-----------------------------------------------------------------------------
(* _with_lock *)

\* SET NX EX: only the job that creates the key runs.
Acquire_Always(w, j) ==
  /\ Goto(w, j, "idle", "select")
  /\ lock' = [lock EXCEPT ![j] = TRUE]
  /\ UNCHANGED <<tables, window, todo, cur, accepted, faults, causes, redo>>

Acquire(w, j) ==
  /\ ~ lock[j]
  /\ Goto(w, j, "idle", "select")
  /\ lock' = [lock EXCEPT ![j] = TRUE]
  /\ UNCHANGED <<tables, window, todo, cur, accepted, faults, causes, redo>>

\* The finally clause deletes the key, whoever created it.
Release(w, j) ==
  /\ Goto(w, j, "release", "idle")
  /\ lock' = [lock EXCEPT ![j] = FALSE]
  /\ UNCHANGED <<tables, window, todo, cur, accepted, faults, causes, redo>>

Inside(j) == {w \in Workers : pc[w][j] # "idle"}

\* The time to live of a key that a crash left behind runs out ...
StaleLockExpires(j) ==
  /\ lock[j] /\ Inside(j) = {}
  /\ lock' = [lock EXCEPT ![j] = FALSE]
  /\ UNCHANGED <<tables, window, pc, todo, cur, accepted, faults, causes, redo>>

\* ... or that of a job still running.
LockOverrun(j) ==
  /\ lock[j] /\ Inside(j) # {}
  /\ Fault(j, {j})
  /\ lock' = [lock EXCEPT ![j] = FALSE]
  /\ UNCHANGED <<tables, window, pc, todo, cur, accepted>>

-----------------------------------------------------------------------------
(* dispatch_outbox *)

\* PENDING rows whose next_attempt_at has come, at most _BATCH_SIZE of them in
\* no particular order.  The query also loads the row that is sent first.
DispatchSelect(w) ==
  LET ready == {i \in DOMAIN outbox : outbox[i].status = "pending" /\ outbox[i].due}
      size  == Min({BatchSize, Cardinality(ready)})
  IN  /\ \/ /\ ready = {}
            /\ Goto(w, "dispatch", "select", "release")
            /\ UNCHANGED <<todo, cur>>
         \/ /\ Goto(w, "dispatch", "select", "send")
            /\ \E batch \in kSubset(size, ready) : \E i \in batch :
                 /\ todo' = [todo EXCEPT ![w].rows = batch]
                 /\ cur' = [cur EXCEPT ![w] = Load(i)]
      /\ UNCHANGED <<tables, window, lock, accepted, faults, causes, redo>>

\* A commit expires the session, so the next row is read again; that it is
\* still PENDING is not checked again.
DispatchLoad(w) ==
  /\ Goto(w, "dispatch", "load", "send")
  /\ \E i \in todo[w].rows : cur' = [cur EXCEPT ![w] = Load(i)]
  /\ UNCHANGED <<tables, window, lock, todo, accepted, faults, causes, redo>>

\* _send_one: the provider takes the message, or not, or takes it and its
\* answer is lost, which the code sees as a failure.
SendOne(w) ==
  LET taken == [accepted EXCEPT ![cur[w].id] = @ + 1]
  IN  /\ \/ /\ Goto(w, "dispatch", "send", "commit_sent")
            /\ accepted' = taken
            /\ NoFault
         \/ /\ Goto(w, "dispatch", "send", "commit_retry")
            /\ UNCHANGED accepted
            /\ NoFault
         \/ /\ Goto(w, "dispatch", "send", "commit_retry")
            /\ Fault("lost_answer", {"dispatch"})
            /\ accepted' = taken
      /\ UNCHANGED <<tables, window, lock, todo, cur>>

\* The commit after _send_one writes the attributes that changed since the row
\* was loaded: the attempts counted up and, if it is another one, the status.
Tried(w) == cur[w].attempts + 1
Status(w, row, s) == IF cur[w].status = s THEN row.status ELSE s

_mark_retry_or_failed_Late(w, row) ==
  IF Tried(w) > MaxAttempts
  THEN [row EXCEPT !.attempts = Tried(w), !.status = Status(w, row, "failed")]
  ELSE [row EXCEPT !.attempts = Tried(w), !.due = FALSE]

_mark_retry_or_failed_Uncounted(w, row) == [row EXCEPT !.due = FALSE]

_mark_retry_or_failed(w, row) ==
  IF Tried(w) >= MaxAttempts
  THEN [row EXCEPT !.attempts = Tried(w), !.status = Status(w, row, "failed")]
  ELSE [row EXCEPT !.attempts = Tried(w), !.due = FALSE]

Sent_Unmarked(w, row) == [row EXCEPT !.attempts = Tried(w), !.due = FALSE]

Sent(w, row) == [row EXCEPT !.attempts = Tried(w), !.status = Status(w, row, "sent")]

SendCommit(w) ==
  LET i == cur[w].id
      rest == todo[w].rows \ {i}
      next == IF rest = {} THEN "release" ELSE "load"
  IN  /\ \/ /\ Goto(w, "dispatch", "commit_sent", next)
            /\ outbox' = [outbox EXCEPT ![i] = Sent(w, @)]
         \/ /\ Goto(w, "dispatch", "commit_retry", next)
            /\ outbox' = [outbox EXCEPT ![i] = _mark_retry_or_failed(w, @)]
      /\ todo' = [todo EXCEPT ![w].rows = rest]
      /\ cur' = [cur EXCEPT ![w] = Nothing]
      /\ UNCHANGED <<reminded, window, lock, accepted, faults, causes, redo>>

-----------------------------------------------------------------------------
(* scan_reminders *)

ScanSelect(w) ==
  LET due == {r \in Regs \ reminded : window[r] = "open"}
  IN  /\ Goto(w, "scan", "select", IF due = {} THEN "release" ELSE "remind")
      /\ todo' = [todo EXCEPT ![w].regs = due]
      /\ UNCHANGED <<tables, window, lock, cur, accepted, faults, causes, redo>>

\* notify_event_reminder commits the outbox row ...
Remind(w) ==
  /\ Goto(w, "scan", "remind", "mark")
  /\ \E r \in todo[w].regs :
       /\ enqueue(r, "reminder")
       /\ todo' = [todo EXCEPT ![w].mark = {r}]
  /\ UNCHANGED <<reminded, window, lock, cur, faults, causes, redo>>

\* ... and a second commit sets reminder_sent_at.
Mark_Forgets(w) ==
  LET rest == todo[w].regs \ todo[w].mark
  IN  /\ Goto(w, "scan", "mark", IF rest = {} THEN "release" ELSE "remind")
      /\ todo' = [todo EXCEPT ![w].regs = rest, ![w].mark = {}]
      /\ UNCHANGED <<tables, window, lock, cur, accepted, faults, causes, redo>>

Mark(w) ==
  LET rest == todo[w].regs \ todo[w].mark
  IN  /\ Goto(w, "scan", "mark", IF rest = {} THEN "release" ELSE "remind")
      /\ reminded' = reminded \cup todo[w].mark
      /\ todo' = [todo EXCEPT ![w].regs = rest, ![w].mark = {}]
      /\ UNCHANGED <<outbox, window, lock, cur, accepted, faults, causes, redo>>

-----------------------------------------------------------------------------
(* Faults *)

Forget(w, j) ==
  IF j = "dispatch"
  THEN /\ todo' = [todo EXCEPT ![w].rows = {}]
       /\ cur' = [cur EXCEPT ![w] = Nothing]
  ELSE /\ todo' = [todo EXCEPT ![w].regs = {}, ![w].mark = {}]
       /\ UNCHANGED cur

\* An exception, such as a commit that fails, leaves the job through finally.
JobFails(w, j) ==
  /\ pc[w][j] \notin {"idle", "release"}
  /\ pc' = [pc EXCEPT ![w][j] = "release"]
  /\ Fault("exception", {j} \cap Uncommitted(w))
  /\ Forget(w, j)
  /\ UNCHANGED <<tables, window, lock, accepted>>

\* The process dies and is restarted; no finally clause runs.
Crash(w) ==
  /\ \E j \in Jobs : pc[w][j] # "idle"
  /\ pc' = [pc EXCEPT ![w] = [j \in Jobs |-> "idle"]]
  /\ Fault("crash", Uncommitted(w))
  /\ todo' = [todo EXCEPT ![w] = NoWork]
  /\ cur' = [cur EXCEPT ![w] = Nothing]
  /\ UNCHANGED <<tables, window, lock, accepted>>

-----------------------------------------------------------------------------
(* The rest of the world *)

\* complete_order queues the confirmation of a new registration.
Registered(r) ==
  /\ \A i \in DOMAIN outbox : ~ (outbox[i].reg = r /\ outbox[i].template = "complete")
  /\ enqueue(r, "complete")
  /\ UNCHANGED <<reminded, window, lock, pc, todo, cur, faults, causes, redo>>

\* Time passes, or the registration or its event is cancelled, or the attendee
\* checks in.
WindowMoves(r) ==
  /\ window[r] # "over"
  /\ window' = [window EXCEPT ![r] = IF @ = "before" THEN "open" ELSE "over"]
  /\ UNCHANGED <<tables, lock, pc, todo, cur, accepted, faults, causes, redo>>

\* next_attempt_at arrives.
BackoffElapses(i) ==
  /\ i \in DOMAIN outbox /\ ~ outbox[i].due
  /\ outbox' = [outbox EXCEPT ![i].due = TRUE]
  /\ UNCHANGED <<reminded, window, lock, pc, todo, cur, accepted, faults, causes, redo>>

Dispatch(w) ==
  \/ DispatchSelect(w) \/ DispatchLoad(w) \/ SendOne(w) \/ SendCommit(w)
Scan(w) == ScanSelect(w) \/ Remind(w) \/ Mark(w)
Job(w, j) ==
  \/ Acquire(w, j) \/ Release(w, j)
  \/ j = "dispatch" /\ Dispatch(w)
  \/ j = "scan" /\ Scan(w)

Next ==
  \/ \E w \in Workers :
       \/ \E j \in Jobs : Job(w, j) \/ JobFails(w, j)
       \/ Crash(w)
  \/ \E j \in Jobs : StaleLockExpires(j) \/ LockOverrun(j)
  \/ \E r \in Regs : Registered(r) \/ WindowMoves(r)
  \/ \E i \in 1 .. MaxRows : BackoffElapses(i)

\* APScheduler starts every job again and again and runs it to its end; Redis
\* expires keys; time passes.
Fairness ==
  /\ \A w \in Workers, j \in Jobs : WF_vars(Job(w, j))
  /\ \A j \in Jobs : WF_vars(StaleLockExpires(j))
  /\ \A i \in 1 .. MaxRows : WF_vars(BackoffElapses(i))

Spec == Init /\ [][Next]_vars /\ Fairness

-----------------------------------------------------------------------------
(* Properties *)

\* Unless a job outlives the time to live of its lock, two workers never run it
\* at once: not after a crash that leaves the key behind, and not through the
\* unconditional delete in the finally clause of _with_lock.
OneWorkerPerJob ==
  \A j \in Jobs \ causes : Cardinality(Inside(j)) <= 1

\* A row counts as sent only if the provider took it; a row that is given up was
\* never taken, and no row is taken twice, but for the faults that hit exactly
\* between a send and its commit, lose the answer of a provider, or let a second
\* worker in.  Each of them adds at most one duplicate of a row; a crash or a failing
\* commit anywhere else adds none.
DeliveryAccounted ==
  \A i \in DOMAIN outbox :
    /\ outbox[i].status = "sent" => accepted[i] >= 1
    /\ accepted[i] <= 1 + redo["dispatch"]
    /\ (outbox[i].status = "failed" /\ redo["dispatch"] = 0) => accepted[i] = 0

\* attempts counts what was tried: a row is given up after exactly MaxAttempts
\* tries and never tried once more, unless two workers were at it.
AttemptsCounted ==
  "dispatch" \notin causes =>
    \A i \in DOMAIN outbox :
      /\ outbox[i].attempts <= MaxAttempts
      /\ outbox[i].status = "failed" => outbox[i].attempts = MaxAttempts
      /\ outbox[i].status = "pending" => outbox[i].attempts < MaxAttempts

\* A registration is reminded once, and once more at most for each fault that hits
\* exactly between the two commits of scan_reminders or lets a second worker in.
ReminderRows(r) == {i \in DOMAIN outbox : outbox[i].reg = r /\ outbox[i].template = "reminder"}
RemindersCounted == \A r \in Regs : Cardinality(ReminderRows(r)) <= 1 + redo["scan"]

\* What the module says of itself (workers/scheduler.py:11-14, and so does
\* docs/architecture.md:73): the state in the database, status = PENDING and
\* reminder_sent_at IS NULL, keeps both jobs correct, and the worker may crash and
\* restart at any time without duplicating anything.
CrashDuplicatesNothing ==
  causes \subseteq {"crash"} =>
    /\ \A i \in DOMAIN outbox : accepted[i] <= 1
    /\ \A r \in Regs : Cardinality(ReminderRows(r)) <= 1

\* Every queued message is eventually sent or given up, whatever crashes the
\* worker goes through and whatever locks they leave behind: again and again no row
\* is pending.  (A run queues MaxRows at most, so that each row must settle for it;
\* stated of the whole outbox, TLC can check it with room for a third row.)
RowsSettle == []<>(\A i \in DOMAIN outbox : outbox[i].status # "pending")

-----------------------------------------------------------------------------
(* What makes the properties above inductive *)

Sending == {"send", "commit_sent", "commit_retry"}

\* accepted grows with outbox, and a lock that expired too early counts.
Aligned ==
  /\ DOMAIN accepted = DOMAIN outbox
  /\ \A j \in Jobs : redo[j] = 0 => j \notin causes

\* What a worker remembers belongs to where it is in its jobs, and a row that it
\* loaded as settled still is.
Holds(w) ==
  /\ todo[w].rows \subseteq DOMAIN outbox
  /\ pc[w]["dispatch"] \in {"idle", "select", "release"} => todo[w].rows = {}
  /\ pc[w]["dispatch"] \in Sending =>
       /\ cur[w].id \in todo[w].rows
       /\ cur[w].status # "pending" => outbox[cur[w].id].status # "pending"
       /\ pc[w]["dispatch"] = "commit_sent" => accepted[cur[w].id] >= 1
  /\ todo[w].mark \subseteq todo[w].regs
  /\ pc[w]["scan"] \in {"idle", "select", "release"} => todo[w].regs = {}
  /\ pc[w]["scan"] # "mark" => todo[w].mark = {}

WorkersHold == \A w \in Workers : Holds(w)

\* The workers that run a job and the one that a free lock would let in: one,
\* and one more at most for each lock that expired too early.
Entitled(j) == Cardinality(Inside(j)) + (IF lock[j] THEN 0 ELSE 1)

LocksCounted ==
  \A j \in Jobs :
    /\ IsFiniteSet(Inside(j))
    /\ Entitled(j) <= 1 + redo[j]
    /\ j \notin causes => Entitled(j) <= 1

\* A thing that a job should do once was done n times; that it was done is known
\* to the database or not; held workers have done it and not committed, ahead
\* workers are going to do it.  Whoever is entitled to run the job may do it once
\* more as long as the database does not know, and so it is once more than that for
\* each fault, extra in all, that made the job forget.
Balance(known, n, held, ahead, entitled, extra) ==
  IF known
  THEN n + Cardinality(ahead) <= 1 + extra
  ELSE /\ n - Cardinality(held) <= extra
       /\ n - Cardinality(held) + entitled <= 1 + extra

Taken(i) == {w \in Workers : pc[w]["dispatch"] = "commit_sent" /\ cur[w].id = i}
Ahead(i) ==
  {w \in Workers :
     /\ i \in todo[w].rows
     /\ ~ (pc[w]["dispatch"] \in {"commit_sent", "commit_retry"} /\ cur[w].id = i)}

DeliveryBalance(i) ==
  Balance(outbox[i].status # "pending", accepted[i], Taken(i), Ahead(i),
          Entitled("dispatch"), redo["dispatch"])
DeliveriesBalance == \A i \in DOMAIN outbox : DeliveryBalance(i)

Marking(r) == {w \in Workers : r \in todo[w].mark}
Planned(r) == {w \in Workers : r \in todo[w].regs \ todo[w].mark}

ReminderBalance(r) ==
  Balance(r \in reminded, Cardinality(ReminderRows(r)), Marking(r), Planned(r),
          Entitled("scan"), redo["scan"])
RemindersBalance == \A r \in Regs : ReminderBalance(r)

\* While the lock keeps other workers out, what a worker has selected and loaded
\* is what the outbox says.
Exact ==
  "dispatch" \notin causes =>
    \A w \in Workers :
      /\ \A i \in todo[w].rows : outbox[i].status = "pending"
      /\ pc[w]["dispatch"] \in Sending => cur[w] = Load(cur[w].id)

Core == TypeOK /\ Aligned /\ WorkersHold /\ LocksCounted
IInv == Core /\ Exact /\ DeliveriesBalance /\ RemindersBalance
=============================================================================
