----------------------------- MODULE OtpRateLimit -----------------------------
(***************************************************************************)
(* The rate limit of one-time codes: core/rate_limit.py, called by         *)
(* request_otp of services/otp_service.py before it writes a challenge.    *)
(*                                                                         *)
(* A cooldown is a Redis key that SET NX EX creates with its time to live. *)
(* A fixed window is a Redis counter: INCR is atomic, but the EXPIRE that  *)
(* gives a new counter its time to live is a second command, and other     *)
(* requests, or a crash, can come in between.  Time is abstracted to its   *)
(* effect: a cooldown or a window ends at any moment.  The window per user *)
(* is left out: no endpoint passes a user_id.                              *)
(***************************************************************************)
EXTENDS Integers, OtpSettings

VARIABLES
  cooldown,  \* destinations whose cooldown key exists
  hits,      \* the counters of the fixed windows
  ttl,       \* counters that have a time to live
  at,        \* where each handler is
  asked,     \* what it was asked for, and the rule it counts next
  admitted,  \* history: requests each counter let through since it started
  orphaned   \* history: counters whose EXPIRE a crash swallowed

limitVars == <<cooldown, hits, ttl, at, asked, admitted, orphaned>>

Keys == ({"hour", "day"} \X Dests) \cup ({"ip"} \X Ips)
LimitPC == {"idle", "cooldown", "count", "expire", "insert"}
NothingAsked == [dest |-> None, ip |-> None, rule |-> "hour"]
Asking == [dest : Dests \cup {None}, ip : Ips \cup {None}, rule : Rules]

LimitTypeOK ==
  /\ cooldown \subseteq Dests
  /\ hits \in [Keys -> Nat]
  /\ ttl \subseteq Keys
  /\ at \in [Handlers -> LimitPC]
  /\ asked \in [Handlers -> Asking]
  /\ admitted \in [Keys -> Nat]
  /\ orphaned \subseteq Keys

LimitInit ==
  /\ cooldown = {}
  /\ hits = [k \in Keys |-> 0]
  /\ ttl = {}
  /\ at = [h \in Handlers |-> "idle"]
  /\ asked = [h \in Handlers |-> NothingAsked]
  /\ admitted = [k \in Keys |-> 0]
  /\ orphaned = {}

-----------------------------------------------------------------------------
(* Helpers *)

LimitGoto(h, from, to, memory) ==
  /\ at[h] = from
  /\ at' = [at EXCEPT ![h] = to]
  /\ asked' = [asked EXCEPT ![h] = memory]

\* The handler answers and forgets the request.
LimitEnd(h, from) == LimitGoto(h, from, "idle", NothingAsked)

\* f"{rule.key_prefix}:{identifier}"
KeyOf(r) == <<r.rule, IF r.rule = "ip" THEN r.ip ELSE r.dest>>

-----------------------------------------------------------------------------
(* request_otp as far as the insertion of the challenge *)

\* None stands for the empty address, which is not counted.
LimitBegin(h, d, ip) ==
  /\ LimitGoto(h, "idle", "cooldown", [NothingAsked EXCEPT !.dest = d, !.ip = ip])
  /\ UNCHANGED <<cooldown, hits, ttl, admitted, orphaned>>

\* enforce_cooldown: SET NX EX
EnforceCooldown(h) ==
  /\ \/ LimitGoto(h, "cooldown", "count", asked[h]) /\ asked[h].dest \notin cooldown
     \/ LimitEnd(h, "cooldown") /\ asked[h].dest \in cooldown
  /\ cooldown' = cooldown \cup {asked[h].dest}
  /\ UNCHANGED <<hits, ttl, admitted, orphaned>>

\* enforce_otp_request_limits counts the hour, the day and the address in turn,
\* the address only if there is one.
LastRule(r) == r.rule = "ip" \/ (r.rule = "day" /\ r.ip = None)
NextRule(r) == CASE LastRule(r) -> r.rule
                 [] ~ LastRule(r) /\ r.rule = "hour" -> "day"
                 [] ~ LastRule(r) /\ r.rule = "day" -> "ip"
AfterRule(r) == IF LastRule(r) THEN "insert" ELSE "count"

\* The end of _check_fixed_window: refuse, or go on to the next rule.
Refuse(h, from, current) ==
  /\ LimitEnd(h, from)
  /\ current > Limit[asked[h].rule]
  /\ UNCHANGED admitted

Admit_OneMore(h, from, current) ==
  /\ LimitGoto(h, from, AfterRule(asked[h]), [asked[h] EXCEPT !.rule = NextRule(asked[h])])
  /\ current <= Limit[asked[h].rule] + 1
  /\ admitted' = [admitted EXCEPT ![KeyOf(asked[h])] = @ + 1]

Admit(h, from, current) ==
  /\ LimitGoto(h, from, AfterRule(asked[h]), [asked[h] EXCEPT !.rule = NextRule(asked[h])])
  /\ current <= Limit[asked[h].rule]
  /\ admitted' = [admitted EXCEPT ![KeyOf(asked[h])] = @ + 1]

\* INCR of a counter that exists, and the verdict.  The counts beyond the first
\* one refused all act alike and are not told apart.
CountAgain(h) ==
  LET k == KeyOf(asked[h])
      current == hits[k] + 1
  IN  /\ at[h] = "count" /\ hits[k] # 0
      /\ Admit(h, "count", current) \/ Refuse(h, "count", current)
      /\ hits' = [hits EXCEPT ![k] = IF current > Limit[asked[h].rule]
                                       THEN Limit[asked[h].rule] + 1 ELSE current]
      /\ UNCHANGED <<cooldown, ttl, orphaned>>

\* INCR creates the counter, without a time to live ...
CountFirst(h) ==
  LET k == KeyOf(asked[h])
  IN  /\ LimitGoto(h, "count", "expire", asked[h])
      /\ hits[k] = 0
      /\ hits' = [hits EXCEPT ![k] = 1]
      /\ UNCHANGED <<cooldown, ttl, admitted, orphaned>>

\* ... until the same handler sets one.
Expire_Forgotten(h) ==
  /\ Admit(h, "expire", 1) \/ Refuse(h, "expire", 1)
  /\ UNCHANGED <<cooldown, hits, ttl, orphaned>>

Expire(h) ==
  /\ Admit(h, "expire", 1) \/ Refuse(h, "expire", 1)
  /\ ttl' = ttl \cup {KeyOf(asked[h])}
  /\ UNCHANGED <<cooldown, hits, orphaned>>

\* The rest of request_otp: module OtpService.
LimitPassed(h) ==
  /\ LimitEnd(h, "insert")
  /\ UNCHANGED <<cooldown, hits, ttl, admitted, orphaned>>

-----------------------------------------------------------------------------
(* Failures and time *)

\* A Redis error or a killed worker ends the request where it is.
LimitFail(h) ==
  /\ at[h] # "idle"
  /\ LimitEnd(h, at[h])
  /\ orphaned' = IF at[h] = "expire" THEN orphaned \cup {KeyOf(asked[h])} ELSE orphaned
  /\ UNCHANGED <<cooldown, hits, ttl, admitted>>

CooldownEnds(d) ==
  /\ d \in cooldown
  /\ cooldown' = cooldown \ {d}
  /\ UNCHANGED <<hits, ttl, at, asked, admitted, orphaned>>

\* Redis deletes a counter whose time is over.
WindowEnds(k) ==
  /\ k \in ttl
  /\ ttl' = ttl \ {k}
  /\ hits' = [hits EXCEPT ![k] = 0]
  /\ admitted' = [admitted EXCEPT ![k] = 0]
  /\ UNCHANGED <<cooldown, at, asked, orphaned>>

LimitContinue(h) ==
  EnforceCooldown(h) \/ CountAgain(h) \/ CountFirst(h) \/ Expire(h) \/ LimitPassed(h)

LimitNext ==
  \/ \E h \in Handlers :
       \/ \E d \in Dests, ip \in Ips \cup {None} : LimitBegin(h, d, ip)
       \/ LimitContinue(h)
       \/ LimitFail(h)
  \/ \E d \in Dests : CooldownEnds(d)
  \/ \E k \in Keys : WindowEnds(k)

\* A handler goes on unless it fails; Redis deletes what has a time to live.
LimitFairness ==
  /\ \A h \in Handlers : WF_limitVars(LimitContinue(h))
  /\ \A k \in Keys : WF_limitVars(WindowEnds(k))

LimitSpec == LimitInit /\ [][LimitNext]_limitVars /\ LimitFairness

-----------------------------------------------------------------------------
(* Properties *)

\* Whatever requests overlap, a counter lets no more of them through than its
\* limit between its creation and its end; one that lives is never behind them.
LimitsHold ==
  \A k \in Keys : admitted[k] <= hits[k] /\ admitted[k] <= Limit[k[1]]

\* A counter without a time to live is one that a handler has just created and
\* is about to give one, the only handler to do so; else a crash left it behind.
Creating(h, k) == at[h] = "expire" /\ KeyOf(asked[h]) = k
CountersExpire ==
  \A k \in Keys :
    /\ hits[k] # 0 /\ k \notin ttl /\ k \notin orphaned =>
         \E h \in Handlers : Creating(h, k)
    /\ \A g, h \in Handlers :
         Creating(g, k) => /\ hits[k] # 0 /\ k \notin ttl
                           /\ Creating(h, k) => g = h

\* Every handler at work knows what it counts, a key with a time to live exists,
\* and the handler that created a counter has its own place among the requests
\* that the counter may admit.
MemoryKnown ==
  \A h \in Handlers :
    at[h] # "idle" => /\ asked[h].dest \in Dests
                      /\ asked[h].rule = "ip" => asked[h].ip \in Ips
TtlKnown == \A k \in ttl : hits[k] # 0
PlaceKept ==
  \A h \in Handlers : at[h] = "expire" =>
    LET k == KeyOf(asked[h])
    IN  /\ admitted[k] < hits[k]
        /\ Limit[asked[h].rule] > 0 => admitted[k] < Limit[asked[h].rule]
LimitIInv == LimitTypeOK /\ MemoryKnown /\ TtlKnown /\ CountersExpire /\ PlaceKept /\ LimitsHold

\* A counter that refuses requests ends sooner or later, so that nobody is kept
\* from logging in for good, unless a crash came between INCR and EXPIRE.
BlockEnds ==
  \A k \in Keys : hits[k] > Limit[k[1]] ~> (hits[k] = 0 \/ k \in orphaned)
=============================================================================
