-------------------------- MODULE OtpRateLimitProofs --------------------------
(***************************************************************************)
(* The safety of the rate limit of one-time codes, for any handlers,       *)
(* destinations, addresses and limits.                                     *)
(***************************************************************************)
EXTENDS OtpRateLimit, TLAPS

\* The key a handler counts under is one of the counters.
LEMMA KeyKnown ==
  ASSUME LimitTypeOK, MemoryKnown, NEW h \in Handlers, at[h] # "idle"
  PROVE  KeyOf(asked[h]) \in Keys /\ KeyOf(asked[h])[1] = asked[h].rule
<1>1. asked[h] \in Asking
  BY DEF LimitTypeOK
<1>2. asked[h].dest \in Dests /\ (asked[h].rule = "ip" => asked[h].ip \in Ips)
  BY DEF MemoryKnown
<1>3. CASE asked[h].rule = "ip"
  BY <1>2, <1>3 DEF KeyOf, Keys
<1>4. CASE asked[h].rule # "ip"
  BY <1>1, <1>2, <1>4 DEF KeyOf, Keys, Asking, Rules
<1> QED BY <1>3, <1>4

\* A request that a rule admits goes on to the next rule or to the insertion.
LEMMA AdmitStep ==
  ASSUME LimitTypeOK, MemoryKnown, NEW h \in Handlers, at[h] # "idle",
         NEW from, NEW current, Admit(h, from, current)
  PROVE  \E to \in {"count", "insert"}, m \in Asking :
           /\ at' = [at EXCEPT ![h] = to] /\ asked' = [asked EXCEPT ![h] = m]
           /\ m.dest \in Dests /\ (m.rule = "ip" => m.ip \in Ips)
<1> DEFINE m == [asked[h] EXCEPT !.rule = NextRule(asked[h])]
<1>1. asked[h] \in Asking /\ asked[h].dest \in Dests /\ (asked[h].rule = "ip" => asked[h].ip \in Ips)
  BY DEF LimitTypeOK, MemoryKnown
<1>2. NextRule(asked[h]) \in Rules /\ (NextRule(asked[h]) = "ip" => asked[h].ip \in Ips)
  BY <1>1 DEF NextRule, LastRule, Asking, Rules
<1>3. m \in Asking /\ m.dest \in Dests /\ (m.rule = "ip" => m.ip \in Ips)
  BY <1>1, <1>2 DEF Asking
<1>4. AfterRule(asked[h]) \in {"count", "insert"}
  BY DEF AfterRule
<1>5. at' = [at EXCEPT ![h] = AfterRule(asked[h])] /\ asked' = [asked EXCEPT ![h] = m]
  BY DEF Admit, LimitGoto
<1> HIDE DEF m
<1> QED BY <1>3, <1>4, <1>5

\* Initially nothing is counted and nobody is at work.
LEMMA InitInv == LimitInit => LimitIInv
BY LimitAssumption DEF LimitInit, LimitIInv, LimitTypeOK, MemoryKnown, CountersExpire, Creating, PlaceKept,
   LimitsHold, TtlKnown, NothingAsked, Asking, LimitPC, Rules, Keys

\* A step of a handler that touches no counter, from anywhere but between the
\* creation of a counter and its EXPIRE, to anywhere but there.
LEMMA QuietStep ==
  ASSUME LimitIInv, NEW h \in Handlers, NEW to \in LimitPC \ {"expire"}, NEW m \in Asking,
         at[h] # "expire", to # "idle" => m.dest \in Dests /\ (m.rule = "ip" => m.ip \in Ips),
         at' = [at EXCEPT ![h] = to], asked' = [asked EXCEPT ![h] = m],
         cooldown' \subseteq Dests, UNCHANGED <<hits, ttl, admitted, orphaned>>
  PROVE  LimitIInv'
<1> USE DEF LimitIInv
<1>1. LimitTypeOK'
  BY DEF LimitTypeOK
<1>2. MemoryKnown' /\ TtlKnown'
  BY DEF LimitTypeOK, MemoryKnown, TtlKnown
<1>3. \A g \in Handlers : /\ at'[g] = "expire" <=> at[g] = "expire"
                          /\ at[g] = "expire" => asked'[g] = asked[g]
  BY DEF LimitTypeOK
<1>4. \A g \in Handlers, k \in Keys : Creating(g, k)' <=> Creating(g, k)
  BY <1>3 DEF Creating, KeyOf
<1>5. CountersExpire'
  BY <1>4 DEF CountersExpire
<1>6. PlaceKept'
  BY <1>3 DEF PlaceKept, KeyOf
<1> QED BY <1>1, <1>2, <1>5, <1>6 DEF LimitsHold

\* INCR of a counter that exists: one more hit, let through only below the
\* limit.  A creator that has not set the time to live keeps its place.
LEMMA CountAgainStep ==
  ASSUME LimitIInv, NEW h \in Handlers, CountAgain(h)
  PROVE  LimitIInv'
<1> DEFINE k == KeyOf(asked[h])
           L == Limit[asked[h].rule]
<1> USE DEF LimitIInv
<1>1. k \in Keys /\ k[1] = asked[h].rule /\ at[h] = "count" /\ hits[k] # 0
  BY KeyKnown DEF CountAgain
<1>2. asked[h] \in Asking /\ hits \in [Keys -> Nat] /\ admitted \in [Keys -> Nat]
      /\ L \in Nat /\ asked[h].dest \in Dests
  BY <1>1, LimitAssumption DEF LimitTypeOK, Asking, MemoryKnown
<1>3. PICK to \in LimitPC \ {"expire"}, m \in Asking, n \in Nat :
        /\ at' = [at EXCEPT ![h] = to] /\ asked' = [asked EXCEPT ![h] = m]
        /\ to # "idle" => m.dest \in Dests /\ (m.rule = "ip" => m.ip \in Ips)
        /\ admitted' = [admitted EXCEPT ![k] = n]
        /\ \/ n = admitted[k] + 1 /\ hits[k] + 1 <= L
           \/ n = admitted[k] /\ hits[k] + 1 > L
  <2>1. CASE Refuse(h, "count", hits[k] + 1)
    <3>1. NothingAsked \in Asking /\ admitted' = [admitted EXCEPT ![k] = admitted[k]]
      BY <1>1, <1>2, <2>1 DEF Refuse, NothingAsked, Asking, Rules
    <3> QED BY <1>1, <1>2, <2>1, <3>1 DEF Refuse, LimitEnd, LimitGoto, LimitPC
  <2>2. CASE Admit(h, "count", hits[k] + 1)
    <3>1. PICK to \in {"count", "insert"}, m \in Asking :
            /\ at' = [at EXCEPT ![h] = to] /\ asked' = [asked EXCEPT ![h] = m]
            /\ m.dest \in Dests /\ (m.rule = "ip" => m.ip \in Ips)
      BY <1>1, <2>2, AdmitStep
    <3>2. hits[k] + 1 <= L /\ admitted' = [admitted EXCEPT ![k] = admitted[k] + 1]
      BY <2>2 DEF Admit
    <3>3. to \in LimitPC \ {"expire"} /\ admitted[k] + 1 \in Nat
      BY <1>1, <1>2, <3>1 DEF LimitPC
    <3> HIDE DEF k, L
    <3> USE <3>3
    <3> WITNESS to \in LimitPC \ {"expire"}, m \in Asking, admitted[k] + 1 \in Nat
    <3> QED BY <3>1, <3>2
  <2> QED BY <2>1, <2>2 DEF CountAgain
<1>4. PICK c \in Nat : /\ hits' = [hits EXCEPT ![k] = c] /\ c # 0
                       /\ hits[k] + 1 <= L => c = hits[k] + 1
                       /\ hits[k] + 1 > L => c = L + 1
  <2>1. hits' = [hits EXCEPT ![k] = IF hits[k] + 1 > L THEN L + 1 ELSE hits[k] + 1]
    BY DEF CountAgain
  <2> DEFINE c == IF hits[k] + 1 > L THEN L + 1 ELSE hits[k] + 1
  <2> HIDE DEF k, L
  <2>2. c \in Nat /\ c # 0 /\ (hits[k] + 1 <= L => c = hits[k] + 1) /\ (hits[k] + 1 > L => c = L + 1)
    BY <1>1, <1>2
  <2> HIDE DEF c
  <2> USE <2>2
  <2> WITNESS c \in Nat
  <2> QED BY <2>1 DEF c
<1>5. UNCHANGED <<cooldown, ttl, orphaned>>
  BY DEF CountAgain
<1> HIDE DEF k, L
<1>6. LimitTypeOK'
  BY <1>1, <1>3, <1>4, <1>5 DEF LimitTypeOK
<1>7. MemoryKnown' /\ TtlKnown'
  BY <1>1, <1>2, <1>3, <1>4, <1>5 DEF LimitTypeOK, MemoryKnown, TtlKnown
<1>8. \A g \in Handlers : /\ at'[g] = "expire" <=> at[g] = "expire"
                          /\ at[g] = "expire" => asked'[g] = asked[g]
  BY <1>1, <1>3 DEF LimitTypeOK
<1>9. \A g \in Handlers, j \in Keys : Creating(g, j)' <=> Creating(g, j)
  BY <1>8 DEF Creating, KeyOf
<1>10. \A j \in Keys : hits'[j] # 0 <=> hits[j] # 0
  BY <1>1, <1>2, <1>4
<1>11. CountersExpire'
  BY <1>5, <1>9, <1>10 DEF CountersExpire
<1>12. admitted[k] <= hits[k] /\ admitted[k] <= L
  BY <1>1 DEF LimitsHold, L
<1>13. LimitsHold'
  <2> SUFFICES ASSUME NEW j \in Keys PROVE admitted'[j] <= hits'[j] /\ admitted'[j] <= Limit[j[1]]
    BY DEF LimitsHold
  <2>1. CASE j = k
    BY <1>1, <1>2, <1>3, <1>4, <1>12, <2>1 DEF L
  <2>2. CASE j # k
    BY <1>2, <1>3, <1>4, <2>2 DEF LimitsHold
  <2> QED BY <2>1, <2>2
<1>14. PlaceKept'
  <2> SUFFICES ASSUME NEW g \in Handlers, at'[g] = "expire"
               PROVE  LET j == KeyOf(asked'[g])
                      IN  /\ admitted'[j] < hits'[j]
                          /\ Limit[asked'[g].rule] > 0 => admitted'[j] < Limit[asked'[g].rule]
    BY DEF PlaceKept, KeyOf
  <2>1. at[g] = "expire" /\ asked'[g] = asked[g]
    BY <1>8
  <2>2. PICK j \in Keys : j = KeyOf(asked[g]) /\ j[1] = asked[g].rule
    BY <2>1, KeyKnown
  <2>3. admitted[j] < hits[j] /\ (Limit[j[1]] > 0 => admitted[j] < Limit[j[1]])
    BY <2>1, <2>2 DEF PlaceKept
  <2>4. CASE j = k
    <3>1. n < c /\ (L > 0 => n < L)
      BY <1>1, <1>2, <1>3, <1>4, <1>12, <2>3, <2>4 DEF L
    <3> QED BY <1>1, <1>2, <1>3, <1>4, <2>1, <2>2, <2>4, <3>1 DEF L
  <2>5. CASE j # k
    BY <1>2, <1>3, <1>4, <2>1, <2>2, <2>3, <2>5
  <2> QED BY <2>4, <2>5
<1> QED BY <1>6, <1>7, <1>11, <1>13, <1>14

\* INCR creates a counter: nobody else can be creating it, for its hits were 0.
LEMMA CountFirstStep ==
  ASSUME LimitIInv, NEW h \in Handlers, CountFirst(h)
  PROVE  LimitIInv'
<1> DEFINE k == KeyOf(asked[h])
<1> USE DEF LimitIInv
<1>1. k \in Keys /\ k[1] = asked[h].rule /\ at[h] = "count" /\ hits[k] = 0
  BY KeyKnown DEF CountFirst, LimitGoto
<1>2. /\ at' = [at EXCEPT ![h] = "expire"] /\ asked' = asked /\ hits' = [hits EXCEPT ![k] = 1]
      /\ UNCHANGED <<cooldown, ttl, admitted, orphaned>>
  BY DEF CountFirst, LimitGoto, LimitTypeOK
<1>3. hits \in [Keys -> Nat] /\ admitted \in [Keys -> Nat] /\ at \in [Handlers -> LimitPC]
      /\ Limit \in [Rules -> Nat]
  BY LimitAssumption DEF LimitTypeOK
<1>4. admitted[k] = 0
  BY <1>1, <1>3 DEF LimitsHold
<1>5. k \notin ttl
  BY <1>1 DEF LimitTypeOK, TtlKnown
<1> HIDE DEF k
<1>6. LimitTypeOK' /\ MemoryKnown'
  BY <1>1, <1>2, <1>3 DEF LimitTypeOK, MemoryKnown, LimitPC
<1>7. \A g \in Handlers, j \in Keys :
        Creating(g, j)' <=> Creating(g, j) \/ (g = h /\ j = k)
  BY <1>1, <1>2, <1>3 DEF Creating, KeyOf, k
<1>8. \A g \in Handlers : ~ Creating(g, k)
  BY <1>1 DEF CountersExpire
<1>9. CountersExpire'
  BY <1>1, <1>2, <1>3, <1>5, <1>7, <1>8 DEF CountersExpire
<1>10. LimitsHold'
  BY <1>1, <1>2, <1>3, <1>4 DEF LimitsHold
<1>11. PlaceKept'
  BY <1>1, <1>2, <1>3, <1>4, <1>8 DEF PlaceKept, Creating, KeyOf, k
<1>12. TtlKnown'
  BY <1>1, <1>2, <1>3 DEF TtlKnown
<1> QED BY <1>6, <1>9, <1>10, <1>11, <1>12

\* The creator leaves: it sets the time to live and is admitted or refused, or
\* it fails and the counter is an orphan.
LEMMA CreatorLeaves ==
  ASSUME LimitIInv, NEW h \in Handlers, at[h] = "expire",
         NEW to \in LimitPC \ {"expire"}, NEW m \in Asking, NEW n \in {0, 1},
         to # "idle" => m.dest \in Dests /\ (m.rule = "ip" => m.ip \in Ips),
         at' = [at EXCEPT ![h] = to], asked' = [asked EXCEPT ![h] = m],
         n = 1 => Limit[asked[h].rule] >= 1,
         admitted' = [admitted EXCEPT ![KeyOf(asked[h])] = admitted[KeyOf(asked[h])] + n],
         \/ ttl' = ttl \cup {KeyOf(asked[h])} /\ orphaned' = orphaned
         \/ ttl' = ttl /\ orphaned' = orphaned \cup {KeyOf(asked[h])},
         UNCHANGED <<cooldown, hits>>
  PROVE  LimitIInv'
<1> DEFINE k == KeyOf(asked[h])
<1> USE DEF LimitIInv
<1>1. k \in Keys /\ k[1] = asked[h].rule
  BY KeyKnown
<1>2. Creating(h, k) /\ hits[k] # 0 /\ \A g \in Handlers : Creating(g, k) => g = h
  BY <1>1 DEF Creating, CountersExpire
<1>3. hits \in [Keys -> Nat] /\ admitted \in [Keys -> Nat] /\ Limit[asked[h].rule] \in Nat
  BY LimitAssumption DEF LimitTypeOK, Asking
<1>4. admitted[k] < hits[k] /\ (Limit[k[1]] > 0 => admitted[k] < Limit[k[1]])
  BY <1>1 DEF PlaceKept
<1>5. /\ admitted' = [admitted EXCEPT ![k] = admitted[k] + n]
      /\ \/ ttl' = ttl \cup {k} /\ orphaned' = orphaned
         \/ ttl' = ttl /\ orphaned' = orphaned \cup {k}
  OBVIOUS
<1>6. \A g \in Handlers : /\ g # h => at'[g] = at[g] /\ asked'[g] = asked[g]
                          /\ at'[g] = "expire" => g # h
  BY DEF LimitTypeOK
<1>7. \A g \in Handlers, j \in Keys : Creating(g, j)' <=> (Creating(g, j) /\ g # h)
  BY <1>6 DEF Creating, KeyOf
<1>8. \A j \in Keys : Creating(h, j) => j = k
  BY DEF Creating
<1>9. k[1] = asked[h].rule /\ Limit[k[1]] \in Nat /\ (n = 1 => Limit[k[1]] >= 1)
  BY <1>1, <1>3
<1> HIDE DEF k
<1>10. LimitTypeOK' /\ MemoryKnown' /\ TtlKnown'
  BY <1>1, <1>2, <1>3, <1>5 DEF LimitTypeOK, MemoryKnown, TtlKnown
<1>11. CountersExpire'
  BY <1>1, <1>2, <1>5, <1>7, <1>8 DEF CountersExpire
<1>12. LimitsHold'
  BY <1>1, <1>3, <1>4, <1>5, <1>9 DEF LimitsHold
<1>13. PlaceKept'
  <2> SUFFICES ASSUME NEW g \in Handlers, at'[g] = "expire"
               PROVE  LET j == KeyOf(asked'[g])
                      IN  /\ admitted'[j] < hits'[j]
                          /\ Limit[asked'[g].rule] > 0 => admitted'[j] < Limit[asked'[g].rule]
    BY DEF PlaceKept, KeyOf
  <2>1. g # h /\ at[g] = "expire" /\ asked'[g] = asked[g]
    BY <1>6
  <2>2. PICK j \in Keys : j = KeyOf(asked[g])
    BY <2>1, KeyKnown
  <2>3. j # k
    BY <1>2, <2>1, <2>2 DEF Creating
  <2>4. admitted'[j] = admitted[j]
    BY <1>3, <1>5, <2>3
  <2> QED BY <2>1, <2>2, <2>4 DEF PlaceKept
<1> QED BY <1>10, <1>11, <1>12, <1>13

\* EXPIRE: the creator leaves with the time to live set.
LEMMA ExpireStep ==
  ASSUME LimitIInv, NEW h \in Handlers, Expire(h)
  PROVE  LimitIInv'
<1> USE DEF LimitIInv
<1>1. at[h] = "expire" /\ KeyOf(asked[h]) \in Keys /\ admitted \in [Keys -> Nat]
  <2>1. at[h] = "expire"
    BY DEF Expire, Admit, Refuse, LimitEnd, LimitGoto
  <2> QED BY <2>1, KeyKnown DEF LimitTypeOK
<1>2. ttl' = ttl \cup {KeyOf(asked[h])} /\ UNCHANGED <<cooldown, hits, orphaned>>
  BY DEF Expire
<1>3. CASE Admit(h, "expire", 1)
  <2>1. PICK to \in {"count", "insert"}, m \in Asking :
          /\ at' = [at EXCEPT ![h] = to] /\ asked' = [asked EXCEPT ![h] = m]
          /\ m.dest \in Dests /\ (m.rule = "ip" => m.ip \in Ips)
    BY <1>1, <1>3, AdmitStep
  <2>2. /\ admitted' = [admitted EXCEPT ![KeyOf(asked[h])] = admitted[KeyOf(asked[h])] + 1]
        /\ Limit[asked[h].rule] >= 1
    BY <1>3, LimitAssumption DEF Admit, LimitTypeOK, Asking
  <2>3. to \in LimitPC \ {"expire"}
    BY <2>1 DEF LimitPC
  <2> QED BY <1>1, <1>2, <2>1, <2>2, <2>3, CreatorLeaves
<1>4. CASE Refuse(h, "expire", 1)
  <2>1. /\ at' = [at EXCEPT ![h] = "idle"] /\ asked' = [asked EXCEPT ![h] = NothingAsked]
        /\ admitted' = admitted
    BY <1>4 DEF Refuse, LimitEnd, LimitGoto
  <2>2. PICK n \in {0, 1} :
          /\ n = 1 => Limit[asked[h].rule] >= 1
          /\ admitted' = [admitted EXCEPT ![KeyOf(asked[h])] = admitted[KeyOf(asked[h])] + n]
    BY <1>1, <2>1
  <2>3. "idle" \in LimitPC \ {"expire"} /\ NothingAsked \in Asking
    BY DEF LimitPC, NothingAsked, Asking, Rules
  <2> QED BY <1>1, <1>2, <2>1, <2>2, <2>3, CreatorLeaves
<1> QED BY <1>3, <1>4 DEF Expire

\* A failure leaves every counter as it is; the creator's becomes an orphan.
LEMMA FailStep ==
  ASSUME LimitIInv, NEW h \in Handlers, LimitFail(h)
  PROVE  LimitIInv'
<1> USE DEF LimitIInv
<1>1. /\ at' = [at EXCEPT ![h] = "idle"] /\ asked' = [asked EXCEPT ![h] = NothingAsked]
      /\ UNCHANGED <<cooldown, hits, ttl, admitted>>
  BY DEF LimitFail, LimitEnd, LimitGoto
<1>2. "idle" \in LimitPC \ {"expire"} /\ NothingAsked \in Asking
  BY DEF LimitPC, NothingAsked, Asking, Rules
<1>3. CASE at[h] = "expire"
  <2>1. KeyOf(asked[h]) \in Keys /\ admitted \in [Keys -> Nat]
    BY <1>3, KeyKnown DEF LimitTypeOK
  <2>2. PICK n \in {0, 1} :
          /\ n = 1 => Limit[asked[h].rule] >= 1
          /\ admitted' = [admitted EXCEPT ![KeyOf(asked[h])] = admitted[KeyOf(asked[h])] + n]
    BY <1>1, <2>1
  <2>3. orphaned' = orphaned \cup {KeyOf(asked[h])}
    BY <1>3 DEF LimitFail
  <2> QED BY <1>1, <1>2, <1>3, <2>2, <2>3, CreatorLeaves
<1>4. CASE at[h] # "expire"
  <2>1. orphaned' = orphaned /\ cooldown' \subseteq Dests
    BY <1>1, <1>4 DEF LimitFail, LimitTypeOK
  <2> QED BY <1>1, <1>2, <1>4, <2>1, QuietStep
<1> QED BY <1>3, <1>4

\* Redis deletes a counter, which has a time to live and so no creator.
LEMMA WindowEndsStep ==
  ASSUME LimitIInv, NEW k \in Keys, WindowEnds(k)
  PROVE  LimitIInv'
<1> USE DEF LimitIInv, WindowEnds
<1>1. hits \in [Keys -> Nat] /\ admitted \in [Keys -> Nat] /\ Limit \in [Rules -> Nat]
  BY LimitAssumption DEF LimitTypeOK
<1>2. k[1] \in Rules
  BY DEF Keys, Rules
<1>3. \A g \in Handlers, j \in Keys : /\ Creating(g, j)' <=> Creating(g, j)
                                      /\ Creating(g, k) => FALSE
  BY DEF Creating, KeyOf, CountersExpire
<1>4. LimitTypeOK' /\ MemoryKnown' /\ TtlKnown' /\ LimitsHold'
  BY <1>1, <1>2 DEF LimitTypeOK, MemoryKnown, TtlKnown, LimitsHold
<1>5. CountersExpire'
  BY <1>1, <1>3 DEF CountersExpire
<1>6. PlaceKept'
  <2> SUFFICES ASSUME NEW g \in Handlers, at[g] = "expire"
               PROVE  LET j == KeyOf(asked[g])
                      IN  /\ admitted'[j] < hits'[j]
                          /\ Limit[asked[g].rule] > 0 => admitted'[j] < Limit[asked[g].rule]
    BY DEF PlaceKept, KeyOf
  <2>1. PICK j \in Keys : j = KeyOf(asked[g]) /\ j # k
    BY <1>3, KeyKnown DEF Creating
  <2> QED BY <1>1, <2>1 DEF PlaceKept
<1> QED BY <1>4, <1>5, <1>6

\* The inductive invariant is kept by every step of the rate limit.
LEMMA NextInv == LimitIInv /\ [LimitNext]_limitVars => LimitIInv'
<1> SUFFICES ASSUME LimitIInv, [LimitNext]_limitVars PROVE LimitIInv'
  OBVIOUS
<1>1. NothingAsked \in Asking /\ NothingAsked.rule = "hour"
      /\ {"idle", "cooldown", "count", "insert"} = LimitPC \ {"expire"}
  BY DEF LimitPC, NothingAsked, Asking, Rules
<1>2. ASSUME NEW h \in Handlers, NEW d \in Dests, NEW ip \in Ips \cup {None}, LimitBegin(h, d, ip)
      PROVE  LimitIInv'
  <2> DEFINE m == [NothingAsked EXCEPT !.dest = d, !.ip = ip]
  <2>1. m \in Asking /\ m.dest = d /\ m.rule = "hour"
    BY DEF NothingAsked, Asking, Rules
  <2>2. /\ at[h] # "expire" /\ cooldown' \subseteq Dests
        /\ at' = [at EXCEPT ![h] = "cooldown"] /\ asked' = [asked EXCEPT ![h] = m]
        /\ UNCHANGED <<hits, ttl, admitted, orphaned>>
    BY <1>2 DEF LimitBegin, LimitGoto, LimitIInv, LimitTypeOK
  <2> HIDE DEF m
  <2> QED BY <1>1, <2>1, <2>2, QuietStep
<1>3. ASSUME NEW h \in Handlers, EnforceCooldown(h) PROVE LimitIInv'
  <2>1. /\ asked[h] \in Asking /\ at[h] = "cooldown" /\ asked[h].dest \in Dests
        /\ asked[h].rule = "ip" => asked[h].ip \in Ips
    BY <1>3 DEF EnforceCooldown, LimitGoto, LimitEnd, LimitIInv, LimitTypeOK, MemoryKnown
  <2>2. cooldown' \subseteq Dests /\ UNCHANGED <<hits, ttl, admitted, orphaned>>
    BY <1>3, <2>1 DEF EnforceCooldown, LimitIInv, LimitTypeOK
  <2>3. \/ at' = [at EXCEPT ![h] = "count"] /\ asked' = [asked EXCEPT ![h] = asked[h]]
        \/ at' = [at EXCEPT ![h] = "idle"] /\ asked' = [asked EXCEPT ![h] = NothingAsked]
    BY <1>3 DEF EnforceCooldown, LimitGoto, LimitEnd
  <2> QED BY <1>1, <2>1, <2>2, <2>3, QuietStep
<1>4. ASSUME NEW h \in Handlers, LimitPassed(h) PROVE LimitIInv'
  <2>1. /\ at[h] # "expire" /\ cooldown' \subseteq Dests
        /\ at' = [at EXCEPT ![h] = "idle"] /\ asked' = [asked EXCEPT ![h] = NothingAsked]
        /\ UNCHANGED <<hits, ttl, admitted, orphaned>>
    BY <1>4 DEF LimitPassed, LimitEnd, LimitGoto, LimitIInv, LimitTypeOK
  <2> QED BY <1>1, <2>1, QuietStep
<1>5. ASSUME NEW d \in Dests, CooldownEnds(d) PROVE LimitIInv'
  BY <1>5 DEF CooldownEnds, LimitIInv, LimitTypeOK, MemoryKnown, TtlKnown, CountersExpire, Creating,
     PlaceKept, LimitsHold, KeyOf
<1>6. CASE UNCHANGED limitVars
  BY <1>6 DEF limitVars, LimitIInv, LimitTypeOK, MemoryKnown, TtlKnown, CountersExpire, Creating,
     PlaceKept, LimitsHold, KeyOf
<1> QED BY <1>2, <1>3, <1>4, <1>5, <1>6, CountAgainStep, CountFirstStep, ExpireStep, FailStep,
           WindowEndsStep DEF LimitNext, LimitContinue

\* The inductive invariant of the rate limit always holds.
THEOREM Invariance == LimitSpec => []LimitIInv
<1>1. LimitInit => LimitIInv
  BY InitInv
<1>2. LimitIInv /\ [LimitNext]_limitVars => LimitIInv'
  BY NextInv
<1> QED BY <1>1, <1>2, PTL DEF LimitSpec

\* The variables keep their types.
THEOREM TypeCorrect == LimitSpec => []LimitTypeOK
<1>1. LimitIInv => LimitTypeOK
  BY DEF LimitIInv
<1> QED BY <1>1, Invariance, PTL

\* No window lets more requests through than its limit, however many handlers
\* count at the same time and wherever they fail.
THEOREM LimitsAlwaysHold == LimitSpec => []LimitsHold
<1>1. LimitIInv => LimitsHold
  BY DEF LimitIInv
<1> QED BY <1>1, Invariance, PTL

\* A counter lives without a time to live only while its one creator is about to
\* set it, or after a crash of that creator.
THEOREM CountersAlwaysExpire == LimitSpec => []CountersExpire
<1>1. LimitIInv => CountersExpire
  BY DEF LimitIInv
<1> QED BY <1>1, Invariance, PTL
=============================================================================
