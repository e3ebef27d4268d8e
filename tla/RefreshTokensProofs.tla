------------------------- MODULE RefreshTokensProofs -------------------------
(***************************************************************************)
(* Proofs about RefreshTokens and, in its last part, about BrowserSession, *)
(* which adds the browser to it, for any number of handlers, users, tabs   *)
(* and tokens and any token lifetime.                                      *)
(***************************************************************************)
EXTENDS BrowserSession, TLAPS, SequenceTheorems, FiniteSetTheorems

\* A handler that holds nothing is well typed.
LEMMA NoRequestType == NoRequest \in Request
BY RefreshTokensAssumption DEF NoRequest, Request

\* The empty table with idle handlers satisfies the invariant.
LEMMA InitInv == Init => IInv
<1> SUFFICES ASSUME Init PROVE IInv
  OBVIOUS
<1>1. TypeOK
  BY RefreshTokensAssumption, NoRequestType, EmptySeq DEF Init, TypeOK, UserStatus, PC
<1>2. DOMAIN tokens = {} /\ DOMAIN origin = {} /\ delivered = {}
  BY DEF Init
<1>3. \A h \in Handlers : pc[h] = "idle" /\ loc[h] = NoRequest
  BY DEF Init
<1>4. /\ NoRequest.row = 0 /\ NoRequest.new = 0 /\ NoRequest.cur = 0
      /\ NoRequest.held = {}
  BY DEF NoRequest
<1>5. Lineage /\ ChainPointsForward /\ DeliveredReplacesParent /\ SingleLiveToken
  BY <1>2 DEF Lineage, ChainPointsForward, DeliveredReplacesParent, SingleLiveToken
<1>6. HandlersHold /\ Separate /\ LoginsUndelivered
  BY <1>3, <1>4 DEF HandlersHold, Held, Sole, Separate, LoginsUndelivered
<1> QED
  BY <1>1, <1>5, <1>6 DEF IInv

-----------------------------------------------------------------------------
(* What other requests may do to the rows while a handler is at work *)

\* Rows are only added, revoked or relinked, what was delivered stays so.
RowsGrow ==
  /\ DOMAIN tokens \subseteq DOMAIN tokens'
  /\ \A i \in DOMAIN tokens : /\ tokens'[i].user = tokens[i].user
                              /\ tokens[i].revoked => tokens'[i].revoked
                              /\ origin'[i] = origin[i]
  /\ delivered' = delivered
  /\ contended \subseteq contended'

\* Such a step leaves true what a handler that does not move knows.
LEMMA KnowledgeCarries ==
  ASSUME Lineage, RowsGrow, NEW p, NEW l \in Request, Held(p, l), Sole(p, l)
  PROVE  Held(p, l)' /\ Sole(p, l)'
<1>1. delivered \subseteq DOMAIN tokens
  BY DEF Lineage
<1>2. \A i \in DOMAIN tokens : Family(i)' = Family(i)
  BY DEF RowsGrow, Family
<1>3. l.row # 0 => l.row \in DOMAIN tokens /\ Family(l.row)' = Family(l.row)
  BY <1>1, <1>2 DEF Held
<1>4. Held(p, l)'
  BY <1>1, <1>2, <1>3 DEF Held, RowsGrow
<1>5. Sole(p, l)'
  BY <1>1, <1>2, <1>3 DEF Sole, RowsGrow, Held
<1> QED
  BY <1>4, <1>5

-----------------------------------------------------------------------------
(* Steps that only change what one handler holds *)

LEMMA MemoryStep ==
  ASSUME IInv, NEW h \in Handlers,
         UNCHANGED <<tokens, origin, delivered>>,
         status' \in [Users -> UserStatus], clock' \in Nat,
         contended' \subseteq Nat, contended \subseteq contended',
         pc' \in [Handlers -> PC], loc' \in [Handlers -> Request],
         \A g \in Handlers \ {h} : pc'[g] = pc[g] /\ loc'[g] = loc[g],
         (HandlersHold /\ Lineage) => (Held(pc[h], loc[h])' /\ Sole(pc[h], loc[h])'),
         \A g \in Handlers \ {h} :
           (loc[g].row # 0 /\ loc'[h].row # 0 /\ Family(loc[g].row) = Family(loc'[h].row))
             => Family(loc[g].row) \in contended',
         loc'[h].new = 0 \/ (loc'[h].new = loc[h].new /\ loc'[h].row = loc[h].row)
  PROVE  IInv'
<1>0. /\ TypeOK /\ Lineage /\ ChainPointsForward /\ DeliveredReplacesParent
      /\ SingleLiveToken /\ HandlersHold /\ Separate /\ LoginsUndelivered
  BY DEF IInv
<1>1. TypeOK'
  BY <1>0 DEF TypeOK
<1>2. Lineage' /\ ChainPointsForward' /\ DeliveredReplacesParent'
  BY <1>0 DEF Lineage, ChainPointsForward, DeliveredReplacesParent, Family
<1>3. SingleLiveToken'
  BY <1>0 DEF SingleLiveToken, Family
<1>4. RowsGrow
  BY DEF RowsGrow
<1>5. HandlersHold'
  <2> SUFFICES ASSUME NEW g \in Handlers
               PROVE  (Held(pc[g], loc[g]) /\ Sole(pc[g], loc[g]))'
    BY DEF HandlersHold
  <2>1. CASE g = h
    BY <1>0, <2>1
  <2>2. CASE g # h
    <3>1. PICK p, l : p = pc[g] /\ l = loc[g]
      OBVIOUS
    <3>2. l \in Request /\ Held(p, l) /\ Sole(p, l)
      BY <1>0, <3>1 DEF HandlersHold, TypeOK
    <3>3. Held(p, l)' /\ Sole(p, l)'
      BY <1>0, <1>4, <3>2, KnowledgeCarries
    <3> QED
      BY <2>2, <3>1, <3>3
  <2> QED
    BY <2>1, <2>2
<1>6. \A i : Family(i)' = Family(i)
  BY DEF Family
<1>7. Separate'
  <2> SUFFICES ASSUME NEW f \in Handlers, NEW g \in Handlers, f # g
               PROVE  /\ (loc'[f].row # 0 /\ loc'[g].row # 0
                            /\ Family(loc[f].row)' = Family(loc[g].row)')
                           => Family(loc[f].row)' \in contended'
                      /\ loc'[f].new # 0 => loc'[f].new # loc'[g].new
    BY DEF Separate
  <2>0. /\ (loc[f].row # 0 /\ loc[g].row # 0 /\ Family(loc[f].row) = Family(loc[g].row))
             => Family(loc[f].row) \in contended
        /\ loc[f].new # 0 => loc[f].new # loc[g].new
        /\ loc[g].new # 0 => loc[g].new # loc[f].new
    BY <1>0 DEF Separate
  <2>1. CASE f # h /\ g # h
    BY <2>0, <2>1 DEF Family
  <2>2. CASE f = h
    BY <2>0, <2>2 DEF Family
  <2>3. CASE g = h
    BY <2>0, <2>3 DEF Family
  <2> QED
    BY <2>1, <2>2, <2>3
<1>8. LoginsUndelivered'
  BY <1>0 DEF LoginsUndelivered
<1> QED
  BY <1>1, <1>2, <1>3, <1>5, <1>7, <1>8 DEF IInv

\* A request that starts on row i notes every other request on its login.
LEMMA ContentionNoted ==
  ASSUME IInv, NEW h \in Handlers, NEW i \in delivered, pc[h] = "idle", NoteContention(i)
  PROVE  /\ contended' \subseteq Nat /\ contended \subseteq contended'
         /\ i \in DOMAIN tokens /\ i # 0 /\ Family(i) \in Nat
         /\ tokens[i].user \in Users /\ tokens[i].replaced_by \in Nat
         /\ \A g \in Handlers \ {h} :
              (loc[g].row # 0 /\ Family(loc[g].row) = Family(i)) => Family(i) \in contended'
<1>1. i \in DOMAIN tokens /\ i \in DOMAIN origin
  BY DEF IInv, Lineage
<1>2. tokens[i] \in Token /\ origin[i] \in Origin /\ i # 0
  BY <1>1, LenProperties, ElementOfSeq DEF IInv, TypeOK
<1>3. /\ Family(i) \in Nat /\ tokens[i].user \in Users /\ tokens[i].replaced_by \in Nat
  BY <1>2 DEF Family, Origin, Token
<1>4. contended' \subseteq Nat /\ contended \subseteq contended'
  BY <1>3 DEF NoteContention, IInv, TypeOK
<1>5. ASSUME NEW g \in Handlers \ {h}, loc[g].row # 0, Family(loc[g].row) = Family(i)
      PROVE  Family(i) \in contended'
  <2>1. pc[g] # "idle"
    BY <1>5 DEF IInv, HandlersHold, Held, NoRequest
  <2>2. g \in WorkingOn(Family(i))
    BY <1>5, <2>1 DEF WorkingOn
  <2> QED
    BY <2>2 DEF NoteContention
<1> QED
  BY <1>1, <1>2, <1>3, <1>4, <1>5

LEMMA LoginBeginInv ==
  ASSUME IInv, NEW h \in Handlers, NEW u \in Users, LoginBegin(h, u)
  PROVE  IInv'
<1> DEFINE l == [NoRequest EXCEPT !.user = u]
<1>1. /\ l \in Request /\ l.row = 0 /\ l.new = 0 /\ l.cur = 0 /\ l.held = {}
      /\ l.user \in Users
  BY NoRequestType DEF NoRequest, Request
<1>2. loc' = [loc EXCEPT ![h] = l]
  BY DEF LoginBegin
<1> HIDE DEF l
<1>3. /\ pc' \in [Handlers -> PC] /\ loc' \in [Handlers -> Request]
      /\ pc'[h] = "login_issue" /\ loc'[h] = l
      /\ \A g \in Handlers \ {h} : pc'[g] = pc[g] /\ loc'[g] = loc[g]
  BY <1>1, <1>2 DEF LoginBegin, Goto, IInv, TypeOK, PC
<1>4. (Held(pc[h], loc[h]) /\ Sole(pc[h], loc[h]))'
  BY <1>1, <1>3 DEF Held, Sole
<1> QED
  BY <1>1, <1>3, <1>4, MemoryStep DEF LoginBegin, IInv, TypeOK

LEMMA RefreshBeginInv ==
  ASSUME IInv, NEW h \in Handlers, NEW i \in delivered, RefreshBegin(h, i)
  PROVE  IInv'
<1> DEFINE l == [NoRequest EXCEPT !.row = i, !.user = tokens[i].user,
                                  !.cur = tokens[i].replaced_by]
<1>0. pc[h] = "idle" /\ NoteContention(i)
  BY DEF RefreshBegin, Goto
<1>1. /\ contended' \subseteq Nat /\ contended \subseteq contended'
      /\ i \in DOMAIN tokens /\ i # 0 /\ Family(i) \in Nat
      /\ tokens[i].user \in Users /\ tokens[i].replaced_by \in Nat
      /\ \A g \in Handlers \ {h} :
           (loc[g].row # 0 /\ Family(loc[g].row) = Family(i)) => Family(i) \in contended'
  BY <1>0, ContentionNoted
<1>2. i \in Nat
  BY DEF IInv, TypeOK
<1>3. /\ l \in Request /\ l.row = i /\ l.new = 0 /\ l.cur = tokens[i].replaced_by
      /\ l.held = {} /\ l.user = tokens[i].user
  BY <1>1, <1>2, NoRequestType DEF NoRequest, Request
<1>4. loc' = [loc EXCEPT ![h] = l]
  BY DEF RefreshBegin
<1> HIDE DEF l
<1>5. /\ pc' \in [Handlers -> PC] /\ loc' \in [Handlers -> Request]
      /\ loc'[h] = l
      /\ pc'[h] \in {"revoke_walk", "refresh_user", "answer_denied"}
      /\ pc'[h] = "refresh_user" => ~ tokens[i].revoked
      /\ \A g \in Handlers \ {h} : pc'[g] = pc[g] /\ loc'[g] = loc[g]
  BY <1>3, <1>4 DEF RefreshBegin, Goto, IInv, TypeOK, PC
<1>6. UNCHANGED <<tokens, status, clock, origin, delivered>>
  BY DEF RefreshBegin
<1>7. l.cur # 0 => l.cur \in DOMAIN tokens /\ Family(l.cur) = Family(i)
  BY <1>1, <1>3 DEF IInv, ChainPointsForward, Lineage
<1>8. Held(pc[h], loc[h])'
  BY <1>1, <1>3, <1>5, <1>6, <1>7 DEF Held, Family
<1>9. Sole(pc[h], loc[h])'
  BY <1>1, <1>3, <1>5, <1>6 DEF Sole, Family, IInv, SingleLiveToken
<1> QED
  BY <1>1, <1>3, <1>5, <1>6, <1>8, <1>9, MemoryStep DEF IInv, TypeOK

LEMMA LogoutBeginInv ==
  ASSUME IInv, NEW h \in Handlers, NEW i \in delivered, LogoutBegin(h, i)
  PROVE  IInv'
<1> DEFINE l == [NoRequest EXCEPT !.row = i]
<1>0. pc[h] = "idle" /\ NoteContention(i)
  BY DEF LogoutBegin, Goto
<1>1. /\ contended' \subseteq Nat /\ contended \subseteq contended'
      /\ i \in DOMAIN tokens /\ i # 0 /\ i \in Nat
      /\ \A g \in Handlers \ {h} :
           (loc[g].row # 0 /\ Family(loc[g].row) = Family(i)) => Family(i) \in contended'
  BY <1>0, ContentionNoted DEF IInv, TypeOK
<1>2. /\ l \in Request /\ l.row = i /\ l.new = 0 /\ l.cur = 0 /\ l.held = {}
  BY <1>1, NoRequestType DEF NoRequest, Request
<1>3. loc' = [loc EXCEPT ![h] = l]
  BY DEF LogoutBegin
<1> HIDE DEF l
<1>4. /\ pc' \in [Handlers -> PC] /\ loc' \in [Handlers -> Request]
      /\ loc'[h] = l /\ pc'[h] \in {"logout_commit", "answer_logout"}
      /\ \A g \in Handlers \ {h} : pc'[g] = pc[g] /\ loc'[g] = loc[g]
  BY <1>2, <1>3 DEF LogoutBegin, Goto, IInv, TypeOK, PC
<1>5. UNCHANGED <<tokens, status, clock, origin, delivered>>
  BY DEF LogoutBegin
<1>6. (Held(pc[h], loc[h]) /\ Sole(pc[h], loc[h]))'
  BY <1>1, <1>2, <1>4, <1>5 DEF Held, Sole
<1> QED
  BY <1>1, <1>2, <1>4, <1>5, <1>6, MemoryStep DEF IInv, TypeOK

LEMMA RefreshReadUserInv ==
  ASSUME IInv, NEW h \in Handlers, RefreshReadUser(h)
  PROVE  IInv'
<1>1. /\ pc[h] = "refresh_user" /\ pc' \in [Handlers -> PC]
      /\ pc'[h] \in {"refresh_issue", "answer_denied"}
      /\ \A g \in Handlers \ {h} : pc'[g] = pc[g]
  BY DEF RefreshReadUser, Goto, IInv, TypeOK, PC
<1>2. UNCHANGED <<tokens, status, clock, loc, origin, delivered, contended>>
  BY DEF RefreshReadUser
<1>3. Held(pc[h], loc[h]) /\ Sole(pc[h], loc[h])
  BY DEF IInv, HandlersHold
<1>4. (Held(pc[h], loc[h]) /\ Sole(pc[h], loc[h]))'
  BY <1>1, <1>2, <1>3 DEF Held, Sole, Family
<1> QED
  BY <1>1, <1>2, <1>4, MemoryStep DEF IInv, TypeOK, Separate

LEMMA RevokeWalkInv ==
  ASSUME IInv, NEW h \in Handlers, RevokeWalk(h)
  PROVE  IInv'
<1> DEFINE i == loc[h].cur
<1>0. /\ pc[h] = "revoke_walk" /\ i # 0 /\ loc[h] \in Request
      /\ UNCHANGED <<tokens, status, clock, pc, origin, delivered, contended>>
  BY DEF RevokeWalk, IInv, TypeOK
<1>1. Held(pc[h], loc[h]) /\ Sole(pc[h], loc[h])
  BY DEF IInv, HandlersHold
<1>2. /\ i \in DOMAIN tokens /\ Family(i) = Family(loc[h].row)
      /\ loc[h].row # 0 /\ loc[h].row \in delivered
  BY <1>0, <1>1 DEF Held
<1>3. tokens[i] \in Token /\ i \in Nat
  BY <1>2, LenProperties, ElementOfSeq DEF IInv, TypeOK
<1>4. /\ loc'[h].cur = tokens[i].replaced_by /\ loc'[h].row = loc[h].row
      /\ loc'[h].new = loc[h].new /\ loc'[h].user = loc[h].user
      /\ loc'[h].held \subseteq loc[h].held \cup {i}
      /\ loc' \in [Handlers -> Request]
      /\ \A g \in Handlers \ {h} : loc'[g] = loc[g]
  <2> DEFINE m == [loc[h] EXCEPT !.cur = tokens[i].replaced_by,
                                 !.held = IF tokens[i].revoked THEN @ ELSE @ \cup {i}]
  <2>1. /\ m \in Request /\ m.cur = tokens[i].replaced_by /\ m.row = loc[h].row
        /\ m.new = loc[h].new /\ m.user = loc[h].user
        /\ m.held \subseteq loc[h].held \cup {i}
    BY <1>0, <1>3 DEF Request, Token
  <2>2. loc \in [Handlers -> Request] /\ loc' = [loc EXCEPT ![h] = m]
    BY <1>0 DEF RevokeWalk, IInv, TypeOK
  <2> HIDE DEF m
  <2> QED
    BY <2>1, <2>2
<1>5. loc'[h].cur # 0 => loc'[h].cur \in DOMAIN tokens
                         /\ Family(loc'[h].cur) = Family(loc[h].row)
  BY <1>0, <1>2, <1>4 DEF IInv, ChainPointsForward, Lineage
<1>6. (Held(pc[h], loc[h]) /\ Sole(pc[h], loc[h]))'
  BY <1>0, <1>1, <1>2, <1>4, <1>5 DEF Held, Sole, Family
<1> QED
  BY <1>0, <1>4, <1>6, MemoryStep DEF IInv, TypeOK, Separate

LEMMA FailInv ==
  ASSUME IInv, NEW h \in Handlers, Fail(h)
  PROVE  IInv'
<1>1. /\ pc' \in [Handlers -> PC] /\ loc' \in [Handlers -> Request]
      /\ pc'[h] = "idle" /\ loc'[h] = NoRequest
      /\ \A g \in Handlers \ {h} : pc'[g] = pc[g] /\ loc'[g] = loc[g]
  BY NoRequestType DEF Fail, IInv, TypeOK, PC
<1>2. NoRequest.row = 0 /\ NoRequest.new = 0 /\ NoRequest.cur = 0 /\ NoRequest.held = {}
  BY DEF NoRequest
<1>3. (Held(pc[h], loc[h]) /\ Sole(pc[h], loc[h]))'
  BY <1>1, <1>2 DEF Held, Sole
<1>4. UNCHANGED <<tokens, status, clock, origin, delivered, contended>>
  BY DEF Fail
<1>5. status' \in [Users -> UserStatus] /\ clock' \in Nat /\ contended' \subseteq Nat
  BY <1>4 DEF IInv, TypeOK
<1>6. loc'[h].row = 0 /\ loc'[h].new = 0
  BY <1>1, <1>2
<1> QED
  BY <1>1, <1>3, <1>4, <1>5, <1>6, MemoryStep

\* Steps of the rest of the world, and stuttering.
LEMMA WorldInv ==
  ASSUME IInv, UNCHANGED <<tokens, pc, loc, origin, delivered, contended>>,
         status' \in [Users -> UserStatus], clock' \in Nat
  PROVE  IInv'
<1>1. TypeOK' /\ Lineage' /\ ChainPointsForward' /\ DeliveredReplacesParent'
  BY DEF IInv, TypeOK, Lineage, ChainPointsForward, DeliveredReplacesParent, Family
<1>2. SingleLiveToken' /\ Separate' /\ LoginsUndelivered'
  BY DEF IInv, SingleLiveToken, Separate, LoginsUndelivered, Family
<1>3. HandlersHold'
  BY DEF IInv, HandlersHold, Held, Sole, Family
<1> QED
  BY <1>1, <1>2, <1>3 DEF IInv

-----------------------------------------------------------------------------
(* Commits *)

\* What a handler knows that has just inserted row m.new.
LEMMA IssuedKnown ==
  ASSUME NEW p, NEW l, NEW m, NEW to \in {"answer_token", "refresh_rotate"},
         Held(p, l)', Sole(p, l)',
         m.new # 0, m.new \in DOMAIN tokens', origin'[m.new].parent = l.row,
         m.row = l.row, m.user = l.user, m.cur = l.cur, m.held = l.held,
         to = "answer_token" => l.row = 0,
         to = "refresh_rotate" => p = "refresh_issue"
  PROVE  Held(to, m)' /\ Sole(to, m)'
<1>1. Held(to, m)'
  BY DEF Held
<1>2. Sole(to, m)'
  BY DEF Sole
<1> QED
  BY <1>1, <1>2

\* A row is inserted for a login (parent 0) or in exchange for row parent.
LEMMA InsertStep ==
  ASSUME IInv, NEW h \in Handlers, NEW to \in {"answer_token", "refresh_rotate"},
         NEW o \in Origin,
         loc[h].new = 0, loc[h].user \in Users, o.parent = loc[h].row,
         to = "answer_token" => loc[h].row = 0,
         to = "refresh_rotate" => pc[h] = "refresh_issue",
         o.parent = 0 => o.family = Fresh,
         o.parent # 0 => /\ o.parent \in delivered /\ o.family = Family(o.parent)
                         /\ tokens[o.parent].user = loc[h].user,
         tokens' = Append(tokens, NewRow(loc[h].user)),
         origin' = Append(origin, o),
         pc' = [pc EXCEPT ![h] = to],
         loc' = [loc EXCEPT ![h].new = Fresh],
         UNCHANGED <<status, clock, delivered, contended>>
  PROVE  IInv'
<1> DEFINE r == NewRow(loc[h].user)
<1>a. PICK n : n = Fresh
  OBVIOUS
<1>0. /\ TypeOK /\ Lineage /\ ChainPointsForward /\ DeliveredReplacesParent
      /\ SingleLiveToken /\ HandlersHold /\ Separate /\ LoginsUndelivered
  BY DEF IInv
<1>1. r \in Token /\ r.replaced_by = 0 /\ r.user = loc[h].user /\ ~ r.revoked
  BY <1>0, RefreshTokensAssumption DEF NewRow, Token, TypeOK
<1>2. /\ tokens \in Seq(Token) /\ origin \in Seq(Origin)
      /\ Len(tokens) \in Nat /\ Len(origin) = Len(tokens)
      /\ DOMAIN tokens = 1 .. Len(tokens)
      /\ n = Len(tokens) + 1
  <2>1. tokens \in Seq(Token) /\ origin \in Seq(Origin) /\ DOMAIN origin = DOMAIN tokens
    BY <1>0 DEF TypeOK, Lineage
  <2>2. /\ Len(tokens) \in Nat /\ DOMAIN tokens = 1 .. Len(tokens)
        /\ Len(origin) \in Nat /\ DOMAIN origin = 1 .. Len(origin)
    BY <2>1, LenProperties
  <2>3. Len(origin) = Len(tokens)
    BY <2>1, <2>2
  <2> QED
    BY <1>a, <2>1, <2>2, <2>3 DEF Fresh
<1> HIDE DEF r
<1>3. /\ tokens' \in Seq(Token)
      /\ n \notin DOMAIN tokens /\ DOMAIN tokens' = DOMAIN tokens \cup {n}
      /\ \A i \in DOMAIN tokens : tokens'[i] = tokens[i]
      /\ tokens'[n] = r
  BY <1>1, <1>2, AppendProperties, LenProperties DEF r
<1>4. /\ origin' \in Seq(Origin) /\ DOMAIN origin' = DOMAIN origin \cup {n}
      /\ \A i \in DOMAIN origin : origin'[i] = origin[i]
      /\ origin'[n] = o
  BY <1>2, AppendProperties, LenProperties
<1>5. /\ DOMAIN origin = DOMAIN tokens /\ delivered \subseteq DOMAIN tokens
      /\ n \in Nat /\ n # 0 /\ \A i \in DOMAIN tokens : i \in Nat /\ i < n
  BY <1>0, <1>2 DEF Lineage
<1>6. /\ \A i \in DOMAIN tokens : Family(i)' = Family(i)
      /\ Family(n)' = o.family
  BY <1>4, <1>5 DEF Family
<1>7. RowsGrow
  BY <1>3, <1>4, <1>5 DEF RowsGrow
<1>8. /\ pc' \in [Handlers -> PC] /\ loc' \in [Handlers -> Request]
      /\ pc'[h] = to /\ loc'[h].new = n
      /\ loc'[h].row = loc[h].row /\ loc'[h].user = loc[h].user
      /\ loc'[h].cur = loc[h].cur /\ loc'[h].held = loc[h].held
      /\ \A g \in Handlers \ {h} : pc'[g] = pc[g] /\ loc'[g] = loc[g]
  BY <1>a, <1>0, <1>5 DEF TypeOK, PC, Request
<1>9. TypeOK'
  BY <1>0, <1>3, <1>4, <1>8 DEF TypeOK
<1>10. Lineage'
  <2> DEFINE Line(i) ==
        /\ origin[i].parent # 0 =>
             /\ origin[i].parent \in delivered /\ origin[i].parent < i
             /\ Family(origin[i].parent) = Family(i)
             /\ tokens[origin[i].parent].user = tokens[i].user
        /\ origin[i].parent = 0 => Family(i) = i
        /\ Family(i) = i \/ Family(i) \in delivered
  <2>1. \A i \in DOMAIN tokens : Line(i)
    BY <1>0 DEF Lineage
  <2>2. \A i \in DOMAIN tokens : Line(i)'
    BY <2>1, <1>3, <1>4, <1>5, <1>6
  <2>3. CASE o.parent = 0
    <3>1. Line(n)'
      BY <1>a, <2>3, <1>4, <1>6
    <3> QED
      BY <3>1, <2>2, <1>3, <1>4, <1>5 DEF Lineage
  <2>4. CASE o.parent # 0
    <3>1. o.parent \in DOMAIN tokens /\ Line(o.parent)
      BY <2>1, <2>4, <1>5
    <3>2. o.family \in delivered
      BY <3>1, <2>4
    <3>3. Line(n)'
      BY <3>1, <3>2, <2>4, <1>1, <1>3, <1>4, <1>5, <1>6
    <3> QED
      BY <3>3, <2>2, <1>3, <1>4, <1>5 DEF Lineage
  <2> QED
    BY <2>3, <2>4
<1>11. ChainPointsForward'
  BY <1>0, <1>1, <1>3, <1>4, <1>5 DEF ChainPointsForward
<1>12. DeliveredReplacesParent'
  BY <1>0, <1>3, <1>4, <1>5 DEF DeliveredReplacesParent, Lineage
<1>13. SingleLiveToken'
  BY <1>0, <1>3, <1>5, <1>6 DEF SingleLiveToken
<1>14. HandlersHold'
  <2> SUFFICES ASSUME NEW g \in Handlers
               PROVE  (Held(pc[g], loc[g]) /\ Sole(pc[g], loc[g]))'
    BY DEF HandlersHold
  <2>1. PICK p, l : p = pc[g] /\ l = loc[g]
    OBVIOUS
  <2>2. l \in Request /\ Held(p, l) /\ Sole(p, l)
    BY <1>0, <2>1 DEF HandlersHold, TypeOK
  <2>3. Held(p, l)' /\ Sole(p, l)'
    BY <1>0, <1>7, <2>2, KnowledgeCarries
  <2>4. CASE g # h
    BY <1>8, <2>1, <2>3, <2>4
  <2>5. CASE g = h
    <3>1. PICK m : m = loc'[h]
      OBVIOUS
    <3>2. /\ m.new = n /\ n # 0 /\ n \in DOMAIN tokens' /\ origin'[n].parent = l.row
          /\ m.row = l.row /\ m.user = l.user /\ m.cur = l.cur /\ m.held = l.held
          /\ to = "answer_token" => l.row = 0
          /\ to = "refresh_rotate" => p = "refresh_issue"
      BY <1>3, <1>4, <1>5, <1>8, <2>1, <2>5, <3>1
    <3>3. Held(to, m)' /\ Sole(to, m)'
      BY <2>3, <3>2, IssuedKnown
    <3> QED
      BY <1>8, <2>5, <3>1, <3>3
  <2> QED
    BY <2>4, <2>5
<1>15. Separate'
  <2>1. \A g \in Handlers : loc[g].row # 0 => loc[g].row \in DOMAIN tokens
    BY <1>0, <1>5 DEF HandlersHold, Held
  <2>2. \A g \in Handlers : loc[g].new # n
    BY <1>0, <1>3, <1>5 DEF HandlersHold, Held
  <2> QED
    BY <1>0, <1>6, <1>8, <2>1, <2>2 DEF Separate
<1>16. LoginsUndelivered'
  BY <1>0, <1>3, <1>5, <1>8 DEF LoginsUndelivered
<1> QED
  BY <1>9, <1>10, <1>11, <1>12, <1>13, <1>14, <1>15, <1>16 DEF IInv

LEMMA LoginIssueInv ==
  ASSUME IInv, NEW h \in Handlers, LoginIssue(h)
  PROVE  IInv'
<1>1. pc[h] = "login_issue" /\ Held(pc[h], loc[h])
  BY DEF LoginIssue, Goto, IInv, HandlersHold
<1>2. loc[h].user \in Users /\ loc[h].row = 0 /\ loc[h].new = 0
  BY <1>1 DEF Held
<1>3. PICK o : o = [parent |-> 0, family |-> Fresh]
  OBVIOUS
<1>4. Fresh \in Nat
  BY LenProperties DEF Fresh, IInv, TypeOK
<1>5. o \in Origin /\ o.parent = 0 /\ o.family = Fresh
  BY <1>3, <1>4 DEF Origin
<1> QED
  BY <1>1, <1>2, <1>3, <1>5, InsertStep DEF LoginIssue, Goto

LEMMA RefreshIssueInv ==
  ASSUME IInv, NEW h \in Handlers, RefreshIssue(h)
  PROVE  IInv'
<1>1. pc[h] = "refresh_issue" /\ Held(pc[h], loc[h])
  BY DEF RefreshIssue, Goto, IInv, HandlersHold
<1>2. /\ loc[h].row # 0 /\ loc[h].row \in delivered /\ loc[h].new = 0
      /\ loc[h].user = tokens[loc[h].row].user
  BY <1>1 DEF Held
<1>3. loc[h].row \in DOMAIN tokens /\ loc[h].row \in DOMAIN origin
  BY <1>2 DEF IInv, Lineage
<1>4. tokens[loc[h].row] \in Token /\ origin[loc[h].row] \in Origin /\ loc[h].row \in Nat
  BY <1>2, <1>3, LenProperties, ElementOfSeq DEF IInv, TypeOK
<1>5. loc[h].user \in Users /\ Family(loc[h].row) \in Nat
  BY <1>2, <1>4 DEF Token, Origin, Family
<1>6. PICK o : o = [parent |-> loc[h].row, family |-> Family(loc[h].row)]
  OBVIOUS
<1>7. o \in Origin /\ o.parent = loc[h].row /\ o.family = Family(loc[h].row)
  BY <1>4, <1>5, <1>6 DEF Origin
<1> QED
  BY <1>1, <1>2, <1>5, <1>6, <1>7, InsertStep DEF RefreshIssue, Goto

\* Rows are revoked, and row loc[h].row may be linked to the token issued for it.
LEMMA UpdateStep ==
  ASSUME IInv, NEW h \in Handlers, NEW to \in {"answer_token", "answer_denied", "answer_logout"},
         Goto(h, pc[h], to), pc[h] # "idle",
         UNCHANGED <<status, clock, loc, origin, delivered, contended>>,
         tokens' \in Seq(Token), DOMAIN tokens' = DOMAIN tokens,
         \A i \in DOMAIN tokens :
           /\ tokens'[i].user = tokens[i].user
           /\ tokens[i].revoked => tokens'[i].revoked
           /\ \/ tokens'[i].replaced_by = tokens[i].replaced_by
              \/ i = loc[h].row /\ i # 0 /\ tokens'[i].replaced_by = loc[h].new,
         to = "answer_token" => /\ pc[h] = "refresh_rotate"
                                /\ tokens'[loc[h].row].revoked
  PROVE  IInv'
<1>0. /\ TypeOK /\ Lineage /\ ChainPointsForward /\ DeliveredReplacesParent
      /\ SingleLiveToken /\ HandlersHold /\ Separate /\ LoginsUndelivered
  BY DEF IInv
<1>1. /\ pc' \in [Handlers -> PC] /\ pc'[h] = to
      /\ \A g \in Handlers \ {h} : pc'[g] = pc[g]
  BY <1>0 DEF Goto, TypeOK, PC
<1>2. \A i : Family(i)' = Family(i)
  BY DEF Family
<1>3. TypeOK' /\ Lineage'
  BY <1>0, <1>1, <1>2 DEF TypeOK, Lineage
<1>4. ChainPointsForward'
  <2> SUFFICES ASSUME NEW i \in DOMAIN tokens, tokens'[i].replaced_by # 0
               PROVE  LET j == tokens'[i].replaced_by
                      IN  /\ j \in DOMAIN tokens /\ j > i /\ origin[j].parent = i
                          /\ tokens'[j].user = tokens'[i].user
    BY DEF ChainPointsForward
  <2>1. CASE tokens'[i].replaced_by = tokens[i].replaced_by
    BY <1>0, <2>1 DEF ChainPointsForward
  <2>2. CASE i = loc[h].row /\ i # 0 /\ tokens'[i].replaced_by = loc[h].new
    <3>1. loc[h].new \in DOMAIN tokens /\ origin[loc[h].new].parent = i
      BY <1>0, <2>2 DEF HandlersHold, Held
    <3>2. i < loc[h].new /\ tokens[i].user = tokens[loc[h].new].user
      BY <1>0, <2>2, <3>1 DEF Lineage
    <3>3. i \in Nat /\ loc[h].new \in Nat
      BY <1>0, <3>1, LenProperties DEF TypeOK
    <3> QED
      BY <2>2, <3>1, <3>2, <3>3
  <2> QED
    BY <2>1, <2>2
<1>5. \A i \in delivered : i \in DOMAIN tokens
  BY <1>0 DEF Lineage
<1>6. DeliveredReplacesParent'
  BY <1>0, <1>5 DEF DeliveredReplacesParent, Lineage
<1>7. SingleLiveToken'
  BY <1>0, <1>2, <1>5 DEF SingleLiveToken
<1>8. RowsGrow
  BY DEF RowsGrow
<1>9. HandlersHold'
  <2> SUFFICES ASSUME NEW g \in Handlers
               PROVE  (Held(pc[g], loc[g]) /\ Sole(pc[g], loc[g]))'
    BY DEF HandlersHold
  <2>1. PICK p, l : p = pc[g] /\ l = loc[g]
    OBVIOUS
  <2>2. l \in Request /\ Held(p, l) /\ Sole(p, l)
    BY <1>0, <2>1 DEF HandlersHold, TypeOK
  <2>3. Held(p, l)' /\ Sole(p, l)'
    BY <1>0, <1>8, <2>2, KnowledgeCarries
  <2>4. CASE g # h
    BY <1>1, <2>1, <2>3, <2>4
  <2>5. CASE g = h
    <3>1. Held(pc[h], loc[h])'
      BY <1>1, <2>1, <2>3, <2>5 DEF Held
    <3>2. Sole(pc[h], loc[h])'
      <4>1. CASE to # "answer_token"
        BY <1>1, <4>1 DEF Sole
      <4>2. CASE to = "answer_token"
        BY <1>1, <1>2, <2>1, <2>3, <2>5, <4>2 DEF Sole
      <4> QED
        BY <4>1, <4>2
    <3> QED
      BY <2>5, <3>1, <3>2
  <2> QED
    BY <2>4, <2>5
<1>10. Separate' /\ LoginsUndelivered'
  BY <1>0, <1>2 DEF Separate, LoginsUndelivered
<1> QED
  BY <1>3, <1>4, <1>6, <1>7, <1>9, <1>10 DEF IInv

LEMMA RefreshRotateInv ==
  ASSUME IInv, NEW h \in Handlers, RefreshRotate(h)
  PROVE  IInv'
<1> DEFINE i == loc[h].row
           v == [tokens[i] EXCEPT !.revoked = TRUE, !.replaced_by = loc[h].new]
<1>1. pc[h] = "refresh_rotate" /\ Held(pc[h], loc[h])
  BY DEF RefreshRotate, Goto, IInv, HandlersHold
<1>2. i # 0 /\ i \in DOMAIN tokens /\ loc[h].new \in Nat
  BY <1>1 DEF Held, IInv, Lineage, TypeOK, Request
<1>3. tokens \in Seq(Token) /\ tokens[i] \in Token
  BY <1>2, ElementOfSeq, LenProperties DEF IInv, TypeOK
<1>4. /\ v \in Token /\ v.revoked /\ v.user = tokens[i].user
      /\ v.replaced_by = loc[h].new
  BY <1>2, <1>3 DEF Token
<1>5. tokens' = [tokens EXCEPT ![i] = v]
  BY <1>2, <1>3 DEF RefreshRotate
<1> HIDE DEF v
<1>6. /\ tokens' \in Seq(Token) /\ DOMAIN tokens' = DOMAIN tokens
      /\ \A j \in DOMAIN tokens : tokens'[j] = IF j = i THEN v ELSE tokens[j]
  BY <1>2, <1>3, <1>4, <1>5, LenProperties, ExceptSeq
<1>7. /\ Goto(h, pc[h], "answer_token") /\ pc[h] # "idle"
      /\ UNCHANGED <<status, clock, loc, origin, delivered, contended>>
  BY <1>1 DEF RefreshRotate, Goto
<1>8. /\ tokens'[loc[h].row].revoked
      /\ \A j \in DOMAIN tokens :
           /\ tokens'[j].user = tokens[j].user
           /\ tokens[j].revoked => tokens'[j].revoked
           /\ \/ tokens'[j].replaced_by = tokens[j].replaced_by
              \/ j = loc[h].row /\ j # 0 /\ tokens'[j].replaced_by = loc[h].new
  BY <1>2, <1>4, <1>6
<1> HIDE DEF i
<1> QED
  BY <1>1, <1>6, <1>7, <1>8, UpdateStep

LEMMA LogoutCommitInv ==
  ASSUME IInv, NEW h \in Handlers, LogoutCommit(h)
  PROVE  IInv'
<1> DEFINE i == loc[h].row
           v == [tokens[i] EXCEPT !.revoked = TRUE]
<1>1. pc[h] = "logout_commit" /\ Held(pc[h], loc[h])
  BY DEF LogoutCommit, Goto, IInv, HandlersHold
<1>2. i \in DOMAIN tokens
  BY <1>1 DEF Held, IInv, Lineage
<1>3. tokens \in Seq(Token) /\ tokens[i] \in Token
  BY <1>2, ElementOfSeq, LenProperties DEF IInv, TypeOK
<1>4. /\ v \in Token /\ v.revoked /\ v.user = tokens[i].user
      /\ v.replaced_by = tokens[i].replaced_by
  BY <1>3 DEF Token
<1>5. tokens' = [tokens EXCEPT ![i] = v]
  BY <1>2, <1>3 DEF LogoutCommit
<1> HIDE DEF v
<1>6. /\ tokens' \in Seq(Token) /\ DOMAIN tokens' = DOMAIN tokens
      /\ \A j \in DOMAIN tokens : tokens'[j] = IF j = i THEN v ELSE tokens[j]
  BY <1>2, <1>3, <1>4, <1>5, LenProperties, ExceptSeq
<1>7. /\ Goto(h, pc[h], "answer_logout") /\ pc[h] # "idle"
      /\ UNCHANGED <<status, clock, loc, origin, delivered, contended>>
  BY <1>1 DEF LogoutCommit, Goto
<1>8. \A j \in DOMAIN tokens :
        /\ tokens'[j].user = tokens[j].user
        /\ tokens[j].revoked => tokens'[j].revoked
        /\ tokens'[j].replaced_by = tokens[j].replaced_by
  BY <1>4, <1>6
<1> HIDE DEF i
<1> QED
  BY <1>6, <1>7, <1>8, UpdateStep

LEMMA RevokeCommitInv ==
  ASSUME IInv, NEW h \in Handlers, RevokeCommit(h)
  PROVE  IInv'
<1>1. pc[h] = "revoke_walk"
  BY DEF RevokeCommit, Goto
<1>2. /\ tokens \in Seq(Token) /\ DOMAIN tokens = 1 .. Len(tokens) /\ Len(tokens) \in Nat
      /\ \A i \in DOMAIN tokens : tokens[i] \in Token
  BY LenProperties, ElementOfSeq DEF IInv, TypeOK
<1>3. /\ DOMAIN tokens' = DOMAIN tokens
      /\ \A i \in DOMAIN tokens :
           /\ tokens'[i] \in Token /\ tokens'[i].user = tokens[i].user
           /\ tokens'[i].replaced_by = tokens[i].replaced_by
           /\ tokens[i].revoked => tokens'[i].revoked
  BY <1>2 DEF RevokeCommit, Token
<1>4. tokens' = [i \in 1 .. Len(tokens) |-> tokens'[i]]
  BY <1>2 DEF RevokeCommit
<1>5. tokens' \in Seq(Token)
  BY <1>2, <1>3, <1>4, SeqDef
<1> QED
  BY <1>1, <1>3, <1>5, UpdateStep DEF RevokeCommit, Goto

-----------------------------------------------------------------------------
(* Answers *)

\* The token about to be delivered belongs to no login another handler works on
\* alone, and to no login with a usable token left.
LEMMA NewTokenIsAlone ==
  ASSUME IInv, NEW h \in Handlers, pc[h] = "answer_token"
  PROVE  /\ loc[h].new \in DOMAIN tokens
         /\ origin[loc[h].new].parent # 0 => tokens[origin[loc[h].new].parent].revoked
         /\ \A j \in delivered :
              (/\ j # loc[h].new /\ Family(j) = Family(loc[h].new)
               /\ Family(j) \notin contended) => tokens[j].revoked
         /\ \A g \in Handlers \ {h} :
              (loc[g].row # 0 /\ Family(loc[g].row) = Family(loc[h].new))
                => Family(loc[g].row) \in contended
<1> DEFINE n == loc[h].new
<1>1. Held(pc[h], loc[h]) /\ Sole(pc[h], loc[h])
  BY DEF IInv, HandlersHold
<1>2. n # 0 /\ n \in DOMAIN tokens /\ origin[n].parent = loc[h].row
  BY <1>1 DEF Held
<1>3. CASE loc[h].row # 0
  <2>1. Family(n) = Family(loc[h].row) /\ tokens[loc[h].row].revoked
    BY <1>1, <1>2, <1>3 DEF Held, IInv, Lineage
  <2>2. \A j \in delivered :
          (Family(j) = Family(n) /\ Family(j) \notin contended) => tokens[j].revoked
    BY <1>1, <1>3, <2>1 DEF Sole
  <2>3. \A g \in Handlers \ {h} :
          (loc[g].row # 0 /\ Family(loc[g].row) = Family(n))
             => Family(loc[g].row) \in contended
    BY <1>3, <2>1 DEF IInv, Separate
  <2> QED
    BY <1>2, <2>1, <2>2, <2>3
<1>4. CASE loc[h].row = 0
  <2>1. n \notin delivered /\ Family(n) = n
    BY <1>2, <1>4 DEF IInv, LoginsUndelivered, Lineage
  <2>2. \A j \in delivered : Family(j) # n
    BY <2>1 DEF IInv, Lineage
  <2>3. \A g \in Handlers : loc[g].row # 0 => loc[g].row \in delivered
    BY DEF IInv, HandlersHold, Held
  <2> QED
    BY <1>2, <1>4, <2>1, <2>2, <2>3
<1> QED
  BY <1>3, <1>4

LEMMA RespondInv ==
  ASSUME IInv, NEW h \in Handlers, Respond(h)
  PROVE  IInv'
<1>0. /\ TypeOK /\ Lineage /\ ChainPointsForward /\ DeliveredReplacesParent
      /\ SingleLiveToken /\ HandlersHold /\ Separate /\ LoginsUndelivered
  BY DEF IInv
<1>1. /\ pc' \in [Handlers -> PC] /\ loc' \in [Handlers -> Request]
      /\ pc'[h] = "idle" /\ loc'[h] = NoRequest
      /\ \A g \in Handlers \ {h} : pc'[g] = pc[g] /\ loc'[g] = loc[g]
      /\ UNCHANGED <<tokens, status, clock, origin, contended>>
  BY <1>0, NoRequestType DEF Respond, TypeOK, PC
<1>2. NoRequest.row = 0 /\ NoRequest.new = 0 /\ NoRequest.cur = 0 /\ NoRequest.held = {}
  BY DEF NoRequest
<1>3. (Held(pc[h], loc[h]) /\ Sole(pc[h], loc[h]))'
  BY <1>1, <1>2 DEF Held, Sole
<1>4. CASE pc[h] # "answer_token"
  <2>1. delivered' = delivered
    BY <1>4 DEF Respond
  <2> QED
    BY <1>0, <1>1, <1>2, <1>3, <2>1, MemoryStep DEF TypeOK
<1>5. CASE pc[h] = "answer_token"
  <2>1. PICK n : n = loc[h].new
    OBVIOUS
  <2>2. delivered' = delivered \cup {n}
    BY <1>5, <2>1 DEF Respond
  <2>3. /\ n \in DOMAIN tokens
        /\ origin[n].parent # 0 => tokens[origin[n].parent].revoked
        /\ \A j \in delivered :
             (j # n /\ Family(j) = Family(n) /\ Family(j) \notin contended)
               => tokens[j].revoked
        /\ \A g \in Handlers \ {h} :
             (loc[g].row # 0 /\ Family(loc[g].row) = Family(n))
               => Family(loc[g].row) \in contended
    BY <1>5, <2>1, NewTokenIsAlone
  <2>4. \A i : Family(i)' = Family(i)
    BY <1>1 DEF Family
  <2>5. n \in Nat
    BY <1>0, <2>1 DEF TypeOK, Request
  <2>6. TypeOK'
    BY <1>0, <1>1, <2>2, <2>5 DEF TypeOK
  <2>7. Lineage' /\ ChainPointsForward' /\ DeliveredReplacesParent'
    BY <1>0, <1>1, <2>2, <2>3, <2>4
       DEF Lineage, ChainPointsForward, DeliveredReplacesParent
  <2>8. SingleLiveToken'
    BY <1>0, <1>1, <2>2, <2>3, <2>4 DEF SingleLiveToken
  <2>9. ASSUME NEW g \in Handlers \ {h}
        PROVE  (Held(pc[g], loc[g]) /\ Sole(pc[g], loc[g]))'
    <3>1. Held(pc[g], loc[g]) /\ Sole(pc[g], loc[g])
      BY <1>0 DEF HandlersHold
    <3>2. Held(pc[g], loc[g])'
      BY <1>1, <2>2, <2>4, <3>1 DEF Held
    <3>3. Sole(pc[g], loc[g])'
      BY <1>1, <2>2, <2>3, <2>4, <3>1 DEF Sole
    <3> QED
      BY <3>2, <3>3
  <2>10. HandlersHold'
    BY <1>3, <2>9 DEF HandlersHold
  <2>11. Separate'
    BY <1>0, <1>1, <1>2, <2>4 DEF Separate
  <2>12. LoginsUndelivered'
    BY <1>0, <1>1, <1>2, <2>1, <2>2 DEF LoginsUndelivered, Separate
  <2> QED
    BY <2>6, <2>7, <2>8, <2>10, <2>11, <2>12 DEF IInv
<1> QED
  BY <1>4, <1>5

-----------------------------------------------------------------------------
(* The theorems *)

LEMMA NextInv == IInv /\ [Next]_vars => IInv'
<1> SUFFICES ASSUME IInv, [Next]_vars PROVE IInv'
  OBVIOUS
<1>1. ASSUME NEW h \in Handlers, NEW u \in Users, LoginBegin(h, u) PROVE IInv'
  BY <1>1, LoginBeginInv
<1>2. ASSUME NEW h \in Handlers, NEW i \in delivered, RefreshBegin(h, i) PROVE IInv'
  BY <1>2, RefreshBeginInv
<1>3. ASSUME NEW h \in Handlers, NEW i \in delivered, LogoutBegin(h, i) PROVE IInv'
  BY <1>3, LogoutBeginInv
<1>4. ASSUME NEW h \in Handlers, Continue(h) PROVE IInv'
  BY <1>4, LoginIssueInv, RefreshReadUserInv, RefreshIssueInv, RefreshRotateInv,
     RevokeWalkInv, RevokeCommitInv, LogoutCommitInv, RespondInv DEF Continue
<1>5. ASSUME NEW h \in Handlers, Fail(h) PROVE IInv'
  BY <1>5, FailInv
<1>6. ASSUME NEW u \in Users, UserStatusChanges(u) PROVE IInv'
  BY <1>6, WorldInv DEF UserStatusChanges, IInv, TypeOK
<1>7. ASSUME Tick PROVE IInv'
  BY <1>7, WorldInv DEF Tick, IInv, TypeOK
<1>8. ASSUME UNCHANGED vars PROVE IInv'
  BY <1>8, WorldInv DEF vars, IInv, TypeOK
<1> QED
  BY <1>1, <1>2, <1>3, <1>4, <1>5, <1>6, <1>7, <1>8 DEF Next

\* The invariant holds of every behaviour, with or without fairness.
THEOREM Invariance == Spec => []IInv
BY InitInv, NextInv, PTL DEF Spec

\* Rows, handler memory and history stay well typed.
THEOREM TypeCorrect == Spec => []TypeOK
<1>1. IInv => TypeOK
  BY DEF IInv
<1> QED
  BY <1>1, Invariance, PTL

\* replaced_by always leads to a newer row of the same user issued for this one,
\* so every walk of _revoke_chain_forward is finite and stays in its session.
THEOREM ChainsPointForward == Spec => []ChainPointsForward
<1>1. IInv => ChainPointsForward
  BY DEF IInv
<1> QED
  BY <1>1, Invariance, PTL

\* Whoever was given a token by refresh gave up the previous one for good.
THEOREM RotationRevokesParent == Spec => []DeliveredReplacesParent
<1>1. IInv => DeliveredReplacesParent
  BY DEF IInv
<1> QED
  BY <1>1, Invariance, PTL

\* A login whose requests never overlapped has at most one usable token in
\* clients' hands, whatever crashes, lost answers and reuses there were.
THEOREM AtMostOneLiveToken == Spec => []SingleLiveToken
<1>1. IInv => SingleLiveToken
  BY DEF IInv
<1> QED
  BY <1>1, Invariance, PTL

\* What a step revokes belongs to the session some request is working on, and
\* nothing is ever un-revoked.
LEMMA RevocationStep == IInv /\ [Next]_vars => RevocationIsLocal \/ UNCHANGED vars
<1> SUFFICES ASSUME IInv, Next, NEW i \in DOMAIN tokens
             PROVE  /\ tokens[i].revoked => tokens'[i].revoked
                    /\ tokens'[i].revoked # tokens[i].revoked => WorkingOn(Family(i)) # {}
  BY DEF RevocationIsLocal
<1>0. /\ tokens \in Seq(Token) /\ tokens[i] \in Token /\ i \in Nat
      /\ DOMAIN tokens = 1 .. Len(tokens) /\ Len(tokens) \in Nat
  BY LenProperties, ElementOfSeq DEF IInv, TypeOK
<1>1. CASE tokens'[i] = tokens[i]
  BY <1>1
<1>2. ASSUME NEW h \in Handlers, NEW v \in Token, tokens' = Append(tokens, v)
      PROVE  tokens'[i] = tokens[i]
  BY <1>0, <1>2, AppendProperties, LenProperties
<1>3. ASSUME NEW h \in Handlers, pc[h] # "idle", loc[h].row # 0,
             Family(i) = Family(loc[h].row)
      PROVE  WorkingOn(Family(i)) # {}
  BY <1>3 DEF WorkingOn
<1>4. ASSUME NEW h \in Handlers, LoginIssue(h) \/ RefreshIssue(h)
      PROVE  tokens'[i] = tokens[i]
  <2>1. Held(pc[h], loc[h])
    BY DEF IInv, HandlersHold
  <2>2. loc[h].user \in Users
    <3>1. CASE LoginIssue(h)
      BY <2>1, <3>1 DEF Held, LoginIssue, Goto
    <3>2. CASE RefreshIssue(h)
      <4>1. loc[h].row \in DOMAIN tokens /\ loc[h].user = tokens[loc[h].row].user
        BY <2>1, <3>2 DEF Held, RefreshIssue, Goto, IInv, Lineage
      <4>2. tokens[loc[h].row] \in Token
        BY <4>1, <1>0, ElementOfSeq
      <4> QED
        BY <4>1, <4>2 DEF Token
    <3> QED
      BY <1>4, <3>1, <3>2
  <2>3. NewRow(loc[h].user) \in Token
    BY <2>2, RefreshTokensAssumption DEF NewRow, Token, IInv, TypeOK
  <2> QED
    BY <1>2, <1>4, <2>3 DEF LoginIssue, RefreshIssue
<1>5. ASSUME NEW h \in Handlers, RefreshRotate(h) \/ LogoutCommit(h)
      PROVE  \/ tokens'[i] = tokens[i]
             \/ tokens'[i].revoked /\ WorkingOn(Family(i)) # {}
  <2>1. Held(pc[h], loc[h]) /\ pc[h] \in {"refresh_rotate", "logout_commit"}
    BY <1>5 DEF IInv, HandlersHold, RefreshRotate, LogoutCommit, Goto
  <2>2. loc[h].row # 0
    BY <2>1 DEF Held
  <2>3. CASE i = loc[h].row
    <3>1. WorkingOn(Family(i)) # {}
      BY <1>3, <2>1, <2>2, <2>3
    <3>2. CASE RefreshRotate(h)
      BY <1>0, <2>3, <3>1, <3>2 DEF RefreshRotate, Token
    <3>3. CASE LogoutCommit(h)
      BY <1>0, <2>3, <3>1, <3>3 DEF LogoutCommit, Token
    <3> QED
      BY <1>5, <3>2, <3>3
  <2>4. CASE i # loc[h].row
    BY <1>5, <2>4 DEF RefreshRotate, LogoutCommit
  <2> QED
    BY <2>3, <2>4
<1>6. ASSUME NEW h \in Handlers, RevokeCommit(h)
      PROVE  \/ tokens'[i] = tokens[i]
             \/ tokens'[i].revoked /\ WorkingOn(Family(i)) # {}
  <2>1. Held(pc[h], loc[h]) /\ pc[h] = "revoke_walk"
    BY <1>6 DEF IInv, HandlersHold, RevokeCommit, Goto
  <2>2. CASE i \in loc[h].held
    <3>1. loc[h].row # 0 /\ Family(i) = Family(loc[h].row)
      BY <2>1, <2>2 DEF Held
    <3>2. tokens'[i].revoked
      BY <1>0, <1>6, <2>2 DEF RevokeCommit, Token
    <3> QED
      BY <1>3, <2>1, <3>1, <3>2
  <2>3. CASE i \notin loc[h].held
    BY <1>6, <2>3 DEF RevokeCommit
  <2> QED
    BY <2>2, <2>3
<1>7. \/ tokens' = tokens
      \/ \E h \in Handlers : \/ LoginIssue(h) \/ RefreshIssue(h)
                             \/ RefreshRotate(h) \/ LogoutCommit(h) \/ RevokeCommit(h)
  BY DEF Next, Continue, LoginBegin, RefreshBegin, LogoutBegin, RefreshReadUser,
         RevokeWalk, Respond, Fail, UserStatusChanges, Tick
<1> QED
  BY <1>4, <1>5, <1>6, <1>7

\* Detecting a reuse, logging out or rotating never touches another session.
THEOREM RevocationsStayLocal == Spec => RevocationStaysLocal
<1>1. IInv /\ [Next]_vars => [RevocationIsLocal]_vars
  BY RevocationStep
<1> QED
  BY <1>1, Invariance, PTL DEF Spec, RevocationStaysLocal

-----------------------------------------------------------------------------
(* Where the chain of a login leads *)

\* No request has begun, so there is no chain.
LEMMA InitChain == Init => ChainInv
<1>1. Init => delivered = {} /\ \A h \in Handlers : loc[h].row = 0
  BY DEF Init, NoRequest
<1> QED
  BY <1>1 DEF ChainInv, ChainKept, SoleOnChain

\* A step of handler h that delivers nothing and touches only rows of the login
\* it works on keeps every chain; h relinks its own row only while it is usable.
LEMMA ChainStep ==
  ASSUME IInv, ChainInv, NEW h \in Handlers,
         delivered' = delivered, contended \subseteq contended',
         \A g \in Handlers \ {h} : pc'[g] = pc[g] /\ loc'[g] = loc[g],
         \A i \in delivered : Family(i)' = Family(i),
         \A i \in delivered :
           \/ tokens'[i] = tokens[i]
           \/ loc[h].row # 0 /\ Family(i) = Family(loc[h].row),
         \A i \in delivered :
           /\ tokens[i].revoked => tokens'[i].revoked
           /\ \/ tokens'[i].replaced_by = tokens[i].replaced_by
              \/ Family(i) \notin contended => ~ tokens[i].revoked,
         SoleOnChain(pc[h], loc[h])'
  PROVE  ChainInv'
<1>1. ChainKept'
  <2> SUFFICES ASSUME NEW j \in delivered, Family(j) \notin contended',
                      ~ tokens'[j].revoked,
                      NEW i \in delivered, Family(i) = Family(j), i # j
               PROVE  tokens'[i].replaced_by \in delivered /\ tokens'[i].replaced_by <= j
    BY DEF ChainKept, LinkedTo
  <2>1. Family(j) \notin contended /\ ~ tokens[j].revoked
    OBVIOUS
  <2>2. tokens[i].revoked
    BY <2>1 DEF IInv, SingleLiveToken
  <2>3. tokens'[i].replaced_by = tokens[i].replaced_by
    BY <2>1, <2>2
  <2>4. tokens[i].replaced_by \in delivered /\ tokens[i].replaced_by <= j
    BY <2>1 DEF ChainInv, ChainKept, LinkedTo
  <2> QED
    BY <2>3, <2>4
<1>2. ASSUME NEW g \in Handlers \ {h} PROVE SoleOnChain(pc[g], loc[g])'
  <2>1. PICK p, l : p = pc[g] /\ l = loc[g]
    OBVIOUS
  <2>2. SoleOnChain(p, l) /\ (l.row # 0 => l.row \in delivered)
    BY <2>1 DEF ChainInv, IInv, HandlersHold, Held
  <2>3. CASE l.row = 0 \/ Family(l.row) \in contended
    <3>1. l.row # 0 => Family(l.row)' \in contended'
      BY <2>2, <2>3
    <3>2. SoleOnChain(p, l)'
      BY <3>1 DEF SoleOnChain
    <3> QED
      BY <2>1, <3>2
  <2>4. CASE l.row # 0 /\ Family(l.row) \notin contended
    <3>1. ~ (loc[h].row # 0 /\ Family(loc[h].row) = Family(l.row))
      BY <2>1, <2>4 DEF IInv, Separate
    <3>2. \A i \in delivered : Family(i) = Family(l.row) => tokens'[i] = tokens[i]
      BY <3>1
    <3>3. Family(l.row)' = Family(l.row) /\ tokens'[l.row] = tokens[l.row]
      BY <2>2, <2>4, <3>2
    <3>4. LiveOf(Family(l.row))' = LiveOf(Family(l.row))
      BY <3>2, <3>3 DEF LiveOf
    <3>5. LinkedTo(Family(l.row), l.row)' <=> LinkedTo(Family(l.row), l.row)
      BY <3>2, <3>3 DEF LinkedTo
    <3>6. SoleOnChain(p, l)'
      BY <2>2, <2>4, <3>3, <3>4, <3>5 DEF SoleOnChain
    <3> QED
      BY <2>1, <3>6
  <2> QED
    BY <2>3, <2>4
<1> QED
  BY <1>1, <1>2 DEF ChainInv

\* A request starts: a reuse is detected on a revoked row, which leads to the
\* usable row of the login if there is one.
LEMMA BeginChain ==
  ASSUME IInv, ChainInv, NEW h \in Handlers, NEW i \in delivered,
         RefreshBegin(h, i) \/ LogoutBegin(h, i)
  PROVE  ChainInv'
<1>1. /\ pc[h] = "idle" /\ NoteContention(i) /\ UNCHANGED <<tokens, origin, delivered>>
      /\ pc \in [Handlers -> PC] /\ loc \in [Handlers -> Request]
  BY DEF RefreshBegin, LogoutBegin, Goto, IInv, TypeOK
<1>2. contended \subseteq contended'
  BY <1>1, ContentionNoted
<1>3. \A g \in Handlers \ {h} : pc'[g] = pc[g] /\ loc'[g] = loc[g]
  BY <1>1 DEF RefreshBegin, LogoutBegin, Goto
<1>4. /\ loc'[h].row = i
      /\ pc'[h] \in {"logout_commit", "answer_logout", "answer_denied", "refresh_user",
                     "revoke_walk"}
      /\ pc'[h] = "refresh_user" => ~ tokens[i].revoked
      /\ pc'[h] = "revoke_walk" => tokens[i].revoked /\ loc'[h].cur = tokens[i].replaced_by
  <2>1. CASE RefreshBegin(h, i)
    <3>1. PICK l : l = [NoRequest EXCEPT !.row = i, !.user = tokens[i].user,
                                         !.cur = tokens[i].replaced_by]
      OBVIOUS
    <3>2. l.row = i /\ l.cur = tokens[i].replaced_by
      BY <3>1 DEF NoRequest
    <3>3. loc'[h] = l
      BY <1>1, <2>1, <3>1 DEF RefreshBegin
    <3> QED
      BY <1>1, <2>1, <3>2, <3>3 DEF RefreshBegin, Goto
  <2>2. CASE LogoutBegin(h, i)
    <3>1. loc'[h].row = i
      BY <1>1, <2>2 DEF LogoutBegin, NoRequest
    <3> QED
      BY <1>1, <2>2, <3>1 DEF LogoutBegin, Goto
  <2> QED
    BY <2>1, <2>2
<1>5. \A k : Family(k)' = Family(k)
  BY <1>1 DEF Family
<1>6. SoleOnChain(pc[h], loc[h])'
  <2> SUFFICES ASSUME Family(i) \notin contended', pc'[h] = "revoke_walk",
                      NEW j \in delivered, Family(j) = Family(i), ~ tokens[j].revoked
               PROVE  loc'[h].cur \in delivered /\ loc'[h].cur <= j
    BY <1>1, <1>4, <1>5 DEF SoleOnChain, LiveOf
  <2>1. LinkedTo(Family(j), j)
    BY <1>2 DEF ChainInv, ChainKept
  <2>2. i # j
    BY <1>4
  <2> QED
    BY <1>4, <2>1, <2>2 DEF LinkedTo
<1> QED
  BY <1>1, <1>2, <1>3, <1>5, <1>6, ChainStep

\* The walk goes from a row of the chain to the next one.
LEMMA WalkChain ==
  ASSUME IInv, ChainInv, NEW h \in Handlers, RevokeWalk(h)
  PROVE  ChainInv'
<1>1. /\ pc[h] = "revoke_walk" /\ loc \in [Handlers -> Request]
      /\ UNCHANGED <<tokens, pc, origin, delivered, contended>>
  BY DEF RevokeWalk, IInv, TypeOK
<1>2. PICK l, c : l = loc[h] /\ c = loc[h].cur
  OBVIOUS
<1>3. PICK m : m = [l EXCEPT !.cur = tokens[c].replaced_by,
                             !.held = IF tokens[c].revoked THEN @ ELSE @ \cup {c}]
  OBVIOUS
<1>4. /\ m.row = l.row /\ m.cur = tokens[c].replaced_by /\ l.held \subseteq m.held
      /\ ~ tokens[c].revoked => c \in m.held
  BY <1>1, <1>2, <1>3 DEF Request
<1>5. loc' = [loc EXCEPT ![h] = m]
  BY <1>1, <1>2, <1>3 DEF RevokeWalk
<1>6. loc'[h] = m /\ \A g \in Handlers \ {h} : loc'[g] = loc[g]
  BY <1>1, <1>5
<1>7. \A k : Family(k)' = Family(k)
  BY <1>1 DEF Family
<1>8. SoleOnChain(pc[h], loc[h])'
  <2> SUFFICES ASSUME l.row # 0, Family(l.row) \notin contended,
                      NEW j \in delivered, Family(j) = Family(l.row), ~ tokens[j].revoked,
                      j \notin m.held
               PROVE  m.cur \in delivered /\ m.cur <= j
    BY <1>1, <1>4, <1>6, <1>7 DEF SoleOnChain, LiveOf
  <2>1. c \in delivered /\ Family(c) = Family(l.row)
    <3>1. SoleOnChain(pc[h], l) /\ Held(pc[h], l)
      BY <1>2 DEF ChainInv, IInv, HandlersHold
    <3>2. c \in delivered
      BY <1>1, <1>2, <1>4, <3>1 DEF SoleOnChain, LiveOf
    <3>3. c # 0
      BY <1>2 DEF RevokeWalk
    <3> QED
      BY <1>2, <3>1, <3>2, <3>3 DEF Held
  <2>2. LinkedTo(Family(j), j)
    BY DEF ChainInv, ChainKept
  <2>3. c # j
    BY <1>4
  <2> QED
    BY <1>4, <2>1, <2>2, <2>3 DEF LinkedTo
<1> QED
  BY <1>1, <1>6, <1>7, <1>8, ChainStep

\* A new row is nobody's yet.
LEMMA IssueChain ==
  ASSUME IInv, ChainInv, NEW h \in Handlers, LoginIssue(h) \/ RefreshIssue(h)
  PROVE  ChainInv'
<1>1. /\ loc \in [Handlers -> Request] /\ pc \in [Handlers -> PC]
      /\ UNCHANGED <<delivered, contended>>
      /\ Held(pc[h], loc[h]) /\ SoleOnChain(pc[h], loc[h])
  BY DEF LoginIssue, RefreshIssue, IInv, TypeOK, HandlersHold, ChainInv
<1>2. /\ loc'[h].row = loc[h].row
      /\ \A g \in Handlers \ {h} : pc'[g] = pc[g] /\ loc'[g] = loc[g]
      /\ \/ pc[h] = "login_issue" /\ pc'[h] = "answer_token" /\ loc[h].row = 0
         \/ pc[h] = "refresh_issue" /\ pc'[h] = "refresh_rotate"
  BY <1>1 DEF LoginIssue, RefreshIssue, Goto, Held, Request
<1>3. \A i \in DOMAIN tokens : tokens'[i] = tokens[i] /\ origin'[i] = origin[i]
  <2>1. /\ tokens \in Seq(Token) /\ origin \in Seq(Origin) /\ DOMAIN origin = DOMAIN tokens
    BY DEF IInv, TypeOK, Lineage
  <2>2. /\ DOMAIN tokens = 1 .. Len(tokens) /\ DOMAIN origin = 1 .. Len(origin)
    BY <2>1, LenProperties
  <2>3. \E r, o : tokens' = Append(tokens, r) /\ origin' = Append(origin, o)
    BY DEF LoginIssue, RefreshIssue
  <2> QED
    BY <2>1, <2>2, <2>3, AppendProperties
<1>4. \A i \in delivered : tokens'[i] = tokens[i] /\ Family(i)' = Family(i)
  BY <1>3 DEF IInv, Lineage, Family
<1>5. SoleOnChain(pc[h], loc[h])'
  <2>1. CASE loc[h].row = 0
    BY <1>2, <2>1 DEF SoleOnChain
  <2>2. CASE loc[h].row # 0
    <3>1. loc[h].row \in delivered
      BY <1>1, <2>2 DEF Held
    <3> QED
      BY <1>1, <1>2, <1>4, <2>2, <3>1 DEF SoleOnChain
  <2> QED
    BY <2>1, <2>2
<1> QED
  BY <1>1, <1>2, <1>4, <1>5, ChainStep

\* The old row is linked to the new one, behind every other row of its login.
LEMMA RotateChain ==
  ASSUME IInv, ChainInv, NEW h \in Handlers, RefreshRotate(h)
  PROVE  ChainInv'
<1>1. PICK r, n : r = loc[h].row /\ n = loc[h].new
  OBVIOUS
<1>2. /\ pc[h] = "refresh_rotate" /\ pc \in [Handlers -> PC]
      /\ UNCHANGED <<loc, origin, delivered, contended>>
      /\ Held(pc[h], loc[h]) /\ SoleOnChain(pc[h], loc[h])
  BY DEF RefreshRotate, Goto, IInv, TypeOK, HandlersHold, ChainInv
<1>3. pc'[h] = "answer_token" /\ \A g \in Handlers \ {h} : pc'[g] = pc[g]
  BY <1>2 DEF RefreshRotate, Goto
<1>4. r # 0 /\ r \in delivered /\ delivered \subseteq DOMAIN tokens
  BY <1>1, <1>2 DEF Held, IInv, Lineage
<1>5. tokens \in Seq(Token) /\ tokens[r] \in Token
  BY <1>4, ElementOfSeq, LenProperties DEF IInv, TypeOK
<1>6. /\ tokens'[r].revoked /\ tokens'[r].replaced_by = n
      /\ \A i \in delivered \ {r} : tokens'[i] = tokens[i]
  BY <1>1, <1>4, <1>5 DEF RefreshRotate, Token
<1>7. Family(r) \notin contended => ~ tokens[r].revoked
  BY <1>1, <1>2, <1>4 DEF SoleOnChain
<1>8. \A k : Family(k)' = Family(k)
  BY <1>2 DEF Family
<1>9. SoleOnChain(pc[h], loc[h])'
  <2> SUFFICES ASSUME Family(r) \notin contended PROVE LinkedTo(Family(r), r)'
    BY <1>1, <1>2, <1>3, <1>6, <1>8 DEF SoleOnChain
  <2>1. LinkedTo(Family(r), r)
    BY <1>4, <1>7 DEF ChainInv, ChainKept
  <2> QED
    BY <1>2, <1>6, <1>8, <2>1 DEF LinkedTo
<1>10. \A i \in delivered :
         /\ tokens'[i] = tokens[i] \/ (loc[h].row # 0 /\ Family(i) = Family(loc[h].row))
         /\ tokens[i].revoked => tokens'[i].revoked
         /\ \/ tokens'[i].replaced_by = tokens[i].replaced_by
            \/ Family(i) \notin contended => ~ tokens[i].revoked
  BY <1>1, <1>4, <1>6, <1>7
<1> QED
  BY <1>2, <1>3, <1>8, <1>9, <1>10, ChainStep

\* Rows of the request's own login are revoked; their links stay.
LEMMA RevokedChain ==
  ASSUME IInv, ChainInv, NEW h \in Handlers, LogoutCommit(h) \/ RevokeCommit(h)
  PROVE  ChainInv'
<1>1. /\ pc[h] \in {"logout_commit", "revoke_walk"} /\ pc \in [Handlers -> PC]
      /\ UNCHANGED <<loc, origin, delivered, contended>>
      /\ Held(pc[h], loc[h])
  BY DEF LogoutCommit, RevokeCommit, Goto, IInv, TypeOK, HandlersHold
<1>2. /\ pc'[h] \in {"answer_logout", "answer_denied"}
      /\ \A g \in Handlers \ {h} : pc'[g] = pc[g]
  BY <1>1 DEF LogoutCommit, RevokeCommit, Goto
<1>3. /\ loc[h].row # 0 /\ loc[h].row \in delivered /\ delivered \subseteq DOMAIN tokens
      /\ \A i \in loc[h].held : Family(i) = Family(loc[h].row)
  BY <1>1 DEF Held, IInv, Lineage
<1>4. \A i \in delivered : tokens[i] \in Token
  BY <1>3, ElementOfSeq, LenProperties DEF IInv, TypeOK
<1>5. \A i \in delivered :
        /\ tokens'[i] = tokens[i] \/ i \in loc[h].held \cup {loc[h].row}
        /\ tokens[i].revoked => tokens'[i].revoked
        /\ tokens'[i].replaced_by = tokens[i].replaced_by
  <2>1. CASE LogoutCommit(h)
    BY <1>3, <1>4, <2>1 DEF LogoutCommit, Token
  <2>2. CASE RevokeCommit(h)
    BY <1>3, <1>4, <2>2 DEF RevokeCommit, Token
  <2> QED
    BY <2>1, <2>2
<1>6. \A i \in delivered :
        /\ tokens'[i] = tokens[i] \/ (loc[h].row # 0 /\ Family(i) = Family(loc[h].row))
        /\ tokens[i].revoked => tokens'[i].revoked
        /\ tokens'[i].replaced_by = tokens[i].replaced_by
  BY <1>3, <1>5
<1>7. \A k : Family(k)' = Family(k)
  BY <1>1 DEF Family
<1>8. SoleOnChain(pc[h], loc[h])'
  BY <1>2 DEF SoleOnChain
<1> QED
  BY <1>1, <1>2, <1>6, <1>7, <1>8, ChainStep

\* Requests that start with a login, read the user, end without a token or fail.
LEMMA QuietChain ==
  ASSUME IInv, ChainInv, NEW h \in Handlers,
         \/ \E u \in Users : LoginBegin(h, u)
         \/ RefreshReadUser(h)
         \/ Respond(h) /\ pc[h] # "answer_token"
         \/ Fail(h)
  PROVE  ChainInv'
<1>1. /\ UNCHANGED <<tokens, origin, delivered, contended>>
      /\ pc \in [Handlers -> PC] /\ loc \in [Handlers -> Request]
      /\ SoleOnChain(pc[h], loc[h])
  BY DEF LoginBegin, RefreshReadUser, Respond, Fail, IInv, TypeOK, ChainInv
<1>2. NoRequest.row = 0 /\ \A u : [NoRequest EXCEPT !.user = u].row = 0
  BY DEF NoRequest
<1>3. /\ \A g \in Handlers \ {h} : pc'[g] = pc[g] /\ loc'[g] = loc[g]
      /\ \/ loc'[h].row = 0
         \/ /\ pc[h] = "refresh_user" /\ loc'[h] = loc[h]
            /\ pc'[h] \in {"refresh_issue", "answer_denied"}
  <2>1. CASE \E u \in Users : LoginBegin(h, u)
    BY <1>1, <1>2, <2>1 DEF LoginBegin, Goto
  <2>2. CASE RefreshReadUser(h)
    BY <1>1, <2>2 DEF RefreshReadUser, Goto
  <2>3. CASE Respond(h) \/ Fail(h)
    BY <1>1, <1>2, <2>3 DEF Respond, Fail
  <2> QED
    BY <2>1, <2>2, <2>3
<1>4. \A k : Family(k)' = Family(k)
  BY <1>1 DEF Family
<1>5. SoleOnChain(pc[h], loc[h])'
  BY <1>1, <1>3, <1>4 DEF SoleOnChain
<1> QED
  BY <1>1, <1>3, <1>4, <1>5, ChainStep

\* A delivered token becomes the end of its login's chain.
LEMMA AnswerChain ==
  ASSUME IInv, ChainInv, NEW h \in Handlers, Respond(h), pc[h] = "answer_token"
  PROVE  ChainInv'
<1>1. PICK n, r : n = loc[h].new /\ r = loc[h].row
  OBVIOUS
<1>2. /\ delivered' = delivered \cup {n} /\ UNCHANGED <<tokens, origin, contended>>
      /\ pc \in [Handlers -> PC] /\ loc \in [Handlers -> Request]
      /\ Held(pc[h], loc[h]) /\ SoleOnChain(pc[h], loc[h])
  BY <1>1 DEF Respond, IInv, TypeOK, HandlersHold, ChainInv
<1>3. loc'[h].row = 0 /\ \A g \in Handlers \ {h} : pc'[g] = pc[g] /\ loc'[g] = loc[g]
  BY <1>2 DEF Respond, NoRequest
<1>4. /\ n \in DOMAIN tokens
      /\ \A j \in delivered :
           (j # n /\ Family(j) = Family(n) /\ Family(j) \notin contended) => tokens[j].revoked
      /\ \A g \in Handlers \ {h} :
           (loc[g].row # 0 /\ Family(loc[g].row) = Family(n))
             => Family(loc[g].row) \in contended
  BY <1>1, NewTokenIsAlone
<1>5. \A k : Family(k)' = Family(k)
  BY <1>2 DEF Family
<1>6. \A i \in delivered \cup {n} : i \in Nat
  BY <1>1, <1>2 DEF IInv, TypeOK, Request
<1>7. Family(n) \notin contended => LinkedTo(Family(n), n)'
  <2>1. CASE r = 0
    <3>1. n # 0 /\ origin[n].parent = 0 /\ n \notin delivered
      BY <1>1, <1>2, <2>1 DEF Held, IInv, LoginsUndelivered
    <3>2. Family(n) = n /\ \A i \in delivered : Family(i) = i \/ Family(i) \in delivered
      BY <1>4, <3>1 DEF IInv, Lineage
    <3>3. \A i \in delivered : Family(i) # Family(n)
      BY <3>1, <3>2
    <3> QED
      BY <1>2, <1>5, <3>3 DEF LinkedTo
  <2>2. CASE r # 0
    <3>1. r \in delivered /\ origin[n].parent = r
      BY <1>1, <1>2, <2>2 DEF Held
    <3>2. r < n /\ Family(r) = Family(n)
      BY <1>4, <2>2, <3>1 DEF IInv, Lineage
    <3>3. Family(n) \notin contended => tokens[r].replaced_by = n /\ LinkedTo(Family(n), r)
      BY <1>1, <1>2, <2>2, <3>2 DEF SoleOnChain
    <3> SUFFICES ASSUME Family(n) \notin contended,
                        NEW i \in delivered, Family(i) = Family(n), i # n
                 PROVE  tokens[i].replaced_by \in delivered \cup {n}
                        /\ tokens[i].replaced_by <= n
      BY <1>2, <1>5 DEF LinkedTo
    <3>4. CASE i = r
      BY <1>6, <3>3, <3>4
    <3>5. CASE i # r
      <4>1. tokens[i].replaced_by \in delivered /\ tokens[i].replaced_by <= r
        BY <3>3, <3>5 DEF LinkedTo
      <4>2. r \in Nat /\ n \in Nat /\ tokens[i].replaced_by \in Nat
        BY <1>6, <3>1, <4>1
      <4> QED
        BY <3>2, <4>1, <4>2
    <3> QED
      BY <3>4, <3>5
  <2> QED
    BY <2>1, <2>2
<1>8. ASSUME NEW f, NEW j, f # Family(n), LinkedTo(f, j) PROVE LinkedTo(f, j)'
  BY <1>2, <1>5, <1>8 DEF LinkedTo
<1>9. ChainKept'
  <2> SUFFICES ASSUME NEW j \in delivered \cup {n}, Family(j) \notin contended,
                      ~ tokens[j].revoked
               PROVE  LinkedTo(Family(j), j)'
    BY <1>2, <1>5 DEF ChainKept
  <2>1. CASE Family(j) = Family(n)
    <3>1. j = n
      BY <1>4, <2>1
    <3> QED
      BY <1>7, <3>1
  <2>2. CASE Family(j) # Family(n)
    <3>1. LinkedTo(Family(j), j)
      BY <2>2 DEF ChainInv, ChainKept
    <3>2. PICK f : f = Family(j)
      OBVIOUS
    <3>3. LinkedTo(f, j)'
      BY <1>8, <2>2, <3>1, <3>2
    <3> QED
      BY <1>5, <3>2, <3>3
  <2> QED
    BY <2>1, <2>2
<1>10. ASSUME NEW g \in Handlers \ {h} PROVE SoleOnChain(pc[g], loc[g])'
  <2>1. PICK p, l : p = pc[g] /\ l = loc[g]
    OBVIOUS
  <2>2. SoleOnChain(p, l)
    BY <2>1 DEF ChainInv
  <2>3. CASE l.row = 0 \/ Family(l.row) \in contended
    <3>1. SoleOnChain(p, l)'
      BY <1>2, <1>5, <2>3 DEF SoleOnChain
    <3> QED
      BY <1>3, <2>1, <3>1
  <2>4. CASE l.row # 0 /\ Family(l.row) \notin contended
    <3>1. Family(l.row) # Family(n)
      BY <1>4, <2>1, <2>4
    <3>2. LiveOf(Family(l.row))' = LiveOf(Family(l.row))
      BY <1>2, <1>5, <3>1 DEF LiveOf
    <3>3. PICK f : f = Family(l.row)
      OBVIOUS
    <3>4. LinkedTo(f, l.row) => LinkedTo(f, l.row)'
      BY <1>8, <3>1, <3>3
    <3>5. LinkedTo(Family(l.row), l.row) => LinkedTo(Family(l.row), l.row)'
      BY <1>5, <3>3, <3>4
    <3>6. SoleOnChain(p, l)'
      BY <1>2, <1>5, <2>2, <2>4, <3>2, <3>5 DEF SoleOnChain
    <3> QED
      BY <1>3, <2>1, <3>6
  <2> QED
    BY <2>3, <2>4
<1>11. SoleOnChain(pc[h], loc[h])'
  BY <1>3 DEF SoleOnChain
<1> QED
  BY <1>9, <1>10, <1>11 DEF ChainInv

\* Every step keeps every chain.
LEMMA NextChain == IInv /\ ChainInv /\ [Next]_vars => ChainInv'
<1> SUFFICES ASSUME IInv, ChainInv, [Next]_vars PROVE ChainInv'
  OBVIOUS
<1>1. ASSUME NEW h \in Handlers, NEW u \in Users, LoginBegin(h, u) PROVE ChainInv'
  BY <1>1, QuietChain
<1>2. ASSUME NEW h \in Handlers, NEW i \in delivered, RefreshBegin(h, i) \/ LogoutBegin(h, i)
      PROVE  ChainInv'
  BY <1>2, BeginChain
<1>3. ASSUME NEW h \in Handlers, Continue(h) PROVE ChainInv'
  <2>1. CASE Respond(h)
    BY <2>1, AnswerChain, QuietChain
  <2>2. CASE RefreshReadUser(h)
    BY <2>2, QuietChain
  <2> QED
    BY <1>3, <2>1, <2>2, IssueChain, RotateChain, WalkChain, RevokedChain DEF Continue
<1>4. ASSUME NEW h \in Handlers, Fail(h) PROVE ChainInv'
  BY <1>4, QuietChain
<1>5. ASSUME UNCHANGED <<tokens, pc, loc, origin, delivered, contended>> PROVE ChainInv'
  <2>1. \A k : Family(k)' = Family(k)
    BY <1>5 DEF Family
  <2>2. \A f, j : LinkedTo(f, j)' = LinkedTo(f, j)
    BY <1>5, <2>1 DEF LinkedTo
  <2>3. \A f : LiveOf(f)' = LiveOf(f)
    BY <1>5, <2>1 DEF LiveOf
  <2> QED
    BY <1>5, <2>1, <2>2, <2>3 DEF ChainInv, ChainKept, SoleOnChain
<1> QED
  BY <1>1, <1>2, <1>3, <1>4, <1>5 DEF Next, UserStatusChanges, Tick, vars

\* A walk that ran off the end of the chain has marked the usable row.
LEMMA ReuseStep == IInv /\ ChainInv /\ [Next]_vars => ReuseEndsSession \/ UNCHANGED vars
<1> SUFFICES ASSUME IInv, ChainInv, Next, NEW h \in Handlers,
                    pc[h] = "revoke_walk", pc'[h] = "answer_denied",
                    Family(loc[h].row) \notin contended
             PROVE  LiveOf(Family(loc[h].row))' = {}
  BY DEF ReuseEndsSession
<1>0. pc \in [Handlers -> PC]
  BY DEF IInv, TypeOK
<1>1. RevokeCommit(h)
  <2>1. \A g \in Handlers \ {h} : ~ Continue(g)
    BY <1>0 DEF Continue, LoginIssue, RefreshReadUser, RefreshIssue, RefreshRotate,
       RevokeWalk, RevokeCommit, LogoutCommit, Respond, Goto
  <2>2. Continue(h)
    BY <1>0, <2>1 DEF Next, LoginBegin, RefreshBegin, LogoutBegin, Fail, UserStatusChanges,
       Tick, Goto
  <2> QED
    BY <1>0, <2>2 DEF Continue, LoginIssue, RefreshReadUser, RefreshIssue, RefreshRotate,
       RevokeWalk, LogoutCommit, Respond, Goto
<1>2. /\ UNCHANGED <<loc, origin, delivered>> /\ loc[h].cur = 0
      /\ Held(pc[h], loc[h]) /\ SoleOnChain(pc[h], loc[h])
  BY <1>1 DEF RevokeCommit, IInv, HandlersHold, ChainInv
<1>3. loc[h].row # 0 /\ delivered \subseteq DOMAIN tokens /\ 0 \notin DOMAIN tokens
  BY <1>2, LenProperties DEF Held, IInv, Lineage, TypeOK
<1>4. \A j \in LiveOf(Family(loc[h].row)) : j \in loc[h].held
  BY <1>2, <1>3 DEF SoleOnChain
<1>5. \A j \in DOMAIN tokens : tokens[j] \in Token
  BY ElementOfSeq, LenProperties DEF IInv, TypeOK
<1>6. \A j \in delivered : tokens'[j] = tokens[j] \/ tokens'[j].revoked
  BY <1>1, <1>3, <1>5 DEF RevokeCommit, Token
<1>7. \A j \in loc[h].held : j \in DOMAIN tokens => tokens'[j].revoked
  BY <1>1, <1>5 DEF RevokeCommit, Token
<1>8. ASSUME NEW j \in delivered, Family(j) = Family(loc[h].row) PROVE tokens'[j].revoked
  BY <1>3, <1>4, <1>6, <1>7, <1>8 DEF LiveOf
<1>9. \A k : Family(k)' = Family(k)
  BY <1>2 DEF Family
<1> QED
  BY <1>2, <1>8, <1>9 DEF LiveOf

\* "The whole chain is revoked": in a login whose requests never overlapped, a
\* reuse that refresh detects leaves no usable token behind, however often it was
\* rotated and whatever crashes and lost answers there were.
THEOREM DetectedReuseEndsTheSession == Spec => ReuseEndsTheSession
<1>1. Init => ChainInv
  BY InitChain
<1>2. IInv /\ ChainInv /\ [Next]_vars => ChainInv'
  BY NextChain
<1>3. IInv /\ ChainInv /\ [Next]_vars => [ReuseEndsSession]_vars
  BY ReuseStep
<1> QED
  BY <1>1, <1>2, <1>3, Invariance, PTL DEF Spec, ReuseEndsTheSession

-----------------------------------------------------------------------------
(* The browser of BrowserSession against this server *)

\* Whatever the browser and the network do, the server sees a behaviour of
\* RefreshTokens: only delivered tokens are presented to it.
LEMMA ServerStep ==
  ASSUME RequestsKnown, [BrowserNext]_allvars
  PROVE  [Next]_vars
<1>1. ASSUME NEW h \in Handlers, Arrive(h) PROVE Next
  <2>1. CASE req[h].kind = "login" /\ LoginBegin(h, Visitor)
    BY <2>1, BrowserAssumption DEF Next
  <2>2. CASE req[h].kind = "refresh" /\ RefreshBegin(h, req[h].cookie)
    <3>1. req[h].cookie \in delivered
      BY <2>2 DEF RequestsKnown
    <3> QED
      BY <2>2, <3>1 DEF Next
  <2>3. CASE req[h].kind = "logout" /\ req[h].cookie # 0 /\ LogoutBegin(h, req[h].cookie)
    <3>1. req[h].cookie \in delivered
      BY <2>3 DEF RequestsKnown
    <3> QED
      BY <2>3, <3>1 DEF Next
  <2> QED
    BY <1>1, <2>1, <2>2, <2>3 DEF Arrive
<1>2. ASSUME NEW h \in Handlers, Serve(h) \/ Deliver(h) \/ LogoutWithoutCookie(h)
      PROVE  [Next]_vars
  BY <1>2 DEF Serve, Deliver, LogoutWithoutCookie, Next, Continue
<1>3. ASSUME NEW h \in Handlers, Lose(h) PROVE [Next]_vars
  BY <1>3 DEF Lose, Next
<1>4. CASE World
  BY <1>4 DEF World, Next
<1>5. ASSUME NEW t \in Tabs, RefreshWithoutCookie(t) \/ Reload(t) PROVE UNCHANGED vars
  BY <1>5 DEF RefreshWithoutCookie, Reload
<1>6. ASSUME NEW h \in Handlers, NEW t \in Tabs,
             SendRefresh(h, t) \/ SendLogin(h, t) \/ SendLogout(h, t)
      PROVE  UNCHANGED vars
  BY <1>6 DEF SendRefresh, SendLogin, SendLogout
<1>7. UNCHANGED allvars => UNCHANGED vars
  BY DEF allvars
<1> QED
  BY <1>1, <1>2, <1>3, <1>4, <1>5, <1>6, <1>7 DEF BrowserNext, Answer

\* The login a presented or issued token descends from is known.
LEMMA KnownRows ==
  ASSUME BrowserInv
  PROVE  /\ delivered \subseteq DOMAIN tokens
         /\ cookie # 0 => cookie \in DOMAIN tokens
         /\ \A h \in Handlers :
              /\ req[h].cookie # 0 => req[h].cookie \in DOMAIN tokens
              /\ loc[h].row # 0 => loc[h].row \in DOMAIN tokens /\ req[h].cookie = loc[h].row
              /\ pc[h] = "idle" => loc[h].row = 0
              /\ pc[h] \in {"refresh_rotate", "answer_token"} => loc[h].new \in DOMAIN tokens
<1>1. delivered \subseteq DOMAIN tokens
  BY DEF BrowserInv, IInv, Lineage
<1>2. \A h \in Handlers : Held(pc[h], loc[h])
  BY DEF BrowserInv, IInv, HandlersHold
<1>3. \A h \in Handlers :
        /\ pc[h] = "idle" => loc[h].row = 0
        /\ pc[h] \in {"refresh_rotate", "answer_token"} => loc[h].new \in DOMAIN tokens
  BY <1>2 DEF Held, NoRequest
<1> QED
  BY <1>1, <1>3 DEF BrowserInv, RequestsKnown

\* No other request revokes the token that is being issued, unless they overlap.
LEMMA IssuedApart ==
  ASSUME IInv, NEW g \in Handlers, pc[g] \in {"refresh_rotate", "answer_token"},
         NEW h \in Handlers \ {g}, loc[h].row # 0, Family(loc[h].row) = Family(loc[g].new)
  PROVE  Family(loc[g].new) \in contended
<1>1. CASE pc[g] = "answer_token"
  BY <1>1, NewTokenIsAlone
<1>2. CASE pc[g] = "refresh_rotate"
  <2>1. Held(pc[g], loc[g])
    BY DEF IInv, HandlersHold
  <2>2. loc[g].row # 0 /\ loc[g].new \in DOMAIN tokens /\ origin[loc[g].new].parent = loc[g].row
    BY <1>2, <2>1 DEF Held
  <2>3. Family(loc[g].row) = Family(loc[g].new)
    BY <2>2 DEF IInv, Lineage
  <2> QED
    BY <2>2, <2>3 DEF IInv, Separate
<1> QED
  BY <1>1, <1>2

\* The rows handler h may revoke by its next step, and where it goes then.
Revokes(h, i) ==
  /\ loc[h].row # 0 /\ Family(i) = Family(loc[h].row)
  /\ \/ pc[h] = "revoke_walk"
     \/ /\ i = loc[h].row /\ pc[h] \in {"refresh_rotate", "logout_commit"}
        /\ pc'[h] \in {"answer_token", "answer_logout"}

\* What a step of the server does, as far as the browser is concerned.
ServesOne(h) ==
  /\ UNCHANGED <<delivered, contended, cookie, req, shared, lost>>
  /\ \A g \in Handlers \ {h} : pc'[g] = pc[g] /\ loc'[g] = loc[g]
  /\ loc'[h].row = loc[h].row
  /\ pc[h] \notin {"idle", "answer_token", "answer_logout"} /\ pc'[h] # "idle"
  /\ pc'[h] = "revoke_walk" => pc[h] = "revoke_walk"
  /\ \A i \in DOMAIN tokens :
       /\ Family(i)' = Family(i)
       /\ tokens'[i].revoked => tokens[i].revoked \/ Revokes(h, i)
  /\ pc'[h] \in {"refresh_rotate", "answer_token"} =>
       \/ ~ tokens'[loc'[h].new].revoked
       \/ pc[h] = "refresh_rotate" /\ loc'[h] = loc[h]

LEMMA ServeIssue ==
  ASSUME IInv, NEW h \in Handlers, LoginIssue(h) \/ RefreshIssue(h), UNCHANGED browser
  PROVE  ServesOne(h)
<1>1. /\ loc \in [Handlers -> Request] /\ pc \in [Handlers -> PC]
      /\ UNCHANGED <<delivered, contended, cookie, req, shared, lost>>
  BY DEF LoginIssue, RefreshIssue, IInv, TypeOK, browser
<1>2. PICK m : m = [loc[h] EXCEPT !.new = Fresh]
  OBVIOUS
<1>3. m.row = loc[h].row /\ m.new = Fresh
  BY <1>1, <1>2 DEF Request
<1>4. loc' = [loc EXCEPT ![h] = m]
  BY <1>1, <1>2 DEF LoginIssue, RefreshIssue
<1>5. /\ loc'[h].row = loc[h].row /\ loc'[h].new = Fresh
      /\ \A g \in Handlers \ {h} : pc'[g] = pc[g] /\ loc'[g] = loc[g]
      /\ pc[h] \in {"login_issue", "refresh_issue"}
      /\ pc'[h] \in {"answer_token", "refresh_rotate"}
  BY <1>1, <1>3, <1>4 DEF LoginIssue, RefreshIssue, Goto
<1>6. /\ tokens \in Seq(Token) /\ origin \in Seq(Origin) /\ DOMAIN origin = DOMAIN tokens
      /\ DOMAIN tokens = 1 .. Len(tokens) /\ DOMAIN origin = 1 .. Len(origin)
      /\ Len(tokens) \in Nat
  BY LenProperties DEF IInv, TypeOK, Lineage
<1>7. PICK r, o : /\ tokens' = Append(tokens, r) /\ origin' = Append(origin, o)
                  /\ r = NewRow(loc[h].user)
  BY DEF LoginIssue, RefreshIssue
<1>8. ~ r.revoked
  BY <1>7 DEF NewRow
<1>9. /\ \A i \in DOMAIN tokens : tokens'[i] = tokens[i] /\ origin'[i] = origin[i]
      /\ tokens'[Fresh] = r
  BY <1>6, <1>7, AppendProperties DEF Fresh
<1>10. \A i \in DOMAIN tokens : Family(i)' = Family(i)
  BY <1>9 DEF Family
<1> QED
  BY <1>1, <1>5, <1>8, <1>9, <1>10 DEF ServesOne

LEMMA ServeRead ==
  ASSUME IInv, NEW h \in Handlers, RefreshReadUser(h) \/ RevokeWalk(h), UNCHANGED browser
  PROVE  ServesOne(h)
<1>1. /\ loc \in [Handlers -> Request] /\ pc \in [Handlers -> PC]
      /\ UNCHANGED <<tokens, origin, delivered, contended, cookie, req, shared, lost>>
  BY DEF RefreshReadUser, RevokeWalk, IInv, TypeOK, browser
<1>2. \A i : Family(i)' = Family(i)
  BY <1>1 DEF Family
<1>3. CASE RefreshReadUser(h)
  <2>1. /\ loc' = loc /\ pc[h] = "refresh_user" /\ pc'[h] \in {"refresh_issue", "answer_denied"}
        /\ \A g \in Handlers \ {h} : pc'[g] = pc[g]
    BY <1>1, <1>3 DEF RefreshReadUser, Goto
  <2> QED
    BY <1>1, <1>2, <2>1 DEF ServesOne
<1>4. CASE RevokeWalk(h)
  <2>1. PICK c : c = loc[h].cur
    OBVIOUS
  <2>2. PICK m : m = [loc[h] EXCEPT !.cur = tokens[c].replaced_by,
                                    !.held = IF tokens[c].revoked THEN @ ELSE @ \cup {c}]
    OBVIOUS
  <2>3. m.row = loc[h].row
    BY <1>1, <2>2 DEF Request
  <2>4. loc' = [loc EXCEPT ![h] = m] /\ pc' = pc /\ pc[h] = "revoke_walk"
    BY <1>1, <1>4, <2>1, <2>2 DEF RevokeWalk
  <2>5. loc'[h].row = loc[h].row /\ \A g \in Handlers \ {h} : loc'[g] = loc[g]
    BY <1>1, <2>3, <2>4
  <2> QED
    BY <1>1, <1>2, <2>4, <2>5 DEF ServesOne
<1> QED
  BY <1>3, <1>4

LEMMA ServeRevoke ==
  ASSUME IInv, NEW h \in Handlers,
         RefreshRotate(h) \/ LogoutCommit(h) \/ RevokeCommit(h), UNCHANGED browser
  PROVE  ServesOne(h)
<1>1. /\ pc \in [Handlers -> PC] /\ Held(pc[h], loc[h])
      /\ UNCHANGED <<loc, origin, delivered, contended, cookie, req, shared, lost>>
  BY DEF RefreshRotate, LogoutCommit, RevokeCommit, IInv, TypeOK, HandlersHold, browser
<1>2. \A i : Family(i)' = Family(i)
  BY <1>1 DEF Family
<1>3. \A i \in DOMAIN tokens : tokens[i] \in Token
  BY ElementOfSeq, LenProperties DEF IInv, TypeOK
<1>4. \A g \in Handlers \ {h} : pc'[g] = pc[g]
  BY <1>1 DEF RefreshRotate, LogoutCommit, RevokeCommit, Goto
<1>5. \/ pc[h] = "refresh_rotate" /\ pc'[h] = "answer_token"
      \/ pc[h] = "logout_commit" /\ pc'[h] = "answer_logout"
      \/ pc[h] = "revoke_walk" /\ pc'[h] = "answer_denied"
  BY <1>1 DEF RefreshRotate, LogoutCommit, RevokeCommit, Goto
<1>6. ASSUME NEW i \in DOMAIN tokens, tokens'[i].revoked, ~ tokens[i].revoked
      PROVE  Revokes(h, i)
  <2>1. loc[h].row # 0 /\ \A k \in loc[h].held : Family(k) = Family(loc[h].row)
    BY <1>1, <1>5 DEF Held
  <2>2. CASE RefreshRotate(h) \/ LogoutCommit(h)
    <3>1. i = loc[h].row
      BY <1>3, <1>6, <2>2 DEF RefreshRotate, LogoutCommit, Token
    <3>2. pc[h] \in {"refresh_rotate", "logout_commit"}
      BY <2>2 DEF RefreshRotate, LogoutCommit, Goto
    <3> QED
      BY <1>5, <2>1, <3>1, <3>2 DEF Revokes
  <2>3. CASE RevokeCommit(h)
    <3>1. i \in loc[h].held
      BY <1>6, <2>3 DEF RevokeCommit
    <3>2. pc[h] = "revoke_walk"
      BY <2>3 DEF RevokeCommit, Goto
    <3> QED
      BY <2>1, <3>1, <3>2 DEF Revokes
  <2> QED
    BY <2>2, <2>3
<1> QED
  BY <1>1, <1>2, <1>4, <1>5, <1>6 DEF ServesOne

\* A handler works on: what it revokes is the session of its own request.
LEMMA ServeInv ==
  ASSUME BrowserInv, IInv', BrowserTypeOK', NEW h \in Handlers, ServesOne(h)
  PROVE  BrowserInv'
<1>1. /\ UNCHANGED <<delivered, contended, cookie, req, shared, lost>>
      /\ \A g \in Handlers \ {h} : pc'[g] = pc[g] /\ loc'[g] = loc[g]
      /\ loc'[h].row = loc[h].row
      /\ pc[h] \notin {"idle", "answer_token", "answer_logout"} /\ pc'[h] # "idle"
      /\ pc'[h] = "revoke_walk" => pc[h] = "revoke_walk"
  BY DEF ServesOne
<1>2. \A i \in DOMAIN tokens :
        /\ Family(i)' = Family(i)
        /\ tokens'[i].revoked => tokens[i].revoked \/ Revokes(h, i)
  BY DEF ServesOne
<1>3. /\ cookie # 0 => cookie \in DOMAIN tokens
      /\ \A g \in Handlers :
           /\ req[g].cookie # 0 => req[g].cookie \in DOMAIN tokens
           /\ loc[g].row # 0 => loc[g].row \in DOMAIN tokens /\ req[g].cookie = loc[g].row
           /\ pc[g] \in {"refresh_rotate", "answer_token"} => loc[g].new \in DOMAIN tokens
  BY KnownRows
<1>4. RequestsKnown'
  BY <1>1 DEF BrowserInv, RequestsKnown
<1>5. OverlapsNoted'
  BY <1>1, <1>2, <1>3 DEF BrowserInv, OverlapsNoted
<1>6. IssuedUsable'
  <2> SUFFICES ASSUME NEW g \in Handlers, pc'[g] \in {"refresh_rotate", "answer_token"},
                      Family(loc[g].new)' \notin contended
               PROVE  ~ tokens'[loc'[g].new].revoked
    BY <1>1 DEF IssuedUsable
  <2>1. CASE g # h
    <3>1. pc[g] = pc'[g] /\ loc'[g] = loc[g]
      BY <1>1, <2>1
    <3>2. Family(loc[g].new) \notin contended /\ loc[g].new \in DOMAIN tokens
      BY <1>2, <1>3, <3>1
    <3>3. ~ tokens[loc[g].new].revoked
      BY <3>1, <3>2 DEF BrowserInv, IssuedUsable
    <3>4. ~ Revokes(h, loc[g].new)
      BY <2>1, <3>1, <3>2, IssuedApart DEF Revokes, BrowserInv
    <3> QED
      BY <1>2, <3>1, <3>2, <3>3, <3>4
  <2>2. CASE g = h /\ pc[h] = "refresh_rotate" /\ loc'[h] = loc[h]
    <3>1. /\ Family(loc[h].new) \notin contended /\ loc[h].new \in DOMAIN tokens
      BY <1>2, <1>3, <2>2
    <3>2. ~ tokens[loc[h].new].revoked
      BY <2>2, <3>1 DEF BrowserInv, IssuedUsable
    <3>3. loc[h].new # loc[h].row
      <4>1. loc[h].row # 0 /\ origin[loc[h].new].parent = loc[h].row
        BY <2>2, <3>1 DEF BrowserInv, IInv, HandlersHold, Held
      <4>2. loc[h].row < loc[h].new /\ loc[h].new \in Nat
        BY <3>1, <4>1, LenProperties DEF BrowserInv, IInv, Lineage, TypeOK
      <4> QED
        BY <4>2
    <3> QED
      BY <1>2, <2>2, <3>1, <3>2, <3>3 DEF Revokes
  <2>3. g = h => (~ tokens'[loc'[h].new].revoked \/ (pc[h] = "refresh_rotate" /\ loc'[h] = loc[h]))
    BY DEF ServesOne
  <2> QED
    BY <2>1, <2>2, <2>3
<1>7. SentUsable'
  <2> SUFFICES ASSUME NEW g \in Handlers, pc'[g] = "idle", req[g].cookie # 0,
                      Family(req[g].cookie)' \notin shared \cup lost
               PROVE  ~ tokens'[req[g].cookie].revoked
    BY <1>1 DEF SentUsable
  <2>1. g # h /\ pc[g] = "idle"
    BY <1>1
  <2>2. req[g].cookie \in DOMAIN tokens /\ Family(req[g].cookie) \notin shared \cup lost
    BY <1>1, <1>2, <1>3
  <2>3. ~ tokens[req[g].cookie].revoked
    BY <2>1, <2>2 DEF BrowserInv, SentUsable
  <2>4. ~ Revokes(h, req[g].cookie)
    BY <1>3, <2>1, <2>2 DEF Revokes, BrowserInv, OverlapsNoted
  <2> QED
    BY <1>2, <2>2, <2>3, <2>4
<1>8. CookieUsable'
  <2> SUFFICES ASSUME cookie # 0, Family(cookie)' \notin shared \cup lost,
                      tokens'[cookie].revoked
               PROVE  \E g \in Handlers : /\ pc'[g] \in {"answer_token", "answer_logout"}
                                          /\ loc'[g].row # 0
                                          /\ Family(loc[g].row)' = Family(cookie)'
    BY <1>1 DEF CookieUsable
  <2>1. cookie \in DOMAIN tokens /\ Family(cookie) \notin shared \cup lost
        /\ Family(cookie)' = Family(cookie)
    BY <1>1, <1>2, <1>3
  <2>2. CASE tokens[cookie].revoked
    <3>1. PICK g \in Handlers : /\ pc[g] \in {"answer_token", "answer_logout"}
                                /\ loc[g].row # 0 /\ Family(loc[g].row) = Family(cookie)
      BY <2>1, <2>2 DEF BrowserInv, CookieUsable
    <3>2. g # h
      BY <1>1, <3>1
    <3>3. pc'[g] = pc[g] /\ loc'[g] = loc[g] /\ loc[g].row \in DOMAIN tokens
      BY <1>1, <1>3, <3>1, <3>2
    <3>4. Family(loc[g].row)' = Family(loc[g].row)
      BY <1>2, <3>3
    <3> QED
      BY <2>1, <3>1, <3>3, <3>4
  <2>3. CASE Revokes(h, cookie)
    <3>1. loc[h].row # 0 /\ Family(cookie) = Family(loc[h].row)
      BY <2>3 DEF Revokes
    <3>2. pc[h] # "revoke_walk"
      BY <2>1, <3>1 DEF BrowserInv, OnlyDisturbedSessionsFlagged
    <3>3. pc'[h] \in {"answer_token", "answer_logout"}
      BY <2>3, <3>2 DEF Revokes
    <3>4. Family(loc[h].row)' = Family(loc[h].row)
      BY <1>1, <1>2, <1>3, <3>1
    <3> QED
      BY <1>1, <2>1, <3>1, <3>3, <3>4
  <2> QED
    BY <1>2, <2>1, <2>2, <2>3
<1>9. OnlyDisturbedSessionsFlagged'
  <2> SUFFICES ASSUME NEW g \in Handlers, pc'[g] = "revoke_walk"
               PROVE  Family(loc[g].row)' \in shared \cup lost
    BY <1>1 DEF OnlyDisturbedSessionsFlagged
  <2>1. pc[g] = "revoke_walk" /\ loc'[g].row = loc[g].row
    BY <1>1
  <2>2. Family(loc[g].row) \in shared \cup lost
    BY <2>1 DEF BrowserInv, OnlyDisturbedSessionsFlagged
  <2>3. loc[g].row # 0
    BY <2>1 DEF BrowserInv, IInv, HandlersHold, Held
  <2>4. Family(loc[g].row)' = Family(loc[g].row)
    BY <1>2, <1>3, <2>1, <2>3
  <2> QED
    BY <2>2, <2>4
<1> QED
  BY <1>4, <1>5, <1>6, <1>7, <1>8, <1>9 DEF BrowserInv

\* A handler picks a request up: what it finds revoked belongs to a disturbed
\* session, and the requests it meets have met on the network before.
LEMMA ArriveInv ==
  ASSUME BrowserInv, IInv', NEW h \in Handlers, Arrive(h)
  PROVE  BrowserInv'
<1>1. /\ pc[h] = "idle" /\ pc \in [Handlers -> PC] /\ loc \in [Handlers -> Request]
      /\ UNCHANGED <<tokens, origin, delivered, cookie, page, access, promise, req, shared, lost>>
  BY DEF Arrive, LoginBegin, RefreshBegin, LogoutBegin, BrowserInv, IInv, TypeOK, browser
<1>2. \A k : Family(k)' = Family(k)
  BY <1>1 DEF Family
<1>3. /\ \A g \in Handlers \ {h} : pc'[g] = pc[g] /\ loc'[g] = loc[g]
      /\ pc'[h] \in {"login_issue", "refresh_user", "revoke_walk", "answer_denied",
                     "logout_commit", "answer_logout"}
      /\ loc'[h].row \in {0, req[h].cookie}
      /\ pc'[h] = "revoke_walk" =>
           /\ loc'[h].row = req[h].cookie /\ req[h].cookie # 0
           /\ tokens[req[h].cookie].revoked
      /\ \/ contended' = contended
         \/ req[h].cookie # 0 /\ NoteContention(req[h].cookie)
  <2>1. CASE LoginBegin(h, Visitor)
    <3>1. PICK l : l = [NoRequest EXCEPT !.user = Visitor]
      OBVIOUS
    <3>2. l.row = 0
      BY <3>1 DEF NoRequest
    <3>3. loc' = [loc EXCEPT ![h] = l]
      BY <2>1, <3>1 DEF LoginBegin
    <3> QED
      BY <1>1, <2>1, <3>2, <3>3 DEF LoginBegin, Goto
  <2>2. CASE req[h].kind = "refresh" /\ RefreshBegin(h, req[h].cookie)
    <3>1. PICK i, l : /\ i = req[h].cookie
                      /\ l = [NoRequest EXCEPT !.row = i, !.user = tokens[i].user,
                                               !.cur = tokens[i].replaced_by]
      OBVIOUS
    <3>2. l.row = i
      BY <3>1 DEF NoRequest
    <3>3. loc' = [loc EXCEPT ![h] = l]
      BY <2>2, <3>1 DEF RefreshBegin
    <3>4. i # 0
      BY <2>2, <3>1 DEF BrowserInv, RequestsKnown
    <3> QED
      BY <1>1, <2>2, <3>1, <3>2, <3>3, <3>4 DEF RefreshBegin, Goto
  <2>3. CASE req[h].cookie # 0 /\ LogoutBegin(h, req[h].cookie)
    <3>1. PICK l : l = [NoRequest EXCEPT !.row = req[h].cookie]
      OBVIOUS
    <3>2. l.row = req[h].cookie
      BY <3>1 DEF NoRequest
    <3>3. loc' = [loc EXCEPT ![h] = l]
      BY <2>3, <3>1 DEF LogoutBegin
    <3> QED
      BY <1>1, <2>3, <3>2, <3>3 DEF LogoutBegin, Goto
  <2> QED
    BY <2>1, <2>2, <2>3 DEF Arrive
<1>4. contended \subseteq contended' /\ contended' \subseteq shared
  <2>1. contended \subseteq shared
    BY DEF BrowserInv, OverlapsNoted
  <2>2. CASE contended' = contended
    BY <2>1, <2>2
  <2>3. CASE req[h].cookie # 0 /\ NoteContention(req[h].cookie)
    <3>1. ASSUME NEW g \in WorkingOn(Family(req[h].cookie))
          PROVE  Family(req[h].cookie) \in shared
      <4>1. /\ g \in Handlers /\ g # h /\ loc[g].row # 0
            /\ Family(loc[g].row) = Family(req[h].cookie)
        BY <1>1 DEF WorkingOn
      <4>2. req[g].cookie = loc[g].row
        BY <4>1 DEF BrowserInv, RequestsKnown
      <4> QED
        BY <2>3, <4>1, <4>2 DEF BrowserInv, OverlapsNoted
    <3> QED
      BY <2>1, <2>3, <3>1 DEF NoteContention
  <2> QED
    BY <1>3, <2>2, <2>3
<1>5. BrowserTypeOK' /\ RequestsKnown'
  BY <1>1, <1>3 DEF BrowserInv, BrowserTypeOK, RequestsKnown
<1>6. OverlapsNoted'
  BY <1>1, <1>2, <1>4 DEF BrowserInv, OverlapsNoted
<1>7. IssuedUsable'
  BY <1>1, <1>2, <1>3, <1>4 DEF BrowserInv, IssuedUsable
<1>8. SentUsable'
  BY <1>1, <1>2, <1>3 DEF BrowserInv, SentUsable
<1>9. CookieUsable'
  <2> SUFFICES ASSUME cookie # 0, Family(cookie) \notin shared \cup lost, tokens[cookie].revoked
               PROVE  \E g \in Handlers : /\ pc'[g] \in {"answer_token", "answer_logout"}
                                          /\ loc'[g].row # 0
                                          /\ Family(loc'[g].row) = Family(cookie)
    BY <1>1, <1>2 DEF CookieUsable
  <2>1. PICK g \in Handlers : /\ pc[g] \in {"answer_token", "answer_logout"}
                              /\ loc[g].row # 0 /\ Family(loc[g].row) = Family(cookie)
    BY DEF BrowserInv, CookieUsable
  <2>2. g # h
    BY <1>1, <2>1
  <2> QED
    BY <1>3, <2>1, <2>2
<1>10. OnlyDisturbedSessionsFlagged'
  <2>1. pc'[h] = "revoke_walk" => Family(loc'[h].row) \in shared \cup lost
    BY <1>1, <1>3 DEF BrowserInv, SentUsable
  <2> QED
    BY <1>1, <1>2, <1>3, <2>1 DEF BrowserInv, OnlyDisturbedSessionsFlagged
<1> QED
  BY <1>5, <1>6, <1>7, <1>8, <1>9, <1>10 DEF BrowserInv

\* A request is sent: the browser attaches the cookie, which is usable unless
\* another request of the session is outstanding.
LEMMA SendInv ==
  ASSUME BrowserInv, IInv', BrowserTypeOK', NEW h \in Handlers, NEW t, NEW kind,
         Send(h, t, kind), kind = "refresh" => cookie # 0,
         UNCHANGED <<tokens, pc, loc, origin, delivered, contended, cookie, lost>>
  PROVE  BrowserInv'
<1>1. /\ req[h].cookie = 0 /\ req'[h].cookie = cookie /\ req'[h].kind = kind
      /\ \A g \in Handlers \ {h} : req'[g] = req[g]
      /\ shared \subseteq shared'
      /\ (cookie # 0 /\ Outstanding(Family(cookie)) # {}) => Family(cookie) \in shared'
  BY DEF Send, NoReq, BrowserInv, BrowserTypeOK
<1>2. \A k : Family(k)' = Family(k)
  BY DEF Family
<1>3. loc[h].row = 0
  BY <1>1 DEF BrowserInv, RequestsKnown
<1>4. ASSUME NEW g \in Handlers, req[g].cookie # 0, cookie # 0,
             Family(req[g].cookie) = Family(cookie)
      PROVE  Family(cookie) \in shared'
  <2>1. g \in Outstanding(Family(cookie))
    BY <1>4 DEF Outstanding
  <2> QED
    BY <1>1, <1>4, <2>1
<1>5. RequestsKnown'
  BY <1>1, <1>3 DEF BrowserInv, RequestsKnown
<1>6. OverlapsNoted'
  <2> SUFFICES ASSUME NEW f \in Handlers, NEW g \in Handlers, f # g,
                      req'[f].cookie # 0, req'[g].cookie # 0,
                      Family(req'[f].cookie) = Family(req'[g].cookie)
               PROVE  Family(req'[f].cookie) \in shared'
    BY <1>1, <1>2 DEF BrowserInv, OverlapsNoted
  <2>1. CASE f = h
    BY <1>1, <1>4, <2>1
  <2>2. CASE g = h
    BY <1>1, <1>4, <2>2
  <2>3. CASE f # h /\ g # h
    BY <1>1, <2>3 DEF BrowserInv, OverlapsNoted
  <2> QED
    BY <2>1, <2>2, <2>3
<1>7. IssuedUsable'
  BY <1>2 DEF BrowserInv, IssuedUsable
<1>8. SentUsable'
  <2> SUFFICES ASSUME NEW g \in Handlers, pc[g] = "idle", req'[g].cookie # 0,
                      Family(req'[g].cookie) \notin shared' \cup lost
               PROVE  ~ tokens[req'[g].cookie].revoked
    BY <1>2 DEF SentUsable
  <2>1. CASE g # h
    BY <1>1, <2>1 DEF BrowserInv, SentUsable
  <2>2. CASE g = h
    <3>1. cookie # 0 /\ req'[g].cookie = cookie /\ Family(cookie) \notin shared \cup lost
      BY <1>1, <2>2
    <3>2. ASSUME NEW f \in Handlers, loc[f].row # 0
          PROVE  Family(loc[f].row) # Family(cookie)
      <4>1. req[f].cookie = loc[f].row
        BY <3>2 DEF BrowserInv, RequestsKnown
      <4> QED
        BY <1>4, <3>1, <3>2, <4>1
    <3> QED
      BY <3>1, <3>2 DEF BrowserInv, CookieUsable
  <2> QED
    BY <2>1, <2>2
<1>9. CookieUsable'
  BY <1>1, <1>2 DEF BrowserInv, CookieUsable
<1>10. OnlyDisturbedSessionsFlagged'
  BY <1>1, <1>2 DEF BrowserInv, OnlyDisturbedSessionsFlagged
<1> QED
  BY <1>5, <1>6, <1>7, <1>8, <1>9, <1>10 DEF BrowserInv

\* A request ends, with an answer or without: the cookie becomes the token the
\* answer carries, is deleted, or stays; it stays behind the server's back only
\* when an answer is lost.
LEMMA EndInv ==
  ASSUME BrowserInv, IInv', BrowserTypeOK', NEW h \in Handlers,
         UNCHANGED <<tokens, origin, contended, shared>>,
         delivered \subseteq delivered', lost \subseteq lost',
         req' = [req EXCEPT ![h] = NoReq], pc'[h] = "idle", loc'[h].row = 0,
         \A g \in Handlers \ {h} : pc'[g] = pc[g] /\ loc'[g] = loc[g],
         \/ cookie' = 0
         \/ cookie' = loc[h].new /\ pc[h] = "answer_token" /\ loc[h].new \in delivered'
         \/ /\ cookie' = cookie
            /\ (pc[h] \in {"answer_token", "answer_logout"} /\ loc[h].row # 0)
                 => Family(loc[h].row) \in lost'
  PROVE  BrowserInv'
<1>1. /\ req'[h].cookie = 0 /\ req'[h].kind = "none"
      /\ \A g \in Handlers \ {h} : req'[g] = req[g]
  BY DEF BrowserInv, BrowserTypeOK, NoReq
<1>2. \A k : Family(k)' = Family(k)
  BY DEF Family
<1>3. RequestsKnown'
  BY <1>1 DEF BrowserInv, RequestsKnown
<1>4. OverlapsNoted'
  BY <1>1, <1>2 DEF BrowserInv, OverlapsNoted
<1>5. IssuedUsable'
  BY <1>2 DEF BrowserInv, IssuedUsable
<1>6. SentUsable'
  BY <1>1, <1>2 DEF BrowserInv, SentUsable
<1>7. CookieUsable'
  <2> SUFFICES ASSUME cookie' # 0, Family(cookie') \notin shared \cup lost',
                      tokens[cookie'].revoked
               PROVE  \E g \in Handlers : /\ pc'[g] \in {"answer_token", "answer_logout"}
                                          /\ loc'[g].row # 0
                                          /\ Family(loc'[g].row) = Family(cookie')
    BY <1>2 DEF CookieUsable
  <2>1. CASE cookie' = loc[h].new /\ pc[h] = "answer_token"
    BY <2>1 DEF BrowserInv, IssuedUsable, OverlapsNoted
  <2>2. CASE /\ cookie' = cookie
             /\ (pc[h] \in {"answer_token", "answer_logout"} /\ loc[h].row # 0)
                  => Family(loc[h].row) \in lost'
    <3>1. PICK g \in Handlers : /\ pc[g] \in {"answer_token", "answer_logout"}
                                /\ loc[g].row # 0 /\ Family(loc[g].row) = Family(cookie)
      BY <2>2 DEF BrowserInv, CookieUsable
    <3>2. g # h
      BY <2>2, <3>1
    <3> QED
      BY <2>2, <3>1, <3>2
  <2> QED
    BY <2>1, <2>2
<1>8. OnlyDisturbedSessionsFlagged'
  BY <1>2 DEF BrowserInv, OnlyDisturbedSessionsFlagged
<1> QED
  BY <1>3, <1>4, <1>5, <1>6, <1>7, <1>8 DEF BrowserInv

\* Steps of a tab on its own and of the rest of the world.
LEMMA LocalInv ==
  ASSUME BrowserInv, IInv', BrowserTypeOK',
         UNCHANGED <<tokens, pc, loc, origin, delivered, contended, cookie, shared, lost>>,
         \A h \in Handlers : req'[h].cookie = req[h].cookie /\ req'[h].kind = req[h].kind
  PROVE  BrowserInv'
<1>1. \A k : Family(k)' = Family(k)
  BY DEF Family
<1>2. RequestsKnown' /\ OverlapsNoted'
  BY <1>1 DEF BrowserInv, RequestsKnown, OverlapsNoted
<1>3. IssuedUsable' /\ SentUsable'
  BY <1>1 DEF BrowserInv, IssuedUsable, SentUsable
<1>4. CookieUsable' /\ OnlyDisturbedSessionsFlagged'
  BY <1>1 DEF BrowserInv, CookieUsable, OnlyDisturbedSessionsFlagged
<1> QED
  BY <1>2, <1>3, <1>4 DEF BrowserInv

-----------------------------------------------------------------------------
(* The browser's own variables stay well typed *)

LEMMA NoReqType == NoReq \in Req
BY DEF NoReq, Req

LEMMA SendType ==
  ASSUME BrowserInv, NEW h \in Handlers, NEW t \in Tabs,
         NEW kind \in {"login", "refresh", "logout"}, Send(h, t, kind)
  PROVE  req' \in [Handlers -> Req] /\ shared' \subseteq Nat
<1>1. [tab |-> t, kind |-> kind, cookie |-> cookie] \in Req
  BY DEF BrowserInv, BrowserTypeOK, Req
<1>2. cookie # 0 => Family(cookie) \in Nat
  <2> SUFFICES ASSUME cookie # 0 PROVE Family(cookie) \in Nat
    OBVIOUS
  <2>1. cookie \in DOMAIN origin
    BY DEF BrowserInv, RequestsKnown, IInv, Lineage
  <2>2. origin[cookie] \in Origin
    BY <2>1, ElementOfSeq, LenProperties DEF BrowserInv, IInv, TypeOK
  <2> QED
    BY <2>2 DEF Family, Origin
<1> QED
  BY <1>1, <1>2 DEF Send, BrowserInv, BrowserTypeOK

LEMMA SettleType ==
  ASSUME BrowserTypeOK, NEW h \in Handlers, NEW granted \in BOOLEAN, Settle(h, granted)
  PROVE  /\ page' \in [Tabs -> {"loading", "ready"}] /\ access' \in [Tabs -> BOOLEAN]
         /\ promise' \in [Tabs -> BOOLEAN] /\ req' \in [Handlers -> Req] /\ shared' \subseteq Nat
<1>1. access' \in [Tabs -> BOOLEAN]
  BY DEF Settle, BrowserTypeOK
<1>2. promise' \in [Tabs -> BOOLEAN]
  BY DEF Settle, BrowserTypeOK
<1>3. req' \in [Handlers -> Req]
  BY NoReqType DEF Settle, BrowserTypeOK
<1> QED
  BY <1>1, <1>2, <1>3 DEF Settle, BrowserTypeOK

-----------------------------------------------------------------------------
(* The theorems about the browser's session *)

\* The fresh browser and the empty server satisfy the invariant.
LEMMA BrowserInitInv == BrowserInit => BrowserInv
<1> SUFFICES ASSUME BrowserInit PROVE BrowserInv
  OBVIOUS
<1>1. IInv
  BY InitInv DEF BrowserInit
<1>2. BrowserTypeOK
  BY NoReqType DEF BrowserInit, BrowserTypeOK
<1>3. /\ cookie = 0 /\ contended = {} /\ \A h \in Handlers : req[h] = NoReq
      /\ \A h \in Handlers : pc[h] = "idle" /\ loc[h].row = 0
  BY DEF BrowserInit, Init, NoRequest
<1>4. NoReq.cookie = 0 /\ NoReq.kind = "none"
  BY DEF NoReq
<1>5. RequestsKnown /\ OverlapsNoted /\ IssuedUsable
  BY <1>3, <1>4 DEF RequestsKnown, OverlapsNoted, IssuedUsable
<1>6. SentUsable /\ CookieUsable /\ OnlyDisturbedSessionsFlagged
  BY <1>3, <1>4 DEF SentUsable, CookieUsable, OnlyDisturbedSessionsFlagged
<1> QED
  BY <1>1, <1>2, <1>5, <1>6 DEF BrowserInv

\* The browser receives an answer.
LEMMA DeliverInv ==
  ASSUME BrowserInv, IInv', NEW h \in Handlers, Deliver(h)
  PROVE  BrowserInv'
<1>1. /\ pc \in [Handlers -> PC] /\ loc \in [Handlers -> Request]
      /\ UNCHANGED <<tokens, origin, contended, lost>>
      /\ pc[h] \in {"answer_token", "answer_denied", "answer_logout"}
  BY DEF Deliver, Respond, BrowserInv, IInv, TypeOK
<1>2. /\ pc'[h] = "idle" /\ loc'[h].row = 0
      /\ \A g \in Handlers \ {h} : pc'[g] = pc[g] /\ loc'[g] = loc[g]
  BY <1>1 DEF Deliver, Respond, NoRequest
<1>3. delivered \subseteq delivered'
  BY DEF Deliver, Respond
<1>4. \/ cookie' = 0
      \/ cookie' = loc[h].new /\ pc[h] = "answer_token" /\ loc[h].new \in delivered'
      \/ cookie' = cookie /\ pc[h] = "answer_denied"
  BY <1>1 DEF Deliver, Respond
<1>5. PICK granted \in BOOLEAN : Settle(h, granted)
  BY DEF Deliver
<1>6. cookie' \in Nat
  BY <1>1, <1>4 DEF BrowserInv, BrowserTypeOK, Request
<1>7. BrowserTypeOK'
  BY <1>1, <1>5, <1>6, SettleType DEF BrowserInv, BrowserTypeOK
<1>8. req' = [req EXCEPT ![h] = NoReq] /\ shared' = shared
  BY <1>5 DEF Settle
<1> QED
  BY <1>1, <1>2, <1>3, <1>4, <1>7, <1>8, EndInv

\* A request or its answer is lost, or a logout finds no cookie to act on.
LEMMA UnansweredInv ==
  ASSUME BrowserInv, IInv', NEW h \in Handlers, Lose(h) \/ LogoutWithoutCookie(h)
  PROVE  BrowserInv'
<1>1. /\ pc \in [Handlers -> PC] /\ loc \in [Handlers -> Request]
      /\ UNCHANGED <<tokens, origin, delivered, contended>>
  BY DEF Lose, LogoutWithoutCookie, Fail, vars, BrowserInv, IInv, TypeOK
<1>2. \A g \in Handlers : pc[g] = "idle" => loc[g].row = 0
  BY KnownRows
<1>3. /\ pc'[h] = "idle" /\ loc'[h].row = 0
      /\ \A g \in Handlers \ {h} : pc'[g] = pc[g] /\ loc'[g] = loc[g]
  <2>1. CASE Fail(h)
    BY <1>1, <2>1 DEF Fail, NoRequest
  <2>2. CASE pc[h] = "idle" /\ UNCHANGED <<pc, loc>>
    BY <1>2, <2>2
  <2> QED
    BY <2>1, <2>2 DEF Lose, LogoutWithoutCookie, vars
<1>4. Settle(h, FALSE)
  BY DEF Lose, LogoutWithoutCookie
<1>5. req' = [req EXCEPT ![h] = NoReq] /\ shared' = shared
  BY <1>4 DEF Settle
<1>6. /\ lost \subseteq lost' /\ lost' \subseteq Nat /\ cookie' \in Nat
      /\ \/ cookie' = 0
         \/ /\ cookie' = cookie
            /\ (pc[h] \in {"answer_token", "answer_logout"} /\ loc[h].row # 0)
                 => Family(loc[h].row) \in lost'
  <2>1. CASE LogoutWithoutCookie(h)
    BY <2>1 DEF LogoutWithoutCookie, BrowserInv, BrowserTypeOK
  <2>2. CASE Lose(h)
    <3>1. cookie' = cookie /\ lost' = lost \cup {Family(i) : i \in {req[h].cookie} \ {0}}
      BY <2>2 DEF Lose
    <3>2. loc[h].row # 0 => loc[h].row = req[h].cookie
      BY DEF BrowserInv, RequestsKnown
    <3>3. ASSUME req[h].cookie # 0 PROVE Family(req[h].cookie) \in Nat
      <4>1. req[h].cookie \in DOMAIN origin
        BY <3>3 DEF BrowserInv, RequestsKnown, IInv, Lineage
      <4>2. origin[req[h].cookie] \in Origin
        BY <4>1, ElementOfSeq, LenProperties DEF BrowserInv, IInv, TypeOK
      <4> QED
        BY <4>2 DEF Family, Origin
    <3>4. lost \subseteq Nat /\ cookie \in Nat
      BY DEF BrowserInv, BrowserTypeOK
    <3> QED
      BY <3>1, <3>2, <3>3, <3>4
  <2> QED
    BY <2>1, <2>2
<1>7. BrowserTypeOK'
  BY <1>4, <1>6, SettleType DEF BrowserInv, BrowserTypeOK
<1> QED
  BY <1>1, <1>3, <1>5, <1>6, <1>7, EndInv

\* A tab sends a request.
LEMMA SendsInv ==
  ASSUME BrowserInv, IInv', NEW h \in Handlers, NEW t \in Tabs,
         SendRefresh(h, t) \/ SendLogin(h, t) \/ SendLogout(h, t)
  PROVE  BrowserInv'
<1>1. UNCHANGED <<tokens, pc, loc, origin, delivered, contended, cookie, lost>>
  BY DEF SendRefresh, SendLogin, SendLogout, vars
<1>2. PICK kind \in {"login", "refresh", "logout"} :
           Send(h, t, kind) /\ (kind = "refresh" => cookie # 0)
  BY DEF SendRefresh, SendLogin, SendLogout
<1>3. req' \in [Handlers -> Req] /\ shared' \subseteq Nat
  BY <1>2, SendType
<1>4. /\ page' \in [Tabs -> {"loading", "ready"}] /\ access' \in [Tabs -> BOOLEAN]
      /\ promise' \in [Tabs -> BOOLEAN]
  BY DEF SendRefresh, SendLogin, SendLogout, BrowserInv, BrowserTypeOK
<1>5. BrowserTypeOK'
  BY <1>1, <1>3, <1>4 DEF BrowserInv, BrowserTypeOK
<1> QED
  BY <1>1, <1>2, <1>5, SendInv

\* A tab reloads or finds no cookie, time passes, an account is suspended.
LEMMA LocalsInv ==
  ASSUME BrowserInv, IInv',
         \/ World
         \/ UNCHANGED allvars
         \/ \E t \in Tabs : RefreshWithoutCookie(t) \/ Reload(t)
  PROVE  BrowserInv'
<1>1. UNCHANGED <<tokens, pc, loc, origin, delivered, contended, cookie, shared, lost>>
  BY DEF World, Tick, UserStatusChanges, RefreshWithoutCookie, Reload, vars, browser, allvars
<1>2. /\ req' \in [Handlers -> Req]
      /\ \A h \in Handlers : req'[h].cookie = req[h].cookie /\ req'[h].kind = req[h].kind
  <2>0. req \in [Handlers -> Req]
    BY DEF BrowserInv, BrowserTypeOK
  <2>1. CASE req' = req
    BY <2>0, <2>1
  <2>2. ASSUME NEW t \in Tabs, Reload(t)
        PROVE  /\ req' \in [Handlers -> Req]
               /\ \A h \in Handlers : req'[h].cookie = req[h].cookie /\ req'[h].kind = req[h].kind
    <3>1. ASSUME NEW h \in Handlers
          PROVE  /\ req'[h] \in Req
                 /\ req'[h].cookie = req[h].cookie /\ req'[h].kind = req[h].kind
      <4>1. PICK q, m : q = req[h] /\ m = [q EXCEPT !.tab = NoTab]
        OBVIOUS
      <4>2. q \in Req /\ m \in Req /\ m.cookie = q.cookie /\ m.kind = q.kind
        BY <2>0, <4>1 DEF Req
      <4>3. req'[h] = q \/ req'[h] = m
        BY <2>2, <4>1 DEF Reload
      <4> QED
        BY <4>1, <4>2, <4>3
    <3>2. req' = [h \in Handlers |-> req'[h]]
      BY <2>2 DEF Reload
    <3> QED
      BY <3>1, <3>2
  <2> QED
    BY <2>1, <2>2 DEF World, RefreshWithoutCookie, browser, allvars
<1>3. /\ page' \in [Tabs -> {"loading", "ready"}] /\ access' \in [Tabs -> BOOLEAN]
      /\ promise' \in [Tabs -> BOOLEAN]
  BY DEF World, RefreshWithoutCookie, Reload, browser, allvars, BrowserInv, BrowserTypeOK
<1>4. BrowserTypeOK'
  BY <1>1, <1>2, <1>3 DEF BrowserInv, BrowserTypeOK
<1> QED
  BY <1>1, <1>2, <1>4, LocalInv

LEMMA BrowserNextInv == BrowserInv /\ [BrowserNext]_allvars => BrowserInv'
<1> SUFFICES ASSUME BrowserInv, [BrowserNext]_allvars PROVE BrowserInv'
  OBVIOUS
<1>0. IInv'
  BY ServerStep, NextInv DEF BrowserInv
<1>1. ASSUME NEW h \in Handlers, Arrive(h) PROVE BrowserInv'
  BY <1>0, <1>1, ArriveInv
<1>2. ASSUME NEW h \in Handlers, Serve(h) PROVE BrowserInv'
  <2>1. ServesOne(h)
    BY <1>2, ServeIssue, ServeRead, ServeRevoke DEF Serve, BrowserInv
  <2>2. BrowserTypeOK'
    BY <1>2 DEF Serve, BrowserInv, BrowserTypeOK, browser
  <2> QED
    BY <1>0, <2>1, <2>2, ServeInv
<1>3. ASSUME NEW h \in Handlers, Deliver(h) \/ LogoutWithoutCookie(h) \/ Lose(h)
      PROVE  BrowserInv'
  BY <1>0, <1>3, DeliverInv, UnansweredInv
<1>4. ASSUME NEW h \in Handlers, NEW t \in Tabs,
             SendRefresh(h, t) \/ SendLogin(h, t) \/ SendLogout(h, t)
      PROVE  BrowserInv'
  BY <1>0, <1>4, SendsInv
<1>5. ASSUME \/ World
             \/ UNCHANGED allvars
             \/ \E t \in Tabs : RefreshWithoutCookie(t) \/ Reload(t)
      PROVE  BrowserInv'
  BY <1>0, <1>5, LocalsInv
<1> QED
  BY <1>1, <1>2, <1>3, <1>4, <1>5 DEF BrowserNext, Answer

\* The invariant of the browser and its server.
THEOREM BrowserInvariance == BrowserSpec => []BrowserInv
BY BrowserInitInv, BrowserNextInv, PTL DEF BrowserSpec

\* With this browser the server takes only steps of RefreshTokens, so what is
\* proved about its safety holds of every browser's session.
THEOREM BrowserDrivesServer == BrowserSpec => Init /\ [][Next]_vars
<1>1. BrowserInit => Init
  BY DEF BrowserInit
<1>2. BrowserInv /\ [BrowserNext]_allvars => [Next]_vars
  BY ServerStep DEF BrowserInv
<1> QED
  BY <1>1, <1>2, BrowserInvariance, PTL DEF BrowserSpec

\* In a session without overlapping or lost requests the cookie is a token the
\* server accepts, whenever no request is outstanding.
THEOREM CookieStaysInStep == BrowserSpec => []CookieInStep
<1>1. BrowserInv => CookieInStep
  <2> SUFFICES ASSUME BrowserInv, cookie # 0, Outstanding(Family(cookie)) = {},
                      Family(cookie) \notin shared \cup lost
               PROVE  ~ tokens[cookie].revoked
    BY DEF CookieInStep
  <2>1. ASSUME NEW h \in Handlers, loc[h].row # 0, Family(loc[h].row) = Family(cookie)
        PROVE  FALSE
    <3>1. req[h].cookie = loc[h].row
      BY <2>1 DEF BrowserInv, RequestsKnown
    <3>2. h \in Outstanding(Family(cookie))
      BY <2>1, <3>1 DEF Outstanding
    <3> QED
      BY <3>2
  <2> QED
    BY <2>1 DEF BrowserInv, CookieUsable
<1> QED
  BY <1>1, BrowserInvariance, PTL

\* A session whose requests never overlapped or got lost is never taken for stolen.
THEOREM UndisturbedNeverFlagged == BrowserSpec => []OnlyDisturbedSessionsFlagged
<1>1. BrowserInv => OnlyDisturbedSessionsFlagged
  BY DEF BrowserInv
<1> QED
  BY <1>1, BrowserInvariance, PTL
=============================================================================
