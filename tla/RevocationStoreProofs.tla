----------------------- MODULE RevocationStoreProofs -----------------------
(***************************************************************************)
(* The safety properties of the revocation store for every set of tokens,  *)
(* threads and workers, every clock bound and every number of faults.      *)
(***************************************************************************)
EXTENDS RevocationProperties, TLAPS

LEMMA TypeInit == Init => TypeOK
BY ClockAssumption, NameAssumption
DEF Init, TypeOK, CallStates, ResyncStates, ClockAssumption, NameAssumption

(* The threads that Release names become idle with their defaults. *)
LEMMA ReleaseType ==
  ASSUME TypeOK, NEW C \in SUBSET Caller, Release(C)
  PROVE  /\ pc' \in [Caller -> CallStates]
         /\ tok' \in [Caller -> Token \cup {NoToken}]
         /\ arg' \in [Caller -> Nat \cup {NoExp}]
         /\ \A c \in Caller : pc'[c] = "idle" <=> tok'[c] = NoToken
BY DEF TypeOK, Release, CallStates

LEMMA EndPassType ==
  ASSUME TypeOK, NEW w \in Worker, EndPass(w)
  PROVE  /\ rpc' \in [Worker -> ResyncStates]
         /\ left' \in [Worker -> [Token -> Nat]]
         /\ cur' \in [Worker -> Token \cup {NoToken}]
         /\ serving' \in [Worker -> BOOLEAN]
BY DEF TypeOK, EndPass, ResyncStates

(* A TTL is a positive number of seconds. *)
LEMMA TtlType ==
  ASSUME TypeOK, NEW e \in Nat \cup {NoExp}, NEW clk \in ClockReads
  PROVE  TtlFor(e, clk) \in Nat
BY ClockAssumption, NameAssumption
DEF TypeOK, TtlFor, ClockReads, ClockAssumption, NameAssumption

LEMMA CallStepType ==
  ASSUME TypeOK, NEW c \in Caller, CallStep(c)
  PROVE  TypeOK'
<1> USE DEF TypeOK, callVars, resyncVars, dbVars, linkVars, CallStates
<1>1. ASSUME NEW t \in Token, NEW e \in Nat \cup {NoExp}, Call(c, t, e)
      PROVE  TypeOK'
  BY <1>1, NameAssumption DEF Call, FirstStep, NameAssumption
<1>2. ASSUME InsertRow(tok[c], arg[c]), tok[c] \in Token
      PROVE  /\ rowExp' \in [Token -> Nat \cup {NoExp, NoRow}]
             /\ revokedAt' \in [Token -> Nat]
  BY <1>2 DEF InsertRow
<1>3. CASE InsertDone(c)
  BY <1>2, <1>3 DEF InsertDone
<1>4. CASE InsertRefused(c)
  BY <1>4 DEF InsertRefused
<1>5. CASE InsertInDoubt(c)
  BY <1>2, <1>5 DEF InsertInDoubt
<1>6. CASE CacheDone(c)
  <2>1. tok[c] \in Token
    BY <1>6 DEF CacheDone
  <2>2. PICK clk \in ClockReads : SetKey(tok[c], TtlFor(arg[c], clk))
    BY <1>6 DEF CacheDone
  <2>3. TtlFor(arg[c], clk) \in Nat
    BY <2>2, TtlType
  <2>4. cache' \in [Token -> Nat] /\ missed' \subseteq Token
    BY <2>1, <2>2, <2>3 DEF SetKey
  <2>5. QED
    BY <1>6, <2>4 DEF CacheDone
<1>7. CASE CacheRefused(c)
  BY <1>7 DEF CacheRefused
<1>8. CASE ReplyRevoked(c)
  <2>1. tok[c] \in Token
    BY <1>8 DEF ReplyRevoked
  <2>2. QED
    BY <1>8, <2>1, ReleaseType DEF ReplyRevoked
<1>9. CASE ReplyNotPersisted(c)
  BY <1>9, ReleaseType DEF ReplyNotPersisted
<1>10. \A t \in Token : Exp[t] \in Nat
  BY ClockAssumption DEF ClockAssumption
<1>11. QED
  BY <1>1, <1>3, <1>4, <1>5, <1>6, <1>7, <1>8, <1>9, <1>10 DEF CallStep

LEMMA ResyncStepType ==
  ASSUME TypeOK, NEW w \in Worker, ResyncStep(w)
  PROVE  TypeOK'
<1> USE DEF TypeOK, callVars, resyncVars, dbVars, linkVars, ResyncStates
<1>1. CASE Start(w)
  BY <1>1 DEF Start
<1>2. CASE ResyncWake(w)
  BY <1>2 DEF ResyncWake
<1>3. CASE ResyncRead(w)
  <2>1. PICK clk \in ClockReads, round \in [Token -> 0..1] :
          left' = [left EXCEPT ![w] =
                     [t \in Token |-> IF Active(t) THEN Remaining(ReportedExp(t, round[t]), clk)
                                      ELSE 0]]
    BY <1>3 DEF ResyncRead
  <2>2. ASSUME NEW t \in Token, Active(t)
        PROVE  Remaining(ReportedExp(t, round[t]), clk) \in Nat
    BY <2>2, ClockAssumption
    DEF Remaining, ReportedExp, Active, HasRow, ClockReads, ClockAssumption
  <2>3. left' \in [Worker -> [Token -> Nat]]
    BY <2>1, <2>2
  <2>4. QED
    BY <1>3, <2>3 DEF ResyncRead
<1>4. CASE ResyncNoRows(w)
  BY <1>4, EndPassType DEF ResyncNoRows
<1>5. ASSUME NEW t \in Token, ResyncPresent(w, t)
      PROVE  TypeOK'
  BY <1>5 DEF ResyncPresent
<1>6. ASSUME NEW t \in Token, ResyncMissing(w, t)
      PROVE  TypeOK'
  BY <1>6 DEF ResyncMissing
<1>7. CASE ResyncSet(w)
  BY <1>7 DEF ResyncSet, SetKey
<1>8. CASE ResyncAbort(w)
  BY <1>8, EndPassType DEF ResyncAbort
<1>9. CASE ResyncEnd(w)
  BY <1>9, EndPassType DEF ResyncEnd
<1>10. QED
  BY <1>1, <1>2, <1>3, <1>4, <1>5, <1>6, <1>7, <1>8, <1>9 DEF ResyncStep

LEMMA OtherStepType ==
  ASSUME TypeOK, Tick \/ Fault \/ Recovery \/ UNCHANGED vars
  PROVE  TypeOK'
<1> USE DEF TypeOK, callVars, resyncVars, dbVars, linkVars
<1>1. CASE Tick
  BY <1>1 DEF Tick
<1>2. CASE DbDown \/ RedisDown \/ Recovery
  <2>1. dbUp' \in BOOLEAN /\ redisUp' \in BOOLEAN
    BY <1>2, Zenon DEF DbDown, RedisDown, Recovery, DbRecover, RedisRecover
  <2>2. faults' \in Nat
    BY <1>2 DEF DbDown, RedisDown, Recovery, DbRecover, RedisRecover
  <2>3. UNCHANGED <<now, dbVars, cache, serving, callVars, resyncVars, acked, missed>>
    BY <1>2 DEF DbDown, RedisDown, Recovery, DbRecover, RedisRecover
  <2>4. QED
    BY <2>1, <2>2, <2>3
<1>3. ASSUME NEW lost \in SUBSET Token, RedisLoss(lost)
      PROVE  TypeOK'
  BY <1>3 DEF RedisLoss
<1>4. ASSUME NEW w \in Worker, WorkerStop(w)
      PROVE  TypeOK'
  <2>1. {c \in Caller : Host[c] = w} \in SUBSET Caller
    OBVIOUS
  <2>2. Release({c \in Caller : Host[c] = w})
    BY <1>4 DEF WorkerStop
  <2>3. /\ pc' \in [Caller -> CallStates]
        /\ tok' \in [Caller -> Token \cup {NoToken}]
        /\ arg' \in [Caller -> Nat \cup {NoExp}]
        /\ \A c \in Caller : pc'[c] = "idle" <=> tok'[c] = NoToken
    BY <2>1, <2>2, ReleaseType
  <2>4. QED
    BY <1>4, <2>3 DEF WorkerStop, ResyncStates
<1>5. CASE UNCHANGED vars
  BY <1>5 DEF vars
<1>6. QED
  BY <1>1, <1>2, <1>3, <1>4, <1>5 DEF Fault

LEMMA TypeStep == TypeOK /\ [Next]_vars => TypeOK'
BY CallStepType, ResyncStepType, OtherStepType DEF Next

(* Every variable of the store keeps its type: in particular an idle       *)
(* thread, and only an idle one, holds no token.                           *)
THEOREM TypeCorrect == Spec => []TypeOK
BY TypeInit, TypeStep, PTL DEF Spec
-----------------------------------------------------------------------------
(* The inductive invariant *)

LEMMA InvInit == Init => IInv
<1> SUFFICES ASSUME Init PROVE IInv
  OBVIOUS
<1>1. TypeOK
  BY TypeInit
<1>2. QED
  BY <1>1
  DEF Init, IInv, RowsInv, CallsInv, PassInv, KeysInv, AckedIsDurable, AckedIsVisible, Cached

(* A key written by revoke() lives past the token's last honoured second:  *)
(* the grace covers the leeway and the second int() may drop.              *)
LEMMA TtlOutlives ==
  ASSUME TypeOK, NEW t \in Token, NEW e \in {NoExp, Exp[t]}, NEW clk \in ClockReads
  PROVE  TtlFor(e, clk) \in Nat /\ now + TtlFor(e, clk) > Exp[t] + Leeway
<1>1. Exp[t] \in Nat /\ now \in Nat /\ clk \in {now, now + 1}
  BY ClockAssumption DEF TypeOK, ClockAssumption, ClockReads
<1>2. CASE e = NoExp
  BY <1>1, <1>2, ClockAssumption DEF TtlFor, ClockAssumption
<1>3. CASE e = Exp[t]
  BY <1>1, <1>3, ClockAssumption, NameAssumption DEF TtlFor, ClockAssumption, NameAssumption
<1>4. QED
  BY <1>2, <1>3

(* So does a key written by a resync pass, however late it is written.     *)
LEMMA RemainingOutlives ==
  ASSUME TypeOK, RowsInv, NEW t \in Token, HasRow(t), NEW r \in 0..1, NEW clk \in ClockReads
  PROVE  /\ Remaining(ReportedExp(t, r), clk) \in Nat
         /\ Remaining(ReportedExp(t, r), clk) # 0 =>
                now + Remaining(ReportedExp(t, r), clk) > Exp[t] + Leeway
<1>1. /\ Exp[t] \in Nat /\ now \in Nat /\ clk \in {now, now + 1}
      /\ revokedAt[t] \in Nat /\ r \in {0, 1}
  BY ClockAssumption DEF TypeOK, ClockAssumption, ClockReads
<1>2. CASE rowExp[t] = NoExp
  BY <1>1, <1>2, ClockAssumption DEF Remaining, ReportedExp, ClockAssumption
<1>3. CASE rowExp[t] = Exp[t]
  BY <1>1, <1>3, ClockAssumption, NameAssumption
  DEF Remaining, ReportedExp, ClockAssumption, NameAssumption
<1>4. QED
  BY <1>2, <1>3 DEF RowsInv, HasRow

(* An insert adds the token's row, if it is missing, and no other.         *)
LEMMA InsertKeeps ==
  ASSUME IInv, NEW c \in Caller, pc[c] = "insert", InsertRow(tok[c], arg[c])
  PROVE  /\ tok[c] \in Token
         /\ RowsInv'
         /\ rowExp'[tok[c]] # NoRow
         /\ \A t \in Token : HasRow(t) => HasRow(t)'
<1>1. tok[c] \in Token /\ arg[c] \in {NoExp, Exp[tok[c]]} /\ Exp[tok[c]] \in Nat
  BY ClockAssumption DEF IInv, TypeOK, CallsInv, CallStates, ClockAssumption
<1>2. arg[c] # NoRow
  BY <1>1, NameAssumption DEF NameAssumption
<1>3. CASE HasRow(tok[c])
  BY <1>1, <1>3 DEF InsertRow, IInv, RowsInv, HasRow, dbVars
<1>4. CASE ~HasRow(tok[c])
  BY <1>1, <1>2, <1>4 DEF InsertRow, IInv, TypeOK, RowsInv, HasRow
<1>5. QED
  BY <1>1, <1>3, <1>4

LEMMA CallStepInv ==
  ASSUME IInv, NEW c \in Caller, CallStep(c)
  PROVE  IInv'
<1> USE DEF callVars, resyncVars, dbVars, linkVars
<1>1. TypeOK /\ TypeOK'
  BY CallStepType DEF IInv
<1>2. ASSUME NEW t \in Token, NEW e \in {NoExp, Exp[t]}, Call(c, t, e)
      PROVE  IInv'
  <2>1. CallsInv'
    BY <1>1, <1>2 DEF Call, FirstStep, IInv, TypeOK, CallsInv, HasRow, Cached, Accepted
  <2>2. QED
    BY <1>1, <1>2, <2>1
    DEF Call, IInv, RowsInv, PassInv, KeysInv, AckedIsDurable, AckedIsVisible,
        HasRow, Cached, Accepted
<1>3. CASE InsertDone(c)
  <2>1. /\ tok[c] \in Token /\ RowsInv' /\ rowExp'[tok[c]] # NoRow
        /\ \A t \in Token : HasRow(t) => HasRow(t)'
    BY <1>3, InsertKeeps DEF InsertDone
  <2>2. CallsInv'
    BY <1>1, <1>3, <2>1 DEF InsertDone, IInv, TypeOK, CallsInv, HasRow, Cached, Accepted
  <2>3. PassInv' /\ AckedIsDurable'
    BY <1>3, <2>1 DEF InsertDone, IInv, PassInv, AckedIsDurable, Cached
  <2>4. QED
    BY <1>1, <1>3, <2>1, <2>2, <2>3
    DEF InsertDone, IInv, KeysInv, AckedIsVisible, Cached, Accepted
<1>4. CASE InsertRefused(c)
  <2>1. CallsInv'
    BY <1>1, <1>4 DEF InsertRefused, IInv, TypeOK, CallsInv, HasRow, Cached, Accepted
  <2>2. QED
    BY <1>1, <1>4, <2>1
    DEF InsertRefused, IInv, RowsInv, PassInv, KeysInv, AckedIsDurable, AckedIsVisible,
        HasRow, Cached, Accepted
<1>5. CASE InsertInDoubt(c)
  <2>1. /\ tok[c] \in Token /\ RowsInv' /\ rowExp'[tok[c]] # NoRow
        /\ \A t \in Token : HasRow(t) => HasRow(t)'
    BY <1>5, InsertKeeps DEF InsertInDoubt
  <2>2. CallsInv'
    BY <1>1, <1>5, <2>1 DEF InsertInDoubt, IInv, TypeOK, CallsInv, HasRow, Cached, Accepted
  <2>3. PassInv' /\ AckedIsDurable'
    BY <1>5, <2>1 DEF InsertInDoubt, IInv, PassInv, AckedIsDurable, Cached
  <2>4. QED
    BY <1>1, <1>5, <2>1, <2>2, <2>3
    DEF InsertInDoubt, IInv, KeysInv, AckedIsVisible, Cached, Accepted
<1>6. CASE CacheDone(c)
  <2>1. PICK clk \in ClockReads : SetKey(tok[c], TtlFor(arg[c], clk))
    BY <1>6 DEF CacheDone
  <2>2. tok[c] \in Token /\ arg[c] \in {NoExp, Exp[tok[c]]} /\ (UseDB => HasRow(tok[c]))
    BY <1>6 DEF CacheDone, IInv, TypeOK, CallsInv
  <2>3. cache'[tok[c]] \in Nat /\ cache'[tok[c]] > Exp[tok[c]] + Leeway
    BY <1>1, <2>1, <2>2, TtlOutlives DEF SetKey, TypeOK
  <2>4. Exp[tok[c]] + Leeway \in Nat
    BY <2>2, ClockAssumption DEF ClockAssumption
  <2>5. cache'[tok[c]] # 0
    BY <2>3, <2>4 DEF Cached
  <2>6. \A t \in Token \ {tok[c]} : cache'[t] = cache[t] /\ (t \in missed' <=> t \in missed)
    BY <1>1, <2>1 DEF SetKey, TypeOK
  <2>7. CallsInv'
    BY <1>1, <1>6, <2>2, <2>5, <2>6
    DEF CacheDone, IInv, TypeOK, CallsInv, HasRow, Cached, Accepted
  <2>8. KeysInv'
    BY <2>3, <2>6 DEF IInv, KeysInv, Cached
  <2>9. AckedIsDurable'
    BY <1>6, <2>2, <2>6 DEF CacheDone, IInv, AckedIsDurable, HasRow, Cached
  <2>10. AckedIsVisible'
    BY <1>1, <1>6, <2>5, <2>6 DEF CacheDone, IInv, TypeOK, AckedIsVisible, Cached, Accepted
  <2>11. QED
    BY <1>1, <1>6, <2>7, <2>8, <2>9, <2>10 DEF CacheDone, IInv, RowsInv, PassInv, HasRow
<1>7. CASE CacheRefused(c)
  <2>1. CallsInv'
    BY <1>1, <1>7 DEF CacheRefused, IInv, TypeOK, CallsInv, HasRow, Cached, Accepted
  <2>2. AckedIsVisible'
    BY <1>7 DEF CacheRefused, IInv, AckedIsVisible, Cached, Accepted
  <2>3. QED
    BY <1>1, <1>7, <2>1, <2>2
    DEF CacheRefused, IInv, RowsInv, PassInv, KeysInv, AckedIsDurable, HasRow, Cached
<1>8. CASE ReplyRevoked(c)
  <2>1. /\ tok[c] \in Token /\ (UseDB => HasRow(tok[c]))
        /\ Accepted(tok[c]) /\ tok[c] \notin missed => Cached(tok[c])
    BY <1>8 DEF ReplyRevoked, IInv, TypeOK, CallsInv
  <2>2. CallsInv'
    BY <1>8 DEF ReplyRevoked, Release, IInv, CallsInv, HasRow, Cached, Accepted
  <2>3. AckedIsDurable' /\ AckedIsVisible'
    BY <1>8, <2>1
    DEF ReplyRevoked, IInv, AckedIsDurable, AckedIsVisible, HasRow, Cached, Accepted
  <2>4. QED
    BY <1>1, <1>8, <2>2, <2>3
    DEF ReplyRevoked, IInv, RowsInv, PassInv, KeysInv, HasRow, Cached
<1>9. CASE ReplyNotPersisted(c)
  <2>1. CallsInv'
    BY <1>9 DEF ReplyNotPersisted, Release, IInv, CallsInv, HasRow, Cached, Accepted
  <2>2. QED
    BY <1>1, <1>9, <2>1
    DEF ReplyNotPersisted, IInv, RowsInv, PassInv, KeysInv, AckedIsDurable, AckedIsVisible,
        HasRow, Cached, Accepted
<1>10. QED
  BY <1>2, <1>3, <1>4, <1>5, <1>6, <1>7, <1>8, <1>9 DEF CallStep

(* A step that ends or empties a pass and leaves the rest of the store.    *)
LEMMA PassKeeps ==
  ASSUME IInv, TypeOK',
         UNCHANGED <<now, dbVars, cache, callVars, acked, missed>>, PassInv'
  PROVE  IInv'
BY DEF IInv, RowsInv, CallsInv, KeysInv, AckedIsDurable, AckedIsVisible,
       HasRow, Cached, Accepted, dbVars, callVars

LEMMA EndPassInv ==
  ASSUME IInv, NEW w \in Worker, EndPass(w), UNCHANGED <<now, dbVars>>
  PROVE  PassInv'
BY NameAssumption DEF EndPass, IInv, TypeOK, PassInv, HasRow, dbVars, NameAssumption

LEMMA ResyncStepInv ==
  ASSUME IInv, NEW w \in Worker, ResyncStep(w)
  PROVE  IInv'
<1> USE DEF callVars, resyncVars, dbVars, linkVars
<1>1. TypeOK /\ TypeOK'
  BY ResyncStepType DEF IInv
<1>2. CASE Start(w) \/ ResyncWake(w)
  <2>1. UNCHANGED <<now, dbVars, cache, callVars, acked, missed, left, cur>>
    BY <1>2 DEF Start, ResyncWake
  <2>2. PassInv'
    BY <1>1, <1>2, <2>1 DEF Start, ResyncWake, IInv, TypeOK, PassInv, HasRow
  <2>3. QED
    BY <1>1, <2>1, <2>2, PassKeeps
<1>3. CASE ResyncRead(w)
  <2>1. PICK clk \in ClockReads, round \in [Token -> 0..1] :
          left' = [left EXCEPT ![w] =
                     [t \in Token |-> IF Active(t) THEN Remaining(ReportedExp(t, round[t]), clk)
                                      ELSE 0]]
    BY <1>3 DEF ResyncRead
  <2>2. ASSUME NEW t \in Token, left'[w][t] # 0
        PROVE  HasRow(t) /\ now + left'[w][t] > Exp[t] + Leeway
    <3>1. Active(t) /\ left'[w][t] = Remaining(ReportedExp(t, round[t]), clk)
      BY <1>1, <2>1, <2>2 DEF TypeOK
    <3>2. HasRow(t)
      BY <3>1 DEF Active
    <3>3. round[t] \in 0..1
      BY <2>1
    <3>4. QED
      BY <1>1, <2>1, <2>2, <3>1, <3>2, <3>3, RemainingOutlives DEF IInv
  <2>3. \A v \in Worker \ {w} : left'[v] = left[v]
    BY <1>1, <2>1 DEF TypeOK
  <2>4. /\ UNCHANGED <<now, dbVars, cache, callVars, acked, missed, cur>>
        /\ \A v \in Worker \ {w} : rpc'[v] = rpc[v]
    BY <1>1, <1>3 DEF ResyncRead, TypeOK
  <2>5. cur[w] = NoToken
    BY <1>3 DEF ResyncRead, IInv, TypeOK, PassInv
  <2>6. PassInv'
    BY <2>2, <2>3, <2>4, <2>5 DEF IInv, PassInv, HasRow
  <2>7. QED
    BY <1>1, <2>4, <2>6, PassKeeps
<1>4. CASE ResyncNoRows(w) \/ ResyncAbort(w) \/ ResyncEnd(w)
  <2>1. EndPass(w) /\ UNCHANGED <<now, dbVars, cache, callVars, acked, missed>>
    BY <1>4 DEF ResyncNoRows, ResyncAbort, ResyncEnd
  <2>2. QED
    BY <1>1, <2>1, EndPassInv, PassKeeps
<1>5. ASSUME NEW t \in Token, ResyncPresent(w, t)
      PROVE  IInv'
  <2>1. UNCHANGED <<now, dbVars, cache, callVars, acked, missed, cur>>
    BY <1>5 DEF ResyncPresent
  <2>2. PassInv'
    BY <1>1, <1>5 DEF ResyncPresent, IInv, TypeOK, PassInv, HasRow
  <2>3. QED
    BY <1>1, <2>1, <2>2, PassKeeps
<1>6. ASSUME NEW t \in Token, ResyncMissing(w, t)
      PROVE  IInv'
  <2>1. UNCHANGED <<now, dbVars, cache, callVars, acked, missed>>
    BY <1>6 DEF ResyncMissing
  <2>2. PassInv'
    BY <1>1, <1>6 DEF ResyncMissing, IInv, TypeOK, PassInv, HasRow
  <2>3. QED
    BY <1>1, <2>1, <2>2, PassKeeps
<1>7. CASE ResyncSet(w)
  <2> PICK t \in Token : t = cur[w]
    BY <1>7 DEF ResyncSet, IInv, TypeOK
  <2>1. HasRow(t) /\ left[w][t] \in Nat /\ now + left[w][t] > Exp[t] + Leeway
    BY <1>7 DEF ResyncSet, IInv, TypeOK, PassInv
  <2>2. cache' = [cache EXCEPT ![t] = now + left[w][t]] /\ missed' = missed \ {t}
    BY <1>7 DEF ResyncSet, SetKey
  <2>3. Exp[t] + Leeway \in Nat /\ now \in Nat
    BY <1>1, <2>1, ClockAssumption DEF ClockAssumption, TypeOK
  <2>4. cache'[t] > Exp[t] + Leeway /\ Cached(t)'
    BY <1>1, <2>1, <2>2, <2>3 DEF TypeOK, Cached
  <2>5. \A u \in Token \ {t} : cache'[u] = cache[u] /\ (u \in missed' <=> u \in missed)
    BY <1>1, <2>2 DEF TypeOK
  <2>6. UNCHANGED <<now, dbVars, callVars, acked>>
    BY <1>7 DEF ResyncSet
  <2>7. PassInv'
    BY <1>1, <1>7, NameAssumption DEF ResyncSet, IInv, TypeOK, PassInv, HasRow, NameAssumption
  <2>8. KeysInv'
    BY <2>4, <2>5 DEF IInv, KeysInv, Cached
  <2>9. AckedIsDurable'
    BY <2>1, <2>5, <2>6 DEF IInv, AckedIsDurable, HasRow, Cached
  <2>10. AckedIsVisible'
    BY <1>1, <2>4, <2>5, <2>6 DEF IInv, TypeOK, AckedIsVisible, Cached, Accepted
  <2>11. CallsInv'
    <3> SUFFICES ASSUME NEW c \in Caller, pc[c] = "reply", Accepted(tok[c]), tok[c] \notin missed'
                 PROVE  cache'[tok[c]] # 0
      BY <2>6 DEF IInv, CallsInv, HasRow, Cached, Accepted
    <3>1. tok[c] \in Token
      BY <1>1 DEF TypeOK
    <3>2. CASE tok[c] = t
      BY <2>4, <3>2 DEF Cached
    <3>3. CASE tok[c] # t
      BY <2>5, <3>1, <3>3 DEF IInv, CallsInv, Cached
    <3>4. QED
      BY <3>2, <3>3
  <2>12. QED
    BY <1>1, <2>6, <2>7, <2>8, <2>9, <2>10, <2>11 DEF IInv, RowsInv
<1>8. QED
  BY <1>2, <1>3, <1>4, <1>5, <1>6, <1>7 DEF ResyncStep

LEMMA OtherStepInv ==
  ASSUME IInv, Tick \/ Fault \/ Recovery \/ UNCHANGED vars
  PROVE  IInv'
<1> USE DEF callVars, resyncVars, dbVars, linkVars
<1>1. TypeOK /\ TypeOK'
  BY OtherStepType DEF IInv
<1>2. CASE Tick
  <2>1. /\ now' = now + 1 /\ now \in Nat
        /\ UNCHANGED <<dbVars, callVars, resyncVars, acked, missed>>
        /\ \A t \in Token : cache'[t] = IF cache[t] <= now + 1 THEN 0 ELSE cache[t]
    BY <1>1, <1>2 DEF Tick, TypeOK
  <2>2. ASSUME NEW t \in Token
        PROVE  /\ Cached(t)' => Cached(t) /\ cache'[t] = cache[t]
               /\ Cached(t) /\ Accepted(t)' => Cached(t)'
               /\ Accepted(t)' => Accepted(t)
    <3>1. cache[t] \in Nat /\ Exp[t] \in Nat /\ Leeway \in Nat
      BY <1>1, ClockAssumption DEF TypeOK, ClockAssumption
    <3>2. Cached(t) => cache[t] > Exp[t] + Leeway
      BY DEF IInv, KeysInv
    <3>3. QED
      BY <2>1, <3>1, <3>2 DEF Cached, Accepted
  <2>3. CallsInv'
    BY <1>1, <2>1, <2>2 DEF IInv, TypeOK, CallsInv, CallStates, HasRow
  <2>4. PassInv'
    <3> SUFFICES ASSUME NEW w \in Worker, NEW t \in Token, left[w][t] # 0
                 PROVE  now' + left[w][t] > Exp[t] + Leeway
      BY <2>1 DEF IInv, PassInv, HasRow
    <3>1. left[w][t] \in Nat /\ Exp[t] + Leeway \in Nat
      BY <1>1, ClockAssumption DEF TypeOK, ClockAssumption
    <3>2. now + left[w][t] > Exp[t] + Leeway
      BY DEF IInv, PassInv
    <3>3. QED
      BY <2>1, <3>1, <3>2
  <2>5. KeysInv'
    BY <2>2 DEF IInv, KeysInv
  <2>6. AckedIsDurable'
    BY <2>1, <2>2 DEF IInv, AckedIsDurable, HasRow
  <2>7. AckedIsVisible'
    BY <1>1, <2>1, <2>2 DEF IInv, TypeOK, AckedIsVisible
  <2>8. QED
    BY <1>1, <2>1, <2>3, <2>4, <2>5, <2>6, <2>7 DEF IInv, RowsInv
<1>3. CASE DbDown \/ RedisDown \/ Recovery \/ UNCHANGED vars
  <2>1. UNCHANGED <<now, dbVars, cache, callVars, resyncVars, acked, missed>>
    BY <1>3 DEF DbDown, RedisDown, Recovery, DbRecover, RedisRecover, vars
  <2>2. PassInv'
    BY <2>1 DEF IInv, PassInv, HasRow
  <2>3. QED
    BY <1>1, <2>1, <2>2, PassKeeps
<1>4. ASSUME NEW lost \in SUBSET Token, RedisLoss(lost)
      PROVE  IInv'
  <2>1. /\ UNCHANGED <<now, dbVars, callVars, resyncVars, acked>>
        /\ missed' = missed \cup lost
        /\ \A t \in Token : cache'[t] = IF t \in lost THEN 0 ELSE cache[t]
    BY <1>4 DEF RedisLoss
  <2>2. \A t \in Token : Cached(t)' => Cached(t) /\ cache'[t] = cache[t]
    BY <2>1 DEF Cached
  <2>3. \A t \in Token : t \notin missed' => t \notin missed /\ (Cached(t) => Cached(t)')
    BY <2>1 DEF Cached
  <2>4. CallsInv'
    BY <1>1, <2>1, <2>3 DEF IInv, TypeOK, CallsInv, CallStates, HasRow, Accepted
  <2>5. PassInv' /\ KeysInv' /\ AckedIsDurable'
    BY <2>1, <2>2 DEF IInv, PassInv, KeysInv, AckedIsDurable, HasRow
  <2>6. AckedIsVisible'
    BY <1>1, <2>1, <2>3 DEF IInv, TypeOK, AckedIsVisible, Accepted
  <2>7. QED
    BY <1>1, <2>1, <2>4, <2>5, <2>6 DEF IInv, RowsInv
<1>5. ASSUME NEW w \in Worker, WorkerStop(w)
      PROVE  IInv'
  <2>1. UNCHANGED <<now, dbVars, cache, acked, missed>>
    BY <1>5 DEF WorkerStop
  <2>2. \A c \in Caller : pc'[c] # "idle" =>
            pc'[c] = pc[c] /\ tok'[c] = tok[c] /\ arg'[c] = arg[c]
    BY <1>5 DEF WorkerStop, Release
  <2>3. CallsInv'
    BY <2>1, <2>2 DEF IInv, CallsInv, HasRow, Cached, Accepted
  <2>4. PassInv'
    BY <1>1, <1>5, NameAssumption
    DEF WorkerStop, IInv, TypeOK, PassInv, HasRow, NameAssumption
  <2>5. QED
    BY <1>1, <2>1, <2>3, <2>4
    DEF IInv, RowsInv, KeysInv, AckedIsDurable, AckedIsVisible, HasRow, Cached, Accepted
<1>6. QED
  BY <1>2, <1>3, <1>4, <1>5 DEF Fault

LEMMA InvStep == IInv /\ [Next]_vars => IInv'
<1>1. \A t \in Token : Exp[t] \in {NoExp, Exp[t]} /\ NoExp \in {NoExp, Exp[t]}
  OBVIOUS
<1>2. QED
  BY CallStepInv, ResyncStepInv, OtherStepInv DEF Next

LEMMA InvCorrect == Spec => []IInv
BY InvInit, InvStep, PTL DEF Spec

(* No 200 and no cached revocation without its row, whatever fails.        *)
THEOREM AckedDurable == Spec => []AckedIsDurable
BY InvCorrect, PTL DEF IInv

(* No path lets a revocation end before its token stops being honoured:    *)
(* neither a key, whoever wrote it last, nor a row.                        *)
THEOREM OutlivesToken == Spec => []RevocationOutlivesToken
<1>1. ASSUME IInv PROVE RevocationOutlivesToken
  <2>1. ASSUME NEW t \in Token, HasRow(t), Accepted(t)
        PROVE  Active(t)
    <3>1. /\ now \in Nat /\ Exp[t] \in Nat /\ revokedAt[t] \in Nat
          /\ rowExp[t] \in {NoExp, Exp[t]}
      BY <1>1, <2>1, ClockAssumption DEF IInv, TypeOK, RowsInv, HasRow, ClockAssumption
    <3>2. CASE rowExp[t] = NoExp
      BY <2>1, <3>1, <3>2, ClockAssumption DEF Active, Accepted, ClockAssumption
    <3>3. CASE rowExp[t] = Exp[t]
      BY <2>1, <3>1, <3>3, ClockAssumption, NameAssumption
      DEF Active, Accepted, ClockAssumption, NameAssumption
    <3>4. QED
      BY <3>1, <3>2, <3>3
  <2>2. QED
    BY <1>1, <2>1 DEF RevocationOutlivesToken, IInv, KeysInv
<1>2. QED
  BY <1>1, InvCorrect, PTL

(* An acknowledged revocation of a token still honoured is read as revoked *)
(* unless Redis lost or refused its key and no pass restored it.           *)
THEOREM AckedVisible == Spec => []AckedIsVisible
BY InvCorrect, PTL DEF IInv
-----------------------------------------------------------------------------
(* The store implements the ledger *)

LEMMA InsertRecords ==
  ASSUME IInv, NEW c \in Caller, pc[c] = "insert", InsertRow(tok[c], arg[c]),
         UNCHANGED <<cache, acked>>
  PROVE  [Ledger!Next]_Ledger!lvars
<1>1. tok[c] \in Token /\ arg[c] # NoRow
  BY ClockAssumption, NameAssumption
  DEF IInv, TypeOK, CallsInv, CallStates, ClockAssumption, NameAssumption
<1>2. CASE HasRow(tok[c])
  <2>1. UNCHANGED <<rowExp, acked, cache>>
    BY <1>2 DEF InsertRow, dbVars
  <2>2. QED
    BY <2>1 DEF Ledger!lvars, HasRow, Cached
<1>3. CASE ~HasRow(tok[c])
  <2>1. rowExp' = [rowExp EXCEPT ![tok[c]] = arg[c]]
    BY <1>3 DEF InsertRow
  <2>2. {t \in Token : HasRow(t)'} = {t \in Token : HasRow(t)} \cup {tok[c]}
    BY <1>1, <2>1 DEF HasRow, IInv, TypeOK
  <2>3. Ledger!Record(tok[c])
    BY <1>3, <2>2 DEF Ledger!Record, Cached
  <2>4. QED
    BY <1>1, <2>3 DEF Ledger!Next
<1>4. QED
  BY <1>2, <1>3

LEMMA SetKeyShows ==
  ASSUME IInv, NEW t \in Token, HasRow(t), NEW ttl \in Nat, now + ttl # 0, SetKey(t, ttl),
         UNCHANGED <<rowExp, acked>>
  PROVE  [Ledger!Next]_Ledger!lvars
<1>1. {u \in Token : Cached(u)'} = {u \in Token : Cached(u)} \cup {t}
  BY DEF SetKey, Cached, IInv, TypeOK
<1>2. Ledger!Show(t)
  BY <1>1 DEF Ledger!Show, HasRow
<1>3. QED
  BY <1>2 DEF Ledger!Next

LEMMA DropHides ==
  ASSUME UNCHANGED <<rowExp, acked>>, \A t \in Token : Cached(t)' => Cached(t)
  PROVE  [Ledger!Next]_Ledger!lvars
<1>1. {t \in Token : Cached(t)'} \subseteq {t \in Token : Cached(t)}
  OBVIOUS
<1>2. Ledger!Hide
  BY <1>1 DEF Ledger!Hide, HasRow
<1>3. QED
  BY <1>2 DEF Ledger!Next

LEMMA StepImplements == UseDB /\ IInv /\ [Next]_vars => [Ledger!Next]_Ledger!lvars
<1> SUFFICES ASSUME UseDB, IInv, [Next]_vars
             PROVE  [Ledger!Next]_Ledger!lvars
  OBVIOUS
<1> USE DEF dbVars, callVars, resyncVars, linkVars
<1>1. ASSUME UNCHANGED <<rowExp, acked, cache>>
      PROVE  [Ledger!Next]_Ledger!lvars
  BY <1>1 DEF Ledger!lvars, HasRow, Cached
<1>2. ASSUME NEW c \in Caller, CallStep(c)
      PROVE  [Ledger!Next]_Ledger!lvars
  <2>1. CASE InsertDone(c) \/ InsertInDoubt(c)
    BY <2>1, InsertRecords DEF InsertDone, InsertInDoubt
  <2>2. CASE CacheDone(c)
    <3>1. PICK clk \in ClockReads : SetKey(tok[c], TtlFor(arg[c], clk))
      BY <2>2 DEF CacheDone
    <3>2. tok[c] \in Token /\ HasRow(tok[c]) /\ arg[c] \in {NoExp, Exp[tok[c]]} /\ TypeOK
      BY <2>2 DEF CacheDone, IInv, TypeOK, CallsInv
    <3>3. /\ TtlFor(arg[c], clk) \in Nat
          /\ now + TtlFor(arg[c], clk) > Exp[tok[c]] + Leeway
      BY <3>2, TtlOutlives
    <3>4. now + TtlFor(arg[c], clk) # 0
      BY <3>2, <3>3, ClockAssumption DEF ClockAssumption, TypeOK
    <3>5. QED
      BY <2>2, <3>1, <3>2, <3>3, <3>4, SetKeyShows DEF CacheDone
  <2>3. CASE ReplyRevoked(c)
    <3>1. tok[c] \in Token /\ HasRow(tok[c])
      BY <2>3 DEF ReplyRevoked, IInv, TypeOK, CallsInv
    <3>2. Ledger!Answer(tok[c])
      BY <2>3, <3>1 DEF ReplyRevoked, Ledger!Answer, HasRow, Cached
    <3>3. QED
      BY <3>1, <3>2 DEF Ledger!Next
  <2>4. QED
    BY <1>1, <1>2, <2>1, <2>2, <2>3
    DEF CallStep, Call, InsertRefused, CacheRefused, ReplyNotPersisted
<1>3. ASSUME NEW w \in Worker, ResyncStep(w)
      PROVE  [Ledger!Next]_Ledger!lvars
  <2>1. CASE ResyncSet(w)
    <3> PICK t \in Token : t = cur[w]
      BY <2>1 DEF ResyncSet, IInv, TypeOK
    <3>1. HasRow(t) /\ left[w][t] \in Nat /\ left[w][t] # 0 /\ now \in Nat
      BY <2>1 DEF ResyncSet, IInv, TypeOK, PassInv
    <3>2. QED
      BY <2>1, <3>1, SetKeyShows DEF ResyncSet
  <2>2. QED
    BY <1>1, <1>3, <2>1
    DEF ResyncStep, Start, ResyncWake, ResyncRead, ResyncNoRows, ResyncPresent,
        ResyncMissing, ResyncAbort, ResyncEnd
<1>4. CASE Tick
  BY <1>4, DropHides DEF Tick, Cached
<1>5. CASE Fault
  <2>1. ASSUME NEW lost \in SUBSET Token, RedisLoss(lost)
        PROVE  [Ledger!Next]_Ledger!lvars
    BY <2>1, DropHides DEF RedisLoss, Cached
  <2>2. QED
    BY <1>1, <1>5, <2>1 DEF Fault, DbDown, RedisDown, WorkerStop
<1>6. CASE Recovery
  BY <1>1, <1>6 DEF Recovery, DbRecover, RedisRecover
<1>7. CASE UNCHANGED vars
  BY <1>1, <1>7 DEF vars
<1>8. QED
  BY <1>2, <1>3, <1>4, <1>5, <1>6, <1>7 DEF Next

(* With a database the store implements the ledger: nothing recorded is    *)
(* forgotten, nothing unrecorded is answered or shown.                     *)
THEOREM ImplementsLedger == UseDB => (Spec => LedgerSpec)
<1> SUFFICES ASSUME UseDB PROVE Spec => LedgerSpec
  OBVIOUS
<1>1. Init => Ledger!Init
  BY DEF Init, Ledger!Init, HasRow, Cached
<1>2. IInv /\ [Next]_vars => [Ledger!Next]_Ledger!lvars
  BY StepImplements
<1>3. QED
  BY <1>1, <1>2, InvCorrect, PTL DEF Spec, LedgerSpec, Ledger!Spec
=============================================================================
