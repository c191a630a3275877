-------------------------- MODULE EnforcementProofs --------------------------
(***************************************************************************)
(* The risk engine for every set of threads, tokens and clients, every     *)
(* window and TTL, all weights and any number of faults; and the           *)
(* enforcement chain around it for every set of requests, tokens, clients  *)
(* and routes, every deployment of FAIL_OPEN and any number of faults:     *)
(* types, the refusal of revoked tokens, the revocation ledger it drives,  *)
(* and the replay property of the risk engine, alone and inside the chain. *)
(***************************************************************************)
EXTENDS EnforcementChain, TLAPS

LEMMA CappedType == ASSUME NEW n \in Nat PROVE Capped(n) \in Scores
BY DEF Capped, Scores

LEMMA ScoreType ==
  ASSUME NEW client \in Client, NEW s \in Sensitivity, NEW last, NEW a \in Anomaly
  PROVE  WithAnomaly(ScoreRisk(client, s, last), a) \in Scores
<1> DEFINE risk == ScoreRisk(client, s, last)
<1>1. \A b \in BOOLEAN : \A w \in Nat : Weight(b, w) \in Nat
  BY DEF Weight
<1>2. risk \in Scores
  <2>1. /\ Base \in Nat
        /\ Weight(s >= 4, SensitivityWeight) \in Nat
        /\ Weight(Drifted(client.ip, last.client.ip), IpDriftWeight) \in Nat
        /\ Weight(Drifted(client.ua, last.client.ua), UaDriftWeight) \in Nat
        /\ Weight(Drifted(client.geo, last.client.geo), GeoDriftWeight) \in Nat
    BY WeightAssumption DEF WeightAssumption, Weight
  <2>2. \A u, v, w, x, y \in Nat : Capped(u + v + w + x + y) \in Scores
    BY CappedType
  <2>3. QED
    BY <2>1, <2>2 DEF ScoreRisk
<1>3. (5 * risk + a + 2) \div 5 \in Nat
  <2>1. a \in Scores
    <3>1. Anomaly \subseteq 0 .. 10000
      BY WeightAssumption, SMTT(60) DEF WeightAssumption
    <3>2. QED
      BY <3>1 DEF Scores
  <2>2. \A n, m \in Scores : 5 * n + m + 2 \in Nat
    BY DEF Scores
  <2>3. \A n \in Nat : n \div 5 \in Nat
    OBVIOUS
  <2> HIDE DEF risk
  <2>4. QED
    BY <1>2, <2>1, <2>2, <2>3
<1>4. WithAnomaly(risk, a) \in Scores
  BY <1>3, CappedType DEF WithAnomaly
<1>5. QED
  BY <1>4

LEMMA TypeInit == Init => TypeOK
BY WindowAssumption DEF Init, TypeOK, Forgotten, Nowhere, Client, Entry, WindowAssumption

LEMMA RememberType ==
  ASSUME TypeOK, NEW t \in Token, NEW client \in Client, Remember(t, client)
  PROVE  seen' \in [Token -> Entry]
BY WindowAssumption DEF TypeOK, Remember, Entry, WindowAssumption

(* An evaluation that is not free is a running one. *)
LEMMA BusyIsRunning ==
  ASSUME TypeOK, NEW r \in Request, eval[r].pc \in {"get", "score", "set"}
  PROVE  /\ eval[r] \in Running
         /\ eval[r].token \in Token /\ eval[r].client \in Client
         /\ eval[r].sensitivity \in Sensitivity
         /\ eval[r].last \in Entry
<1>1. eval[r] \in Running
  BY DEF TypeOK, Free
<1>2. QED
  BY <1>1 DEF Running

LEMMA StepType ==
  ASSUME TypeOK, NEW r \in Request, Step(r)
  PROVE  TypeOK'
<1>1. Forgotten \in Entry
  BY DEF Forgotten, Nowhere, Client, Entry
<1>2. ASSUME NEW t \in Token, NEW client \in Shown, NEW s \in Sensitivity,
             Evaluate(r, t, client, s)
      PROVE  TypeOK'
  <2>1. client \in Client /\ 0 \in Scores
    BY ClientAssumption DEF ClientAssumption, Scores
  <2>2. [pc |-> "get", token |-> t, client |-> client, sensitivity |-> s,
         last |-> Forgotten, risk |-> 0] \in Running
    BY <1>1, <2>1 DEF Running
  <2>3. QED
    BY <1>2, <2>2 DEF TypeOK, Evaluate
<1>3. CASE GetLastSeen(r)
  <2>1. eval[r] \in Running /\ eval[r].token \in Token
    BY <1>3, BusyIsRunning DEF GetLastSeen, Running
  <2>2. [eval[r] EXCEPT !.pc = "score", !.last = seen[eval[r].token]] \in Running
    BY <2>1 DEF TypeOK, Running
  <2>3. eval' \in [Request -> {Free} \cup Running]
    BY <1>3, <2>2 DEF TypeOK, GetLastSeen
  <2>4. QED
    BY <1>3, <2>1, <2>3 DEF TypeOK, GetLastSeen
<1>4. CASE Score(r)
  <2>1. /\ eval[r] \in Running
        /\ eval[r].client \in Client /\ eval[r].sensitivity \in Sensitivity
    BY <1>4, BusyIsRunning DEF Score
  <2>2. PICK a \in Anomaly :
          eval' = [eval EXCEPT ![r].pc = "set", ![r].last = Forgotten, ![r].risk =
                     WithAnomaly(ScoreRisk(eval[r].client, eval[r].sensitivity, eval[r].last), a)]
    BY <1>4 DEF Score
  <2>3. WithAnomaly(ScoreRisk(eval[r].client, eval[r].sensitivity, eval[r].last), a)
          \in Scores
    BY <2>1, ScoreType
  <2>4. eval' \in [Request -> {Free} \cup Running]
    BY <1>1, <2>1, <2>2, <2>3 DEF TypeOK, Running
  <2>5. QED
    BY <1>4, <2>4 DEF TypeOK, Score
<1>5. CASE Refuse(r) \/ Fail(r)
  BY <1>5 DEF TypeOK, Refuse, Fail
<1>6. CASE SetLastSeen(r) \/ FailAfterSet(r)
  <2>1. eval[r].token \in Token /\ eval[r].client \in Client
    BY <1>6, BusyIsRunning DEF SetLastSeen, FailAfterSet, Running
  <2>2. seen' \in [Token -> Entry]
    BY <1>6, <2>1, RememberType DEF SetLastSeen, FailAfterSet
  <2>3. eval' \in [Request -> {Free} \cup Running]
    BY <1>6 DEF TypeOK, SetLastSeen, FailAfterSet
  <2>4. accepted' \subseteq [token : Token, ip : Ip \cup {Unknown}, at : Nat]
    BY <1>6, <2>1 DEF TypeOK, SetLastSeen, FailAfterSet, Client
  <2>5. QED
    BY <1>6, <2>1, <2>2, <2>3, <2>4 DEF TypeOK, SetLastSeen, FailAfterSet
<1>7. QED
  BY <1>2, <1>3, <1>4, <1>5, <1>6 DEF Step

LEMMA OtherType ==
  ASSUME TypeOK, Tick \/ (\E lost \in SUBSET Token : Lose(lost)) \/ UNCHANGED vars
  PROVE  TypeOK'
<1>1. Forgotten \in Entry
  BY DEF Forgotten, Nowhere, Client, Entry
<1>2. CASE Tick
  BY <1>1, <1>2 DEF TypeOK, Tick
<1>3. ASSUME NEW lost \in SUBSET Token, Lose(lost)
      PROVE  TypeOK'
  BY <1>1, <1>3 DEF TypeOK, Lose
<1>4. CASE UNCHANGED vars
  BY <1>4 DEF TypeOK, vars, engineVars
<1>5. QED
  BY <1>2, <1>3, <1>4

(* Every variable keeps its type; every score is between 0 and 1.          *)
THEOREM RiskTypeCorrect == Spec => []TypeOK
<1>1. TypeOK /\ [Next]_vars => TypeOK'
  BY StepType, OtherType DEF Next
<1>2. QED
  BY TypeInit, <1>1, PTL DEF Spec

-----------------------------------------------------------------------------
(* The inductive invariant, action by action.  Reading evaluations change  *)
(* only at GetLastSeen and Score; the memory only at the others.           *)

LEMMA IInvInit == Init => IInv
BY TypeInit
DEF Init, IInv, MemoryInv, LogInv, CrossInv, EvalInv, ReplayNeedsGap, Known, Reading, Free

(* Steps that only free threads or start evaluations. *)
LEMMA QuietSteps ==
  ASSUME IInv, TypeOK', UNCHANGED <<now, seen, accepted, blurred>>,
         \A r \in Request : Reading(r)' => Reading(r) /\ eval'[r] = eval[r]
  PROVE  IInv'
<1>1. MemoryInv' /\ LogInv' /\ ReplayNeedsGap'
  BY DEF IInv, MemoryInv, LogInv, ReplayNeedsGap, Known, Before, Conflict
<1>2. CrossInv'
  BY DEF IInv, CrossInv
<1>3. EvalInv'
  BY DEF IInv, EvalInv, Before
<1>4. QED
  BY <1>1, <1>2, <1>3 DEF IInv

LEMMA GetPreserves ==
  ASSUME IInv, TypeOK', NEW r \in Request, GetLastSeen(r)
  PROVE  IInv'
<1> DEFINE t == eval[r].token
<1>1. eval[r] \in Running /\ t \in Token
  BY BusyIsRunning DEF IInv, GetLastSeen, Running
<1>2. /\ eval'[r].pc = "score" /\ eval'[r].last = seen[t]
      /\ eval'[r].token = t /\ eval'[r].client = eval[r].client
      /\ \A r2 \in Request \ {r} : eval'[r2] = eval[r2]
  BY <1>1 DEF IInv, TypeOK, GetLastSeen, Running
<1>3. blurred \subseteq blurred' /\ UNCHANGED <<now, seen, accepted>>
  BY DEF GetLastSeen
<1>4. MemoryInv' /\ LogInv' /\ ReplayNeedsGap'
  BY <1>3 DEF IInv, MemoryInv, LogInv, ReplayNeedsGap, Known, Before, Conflict
<1>5. CrossInv'
  <2> SUFFICES ASSUME NEW r1 \in Request, NEW r2 \in Request, Reading(r1)', Reading(r2)',
                      eval'[r1].token = eval'[r2].token,
                      eval'[r1].client.ip # eval'[r2].client.ip
               PROVE  eval'[r1].token \in blurred'
    BY DEF CrossInv
  <2>1. CASE r1 # r /\ r2 # r
    BY <1>2, <1>3, <2>1 DEF IInv, CrossInv, Reading
  <2>2. CASE r1 = r
    <3>1. r2 # r /\ Crosses(r, r2)
      BY <1>2, <2>2 DEF Crosses, Reading
    <3>2. QED
      BY <1>2, <2>2, <3>1 DEF GetLastSeen
  <2>3. CASE r2 = r /\ r1 # r
    <3>1. Crosses(r, r1)
      BY <1>2, <2>3 DEF Crosses, Reading
    <3>2. QED
      BY <1>2, <2>3, <3>1 DEF GetLastSeen
  <2>4. QED
    BY <2>1, <2>2, <2>3
<1>6. EvalInv'
  <2> SUFFICES ASSUME NEW r2 \in Request, Reading(r2)'
               PROVE  /\ eval'[r2].last.ts <= now'
                      /\ \A a \in accepted' :
                           a.token = eval'[r2].token /\ a.token \notin blurred'
                           /\ a.ip # eval'[r2].client.ip =>
                             IF eval'[r2].pc = "set"
                             THEN eval'[r2].client.ip # Unknown => Before(a, now')
                             ELSE IF eval'[r2].last = Forgotten THEN Before(a, now')
                             ELSE /\ eval'[r2].last.client.ip # Unknown
                                  /\ a.at <= eval'[r2].last.ts
                                  /\ a.ip # eval'[r2].last.client.ip
                                       => Before(a, eval'[r2].last.ts)
    BY DEF EvalInv, Before
  <2>1. CASE r2 # r
    BY <1>2, <1>3, <2>1 DEF IInv, EvalInv, Reading
  <2>2. CASE r2 = r
    <3>1. seen[t].ts <= now
      BY <1>1 DEF IInv, TypeOK, MemoryInv, Known, Forgotten
    <3>2. QED
      BY <1>1, <1>2, <1>3, <2>2, <3>1 DEF IInv, MemoryInv, LogInv, Known
  <2>3. QED
    BY <2>1, <2>2
<1>7. QED
  BY <1>4, <1>5, <1>6 DEF IInv

(* The heart of the argument: an address that passed the verdict conflicts *)
(* with no earlier acceptance of a sharp token.                            *)
LEMMA PassedIsClear ==
  ASSUME IInv, NEW r \in Request, eval[r].pc = "score", ~IsReplay(r),
         eval[r].client.ip # Unknown,
         NEW a \in accepted, a.token = eval[r].token, a.token \notin blurred,
         a.ip # eval[r].client.ip
  PROVE  Before(a, now)
<1>1. /\ eval[r] \in Running /\ now \in Nat /\ a.at \in Nat /\ ReplayWindow \in Nat
      /\ eval[r].last.ts \in Nat
  BY BusyIsRunning, WindowAssumption DEF IInv, TypeOK, Entry, WindowAssumption
<1>2. Reading(r) /\ eval[r].last.ts <= now
  BY DEF Reading, IInv, EvalInv
<1>3. CASE eval[r].last = Forgotten
  BY <1>2, <1>3 DEF IInv, EvalInv
<1>4. CASE eval[r].last # Forgotten
  <2>1. /\ eval[r].last.client.ip # Unknown
        /\ a.at <= eval[r].last.ts
        /\ a.ip # eval[r].last.client.ip => Before(a, eval[r].last.ts)
    BY <1>2, <1>4 DEF IInv, EvalInv
  <2>2. CASE a.ip # eval[r].last.client.ip
    BY <1>1, <1>2, <2>1, <2>2 DEF Before
  <2>3. CASE a.ip = eval[r].last.client.ip
    <3>1. now - eval[r].last.ts >= ReplayWindow
      BY <1>1, <2>1, <2>3 DEF IsReplay, ReplayDetected, Drifted
    <3>2. QED
      BY <1>1, <2>1, <3>1 DEF Before
  <2>4. QED
    BY <2>2, <2>3
<1>5. QED
  BY <1>3, <1>4

LEMMA ScorePreserves ==
  ASSUME IInv, TypeOK', NEW r \in Request, Score(r)
  PROVE  IInv'
<1>1. eval[r] \in Running
  BY BusyIsRunning DEF IInv, Score
<1>2. /\ eval'[r].pc = "set" /\ eval'[r].last = Forgotten
      /\ eval'[r].token = eval[r].token /\ eval'[r].client = eval[r].client
      /\ \A r2 \in Request \ {r} : eval'[r2] = eval[r2]
  BY <1>1 DEF IInv, TypeOK, Score, Running
<1>3. UNCHANGED <<now, seen, accepted, blurred>> /\ eval[r].pc = "score" /\ ~IsReplay(r)
  BY DEF Score
<1>4. MemoryInv' /\ LogInv' /\ ReplayNeedsGap'
  BY <1>3 DEF IInv, MemoryInv, LogInv, ReplayNeedsGap, Known, Before, Conflict
<1>5. CrossInv'
  BY <1>2, <1>3 DEF IInv, CrossInv, Reading
<1>6. EvalInv'
  <2> SUFFICES ASSUME NEW r2 \in Request, Reading(r2)'
               PROVE  /\ eval'[r2].last.ts <= now'
                      /\ \A a \in accepted' :
                           a.token = eval'[r2].token /\ a.token \notin blurred'
                           /\ a.ip # eval'[r2].client.ip =>
                             IF eval'[r2].pc = "set"
                             THEN eval'[r2].client.ip # Unknown => Before(a, now')
                             ELSE IF eval'[r2].last = Forgotten THEN Before(a, now')
                             ELSE /\ eval'[r2].last.client.ip # Unknown
                                  /\ a.at <= eval'[r2].last.ts
                                  /\ a.ip # eval'[r2].last.client.ip
                                       => Before(a, eval'[r2].last.ts)
    BY DEF EvalInv, Before
  <2>1. CASE r2 # r
    BY <1>2, <1>3, <2>1 DEF IInv, EvalInv, Reading
  <2>2. CASE r2 = r
    <3>1. eval'[r2].last.ts <= now'
      BY <1>2, <1>3, <2>2 DEF Forgotten, IInv, TypeOK
    <3>2. QED
      BY <1>2, <1>3, <2>2, <3>1, PassedIsClear
  <2>3. QED
    BY <2>1, <2>2
<1>7. QED
  BY <1>4, <1>5, <1>6 DEF IInv

(* SetLastSeen and FailAfterSet: a clear evaluation is remembered.         *)
LEMMA RememberPreserves ==
  ASSUME IInv, TypeOK', NEW r \in Request, eval[r].pc = "set",
         Remember(eval[r].token, eval[r].client),
         eval' = [eval EXCEPT ![r] = Free],
         blurred' = IF eval[r].client.ip = Unknown THEN blurred \cup {eval[r].token}
                    ELSE blurred,
         accepted' \in {accepted, accepted \cup {[token |-> eval[r].token,
                                                  ip |-> eval[r].client.ip, at |-> now]}},
         now' = now
  PROVE  IInv'
<1> DEFINE t == eval[r].token
           b == [token |-> t, ip |-> eval[r].client.ip, at |-> now]
<1>1. /\ t \in Token /\ Reading(r) /\ now \in Nat
      /\ ReplayWindow \in Nat /\ TokenTTL \in Nat
  BY BusyIsRunning, WindowAssumption DEF IInv, TypeOK, Reading, WindowAssumption
<1>2. /\ seen'[t] = [client |-> eval[r].client, ts |-> now, ends |-> now + TokenTTL]
      /\ \A u \in Token \ {t} : seen'[u] = seen[u]
      /\ seen'[t].client.ip = eval[r].client.ip /\ seen'[t].ts = now
  BY <1>1 DEF Remember, IInv, TypeOK
<1>3. \A r2 \in Request : Reading(r2)' => r2 # r /\ Reading(r2) /\ eval'[r2] = eval[r2]
  BY DEF IInv, TypeOK, Reading, Free
<1>4. /\ blurred \subseteq blurred'
      /\ \A u \in Token \ {t} : u \in blurred' => u \in blurred
      /\ t \notin blurred' => eval[r].client.ip # Unknown
  OBVIOUS
<1>5. \A a \in accepted' : a \in accepted \/ a = b
  OBVIOUS
<1>6. \A a \in accepted : a.token \in Token /\ a.at \in Nat /\ a.at <= now
  BY DEF IInv, TypeOK, LogInv
<1>7. ASSUME NEW a \in accepted, a.token = t, t \notin blurred', a.ip # eval[r].client.ip
      PROVE  Before(a, now)
  BY <1>1, <1>4, <1>7 DEF IInv, EvalInv
<1>8. MemoryInv'
  <2> SUFFICES ASSUME NEW u \in Token, Known(u)'
               PROVE  /\ seen'[u].ts <= now'
                      /\ seen'[u].ends = seen'[u].ts + TokenTTL
                      /\ u \notin blurred' => seen'[u].client.ip # Unknown
    BY DEF MemoryInv
  <2>1. CASE u = t
    BY <1>1, <1>2, <1>4, <2>1
  <2>2. CASE u # t
    BY <1>2, <1>4, <2>2 DEF IInv, MemoryInv, Known
  <2>3. QED
    BY <2>1, <2>2
<1>9. LogInv'
  <2> SUFFICES ASSUME NEW a \in accepted'
               PROVE  /\ a.at <= now'
                      /\ a.token \notin blurred' =>
                           IF Known(a.token)'
                           THEN /\ a.at <= seen'[a.token].ts
                                /\ a.ip # seen'[a.token].client.ip
                                     => Before(a, seen'[a.token].ts)
                           ELSE Before(a, now')
    BY DEF LogInv, Before
  <2>1. CASE a = b
    <3>1. a.token = t /\ a.at = now /\ a.ip = eval[r].client.ip
      BY <2>1
    <3>2. t \notin blurred' => seen'[t] # Forgotten
      BY <1>2, <1>4 DEF Forgotten, Nowhere
    <3>3. QED
      BY <1>1, <1>2, <3>1, <3>2 DEF Known
  <2>2. CASE a \in accepted /\ a.token = t
    <3>1. t \notin blurred' => seen'[t] # Forgotten
      BY <1>2, <1>4 DEF Forgotten, Nowhere
    <3>2. QED
      BY <1>2, <1>6, <1>7, <2>2, <3>1 DEF Known
  <2>3. CASE a \in accepted /\ a.token # t
    BY <1>2, <1>4, <1>6, <2>3 DEF IInv, LogInv, Known
  <2>4. QED
    BY <1>5, <2>1, <2>2, <2>3
<1>10. CrossInv'
  BY <1>3, <1>4 DEF IInv, CrossInv
<1>11. EvalInv'
  <2> SUFFICES ASSUME NEW r2 \in Request, Reading(r2)'
               PROVE  /\ eval'[r2].last.ts <= now'
                      /\ \A a \in accepted' :
                           a.token = eval'[r2].token /\ a.token \notin blurred'
                           /\ a.ip # eval'[r2].client.ip =>
                             IF eval'[r2].pc = "set"
                             THEN eval'[r2].client.ip # Unknown => Before(a, now')
                             ELSE IF eval'[r2].last = Forgotten THEN Before(a, now')
                             ELSE /\ eval'[r2].last.client.ip # Unknown
                                  /\ a.at <= eval'[r2].last.ts
                                  /\ a.ip # eval'[r2].last.client.ip
                                       => Before(a, eval'[r2].last.ts)
    BY DEF EvalInv, Before
  <2>1. Reading(r2) /\ eval'[r2] = eval[r2]
    BY <1>3
  <2>2. b.token = eval[r2].token /\ b.ip # eval[r2].client.ip => b.token \in blurred'
    BY <1>1, <1>4, <2>1 DEF IInv, CrossInv
  <2>3. QED
    BY <1>4, <1>5, <2>1, <2>2 DEF IInv, EvalInv
<1>12. ReplayNeedsGap'
  <2> SUFFICES ASSUME NEW a1 \in accepted', NEW a2 \in accepted', Conflict(a1, a2),
                      a1.token \notin blurred'
               PROVE  FALSE
    BY DEF ReplayNeedsGap, Conflict
  <2>1. CASE a1 \in accepted /\ a2 \in accepted
    BY <1>4, <2>1 DEF IInv, ReplayNeedsGap
  <2>2. CASE a1 = b /\ a2 \in accepted
    BY <1>1, <1>6, <1>7, <2>2 DEF Conflict, Before
  <2>3. CASE a1 \in accepted /\ a2 = b
    BY <1>1, <1>6, <1>7, <2>3 DEF Conflict, Before
  <2>4. CASE a1 = b /\ a2 = b
    BY <2>4 DEF Conflict
  <2>5. QED
    BY <1>5, <2>1, <2>2, <2>3, <2>4
<1>13. QED
  BY <1>8, <1>9, <1>10, <1>11, <1>12 DEF IInv

LEMMA TickPreserves == ASSUME IInv, TypeOK', Tick PROVE IInv'
<1>1. /\ now' = now + 1 /\ now \in Nat /\ UNCHANGED <<eval, accepted, blurred>>
      /\ ReplayWindow \in Nat /\ TokenTTL \in Nat /\ ReplayWindow <= TokenTTL
  BY WindowAssumption DEF Tick, IInv, TypeOK, WindowAssumption
<1>2. \A t \in Token : \/ seen'[t] = seen[t]
                       \/ seen'[t] = Forgotten /\ seen[t].ends <= now + 1
  BY DEF Tick
<1>3. \A t \in Token : seen[t].ts \in Nat /\ seen[t].ends \in Nat
  BY DEF IInv, TypeOK, Entry
<1>4. \A a \in accepted : a.token \in Token /\ a.at \in Nat /\ a.at <= now
  BY DEF IInv, TypeOK, LogInv
<1>5. MemoryInv'
  BY <1>1, <1>2, <1>3 DEF IInv, MemoryInv, Known
<1>6. LogInv'
  <2> SUFFICES ASSUME NEW a \in accepted'
               PROVE  /\ a.at <= now'
                      /\ a.token \notin blurred' =>
                           IF Known(a.token)'
                           THEN /\ a.at <= seen'[a.token].ts
                                /\ a.ip # seen'[a.token].client.ip
                                     => Before(a, seen'[a.token].ts)
                           ELSE Before(a, now')
    BY DEF LogInv, Before
  <2>1. CASE seen'[a.token] = seen[a.token]
    BY <1>1, <1>4, <2>1 DEF IInv, LogInv, Known, Before
  <2>2. CASE seen'[a.token] = Forgotten /\ Known(a.token)
    <3>1. seen[a.token].ts + TokenTTL <= now + 1
      BY <1>1, <1>2, <1>4, <2>2 DEF IInv, MemoryInv, Known
    <3>2. a.token \notin blurred => a.at <= seen[a.token].ts
      BY <1>1, <2>2 DEF IInv, LogInv
    <3>3. QED
      BY <1>1, <1>3, <1>4, <2>2, <3>1, <3>2 DEF Known, Before
  <2>3. QED
    BY <1>1, <1>2, <1>4, <2>1, <2>2 DEF Known
<1>7. CrossInv' /\ ReplayNeedsGap'
  BY <1>1 DEF IInv, CrossInv, ReplayNeedsGap, Reading, Conflict
<1>8. EvalInv'
  <2>1. \A r \in Request : Reading(r) => eval[r].last.ts \in Nat
    BY BusyIsRunning DEF IInv, Reading, Entry
  <2>2. \A a \in accepted : Before(a, now) => Before(a, now + 1)
    BY <1>1, <1>4 DEF Before
  <2>3. \A r \in Request : Reading(r)' <=> Reading(r)
    BY <1>1 DEF Reading
  <2> SUFFICES ASSUME NEW r \in Request, Reading(r)
               PROVE  /\ eval[r].last.ts <= now + 1
                      /\ \A a \in accepted :
                           a.token = eval[r].token /\ a.token \notin blurred
                           /\ a.ip # eval[r].client.ip =>
                             IF eval[r].pc = "set"
                             THEN eval[r].client.ip # Unknown => Before(a, now + 1)
                             ELSE IF eval[r].last = Forgotten THEN Before(a, now + 1)
                             ELSE /\ eval[r].last.client.ip # Unknown
                                  /\ a.at <= eval[r].last.ts
                                  /\ a.ip # eval[r].last.client.ip
                                       => Before(a, eval[r].last.ts)
    BY <1>1, <2>3 DEF EvalInv, Before
  <2>4. eval[r].last.ts <= now + 1
    BY <1>1, <2>1 DEF IInv, EvalInv
  <2>5. QED
    BY <2>2, <2>4 DEF IInv, EvalInv
<1>9. QED
  BY <1>5, <1>6, <1>7, <1>8 DEF IInv

LEMMA LosePreserves ==
  ASSUME IInv, TypeOK', NEW lost \in SUBSET Token, Lose(lost)
  PROVE  IInv'
<1>1. /\ UNCHANGED <<now, eval, accepted>> /\ blurred' = blurred \cup lost
      /\ \A t \in Token : \/ t \in lost /\ seen'[t] = Forgotten
                          \/ t \notin lost /\ seen'[t] = seen[t]
  BY DEF Lose
<1>2. \A a \in accepted : a.token \in Token
  BY DEF IInv, TypeOK
<1>3. MemoryInv' /\ LogInv'
  BY <1>1, <1>2 DEF IInv, MemoryInv, LogInv, Known, Before
<1>4. CrossInv' /\ ReplayNeedsGap'
  BY <1>1 DEF IInv, CrossInv, ReplayNeedsGap, Reading, Conflict
<1>5. EvalInv'
  BY <1>1 DEF IInv, EvalInv, Reading, Before
<1>6. QED
  BY <1>3, <1>4, <1>5 DEF IInv

LEMMA IInvNext == IInv /\ [Next]_vars => IInv'
<1> SUFFICES ASSUME IInv, [Next]_vars
             PROVE  IInv'
  OBVIOUS
<1>1. TypeOK'
  BY StepType, OtherType DEF IInv, Next
<1>2. ASSUME NEW r \in Request, Step(r)
      PROVE  IInv'
  <2>1. ASSUME NEW t \in Token, NEW client \in Shown, NEW s \in Sensitivity,
               Evaluate(r, t, client, s)
        PROVE  IInv'
    <3>1. \A r2 \in Request : Reading(r2)' => Reading(r2) /\ eval'[r2] = eval[r2]
      BY <2>1 DEF Evaluate, Reading, IInv, TypeOK
    <3>2. QED
      BY <1>1, <2>1, <3>1, QuietSteps DEF Evaluate
  <2>2. CASE Refuse(r) \/ Fail(r)
    <3>1. \A r2 \in Request : Reading(r2)' => Reading(r2) /\ eval'[r2] = eval[r2]
      BY <2>2 DEF Refuse, Fail, Reading, Free, IInv, TypeOK
    <3>2. QED
      BY <1>1, <2>2, <3>1, QuietSteps DEF Refuse, Fail
  <2>3. CASE SetLastSeen(r) \/ FailAfterSet(r)
    BY <1>1, <2>3, RememberPreserves DEF SetLastSeen, FailAfterSet
  <2>4. QED
    BY <1>1, <1>2, <2>1, <2>2, <2>3, GetPreserves, ScorePreserves DEF Step
<1>3. CASE UNCHANGED vars
  <2>1. \A r2 \in Request : Reading(r2)' => Reading(r2) /\ eval'[r2] = eval[r2]
    BY <1>3 DEF vars, engineVars, Reading
  <2>2. QED
    BY <1>1, <1>3, <2>1, QuietSteps DEF vars, engineVars
<1>4. QED
  BY <1>1, <1>2, <1>3, TickPreserves, LosePreserves DEF Next

(* Two addresses are accepted within a window only through a gap in the    *)
(* memory, however many evaluations interleave and fail.                   *)
THEOREM ReplayCaught == Spec => []ReplayNeedsGap
<1>1. IInv => ReplayNeedsGap
  BY DEF IInv
<1>2. QED
  BY IInvInit, IInvNext, <1>1, PTL DEF Spec
-----------------------------------------------------------------------------
(* The enforcement chain *)

AppStates == {Idle} \cup Served \cup Waiting
GwStates == {NoCall} \cup GatewayCall

(* What a step may do to the ledger, losses of keys apart.                 *)
LedgerGrows ==
    /\ recorded \subseteq recorded' /\ recorded' \subseteq Token
    /\ visible \subseteq visible' /\ visible \cup missed \subseteq visible' \cup missed'
    /\ visible' \cup missed' \subseteq recorded'
    /\ answered' \subseteq recorded' /\ answered' \subseteq visible' \cup missed'

(* Consistent, of the states x and y that a step leads to.                 *)
FitsNext(x, y) ==
    /\ y.pc \in {"cache", "answer"} => y.token \in recorded'
    /\ y.pc = "answer" => y.token \in visible' \cup missed'
    /\ y.pc \in {"check", "opa"} /\ x.pc = "policy" => y.token = x.token
    /\ y.pc = "opa" /\ x.pc = "policy" => ~x.late
    /\ x.pc \in {"risk", "policy", "revoke"} /\ x.late => x.token \in visible'

Rest ==
    /\ TypeOK' /\ failOpen' \in FailOpens
    /\ challenged' \subseteq Token \X Client /\ stepUntil' \in [Token -> Nat]

-----------------------------------------------------------------------------
(* Shapes of the states *)

LEMMA InFlightIsWaiting ==
  ASSUME ChainTypeOK, NEW r \in Request, app[r].pc \in {"risk", "policy", "revoke"}
  PROVE  /\ app[r] \in Waiting
         /\ app[r].token \in Token /\ app[r].client \in Client /\ app[r].route \in Route
         /\ app[r].late \in BOOLEAN
<1>1. app[r] \in {Idle} \cup Served \cup Waiting
  BY DEF ChainTypeOK
<1>2. app[r] # Idle /\ app[r] \notin Served
  BY DEF Idle, Served
<1>3. app[r] \in Waiting
  BY <1>1, <1>2
<1>4. QED
  BY <1>3 DEF Waiting

LEMMA FlightStages ==
  ASSUME ChainTypeOK, NEW r \in Request
  PROVE  InFlight(r) <=> app[r].pc \in {"risk", "policy", "revoke"}
<1>1. app[r] \in {Idle} \cup Served \cup Waiting
  BY DEF ChainTypeOK
<1>2. QED
  BY <1>1 DEF InFlight, Idle, Served, Waiting

LEMMA BusyGateway ==
  ASSUME ChainTypeOK, NEW r \in Request,
         gw[r].pc \in {"check", "opa", "persist", "cache", "answer"}
  PROVE  gw[r] \in GatewayCall /\ gw[r].token \in Token /\ gw[r].risk \in Scores
<1>1. gw[r] \in {NoCall} \cup GatewayCall /\ gw[r] # NoCall
  BY DEF ChainTypeOK, NoCall
<1>2. QED
  BY <1>1 DEF GatewayCall

LEMMA ServedType ==
  ASSUME NEW late \in BOOLEAN, NEW by \in {"policy", "stepup", "failopen"}
  PROVE  [pc |-> "served", late |-> late, by |-> by] \in Served
BY DEF Served

(* A request that ends, by Idle or by an answer of the handler.            *)
Ends(r, by) ==
    app' = [app EXCEPT ![r] = Idle]
    \/ app' = [app EXCEPT ![r] = [pc |-> "served", late |-> app[r].late, by |-> by]]

LEMMA UnavailableEnds ==
  ASSUME NEW r \in Request, Unavailable(r)
  PROVE  Ends(r, "failopen")
BY DEF Unavailable, Serve, Deny, Ends

-----------------------------------------------------------------------------
(* One request and its gateway call take new states x and y. *)

LEMMA RequestStep ==
  ASSUME ChainIInv, Rest, LedgerGrows, NEW r \in Request,
         NEW x \in AppStates, NEW y \in GwStates,
         app' = [app EXCEPT ![r] = x], gw' = [gw EXCEPT ![r] = y],
         FitsNext(x, y),
         x.pc = "served" /\ x.late => x.by = "failopen"
  PROVE  ChainIInv'
<1>1. ChainTypeOK'
  BY DEF ChainIInv, ChainTypeOK, Rest, LedgerGrows, AppStates, GwStates
<1>2. (answered \subseteq visible \cup missed)'
  BY DEF LedgerGrows
<1>3. /\ app'[r] = x /\ gw'[r] = y
      /\ \A q \in Request : q # r => app'[q] = app[q] /\ gw'[q] = gw[q]
  BY DEF ChainIInv, ChainTypeOK
<1>4. ASSUME NEW q \in Request
      PROVE  Consistent(app[q], gw[q])'
  <2>1. CASE q = r
    BY <1>3, <2>1 DEF Consistent, FitsNext
  <2>2. CASE q # r
    BY <1>3, <2>2 DEF ChainIInv, Consistent, LedgerGrows
  <2>3. QED
    BY <2>1, <2>2
<1>5. RevokedIsRefused'
  BY <1>3 DEF ChainIInv, RevokedIsRefused
<1>6. QED
  BY <1>1, <1>2, <1>4, <1>5 DEF ChainIInv

(* The request ends, or goes on as it was, and so does the call.           *)
LEMMA Ending ==
  ASSUME ChainIInv, Rest, LedgerGrows, NEW r \in Request,
         app' = app \/ Ends(r, "failopen"),
         gw' = gw \/ gw' = [gw EXCEPT ![r] = NoCall],
         app[r].pc \in {"risk", "policy", "revoke"} \/ app' = app
  PROVE  ChainIInv'
<1>1. app \in [Request -> AppStates] /\ gw \in [Request -> GwStates]
  BY DEF ChainIInv, ChainTypeOK, AppStates, GwStates
<1>2. PICK y \in GwStates : gw' = [gw EXCEPT ![r] = y] /\ (y = gw[r] \/ y = NoCall)
  <2>1. NoCall \in GwStates
    BY DEF GwStates
  <2>2. gw = [gw EXCEPT ![r] = gw[r]] /\ gw[r] \in GwStates
    BY <1>1
  <2>3. QED
    BY <2>1, <2>2
<1>3. PICK x \in AppStates :
        /\ app' = [app EXCEPT ![r] = x]
        /\ x = app[r] \/ x = Idle \/ x = [pc |-> "served", late |-> app[r].late, by |-> "failopen"]
  <2>1. CASE app' = app
    <3>1. app = [app EXCEPT ![r] = app[r]] /\ app[r] \in AppStates
      BY <1>1
    <3>2. QED
      BY <2>1, <3>1
  <2>2. CASE app[r].pc \in {"risk", "policy", "revoke"} /\ Ends(r, "failopen")
    <3>1. app[r].late \in BOOLEAN
      BY <2>2, InFlightIsWaiting DEF ChainIInv
    <3>2. /\ Idle \in AppStates
          /\ [pc |-> "served", late |-> app[r].late, by |-> "failopen"] \in AppStates
      BY <3>1, ServedType DEF AppStates
    <3>3. QED
      BY <2>2, <3>2 DEF Ends
  <2>3. QED
    BY <2>1, <2>2
<1>4. Consistent(app[r], gw[r])
  BY DEF ChainIInv
<1>5. FitsNext(x, y)
  BY <1>2, <1>3, <1>4 DEF FitsNext, Consistent, Idle, NoCall, LedgerGrows
<1>6. x.pc = "served" /\ x.late => x.by = "failopen"
  BY <1>3 DEF ChainIInv, RevokedIsRefused, Idle
<1>7. QED
  BY <1>2, <1>3, <1>5, <1>6, RequestStep

LEMMA QuietLedger ==
  ASSUME ChainIInv, UNCHANGED ledgerVars
  PROVE  LedgerGrows
BY DEF ChainIInv, ChainTypeOK, ledgerVars, LedgerGrows

(* A fault is counted and the risk engine is not touched.                  *)
LEMMA FaultType ==
  ASSUME TypeOK, UNCHANGED <<now, engineVars>>, faults' = faults + 1
  PROVE  TypeOK'
BY DEF TypeOK, engineVars

LEMMA QuietType ==
  ASSUME TypeOK, UNCHANGED vars
  PROVE  TypeOK'
BY DEF TypeOK, vars, engineVars

-----------------------------------------------------------------------------
(* The application and the risk engine *)

LEMMA ArrivePreserves ==
  ASSUME ChainIInv, NEW r \in Request, NEW t \in Token, NEW client \in Shown,
         NEW route \in Route, Arrive(r, t, client, route)
  PROVE  ChainIInv'
<1> DEFINE x == [pc |-> "risk", token |-> t, client |-> client, route |-> route,
                 late |-> t \in answered \ missed]
<1>1. Rest
  <2>1. Step(r)
    <3>1. route.sensitivity \in Sensitivity
      BY RouteAssumption DEF RouteAssumption
    <3>2. QED
      BY <3>1 DEF Arrive, Step
  <2>2. TypeOK'
    BY <2>1, StepType DEF ChainIInv, ChainTypeOK
  <2>3. QED
    BY <2>2 DEF Rest, Arrive, stepVars, ChainIInv, ChainTypeOK
<1>2. LedgerGrows
  BY QuietLedger DEF Arrive
<1>3. x \in AppStates
  BY ClientAssumption DEF AppStates, Waiting, ClientAssumption
<1>4. NoCall \in GwStates
  BY DEF GwStates
<1>5. app' = [app EXCEPT ![r] = x] /\ gw' = [gw EXCEPT ![r] = NoCall]
  BY DEF Arrive, ChainIInv, ChainTypeOK
<1>6. x.late => x.token \in visible'
  BY DEF ChainIInv, Arrive, ledgerVars
<1>7. FitsNext(x, NoCall)
  BY <1>6 DEF FitsNext, NoCall
<1> HIDE DEF x
<1>8. x.pc # "served"
  BY DEF x
<1>9. QED
  BY <1>1, <1>2, <1>3, <1>4, <1>5, <1>7, <1>8, RequestStep

LEMMA TimeoutPreserves ==
  ASSUME ChainIInv, NEW r \in Request, Timeout(r)
  PROVE  ChainIInv'
<1>1. Rest /\ LedgerGrows
  BY FaultType, QuietLedger DEF Timeout, Rest, stepVars, ChainIInv, ChainTypeOK
<1>2. app[r].pc \in {"risk", "policy", "revoke"}
  BY FlightStages DEF Timeout, ChainIInv
<1>3. Ends(r, "failopen")
  BY UnavailableEnds DEF Timeout, Deny, Ends
<1>4. gw' = gw
  BY DEF Timeout
<1>5. QED
  BY <1>1, <1>2, <1>3, <1>4, Ending

(* The steps of the risk engine that end or leave the request alone.       *)
LEMMA EnginePreserves ==
  ASSUME ChainIInv, NEW r \in Request, RiskStep(r) \/ RiskRefused(r) \/ RiskFailed(r)
  PROVE  ChainIInv'
<1>1. Step(r)
  BY DEF RiskStep, RiskRefused, RiskFailed, Step
<1>2. /\ UNCHANGED <<failOpen, gw, ledgerVars, stepVars>>
      /\ app' = app \/ (Awaits(r, "risk") /\ Ends(r, "failopen"))
  BY UnavailableEnds DEF RiskStep, RiskRefused, RiskFailed, chainVars, Deny, Ends
<1>3. Rest /\ LedgerGrows
  BY <1>1, <1>2, StepType, QuietLedger DEF Rest, stepVars, ChainIInv, ChainTypeOK
<1>4. QED
  BY <1>2, <1>3, Ending DEF Awaits

LEMMA RiskAnsweredPreserves ==
  ASSUME ChainIInv, NEW r \in Request, RiskAnswered(r)
  PROVE  ChainIInv'
<1>1. Rest /\ LedgerGrows
  <2>1. TypeOK'
    BY StepType DEF RiskAnswered, Step, ChainIInv, ChainTypeOK
  <2>2. QED
    BY <2>1, QuietLedger DEF RiskAnswered, Rest, stepVars, ChainIInv, ChainTypeOK
<1>2. CASE ~Awaits(r, "risk")
  BY <1>1, <1>2, Ending DEF RiskAnswered
<1>3. CASE Awaits(r, "risk")
  <2> DEFINE x == [app[r] EXCEPT !.pc = "policy"]
             y == [pc |-> "check", risk |-> eval[r].risk, token |-> app[r].token,
                   route |-> app[r].route]
  <2>1. app[r] \in Waiting /\ app[r].token \in Token /\ app[r].route \in Route
    BY <1>3, InFlightIsWaiting DEF Awaits, ChainIInv
  <2>2. eval[r].risk \in Scores
    BY BusyIsRunning DEF RiskAnswered, SetLastSeen, ChainIInv, ChainTypeOK, Running
  <2>3. x \in AppStates /\ x.pc = "policy" /\ x.token = app[r].token /\ x.late = app[r].late
    BY <2>1 DEF AppStates, Waiting
  <2>4. y \in GwStates /\ y.pc = "check" /\ y.token = app[r].token
    BY <2>1, <2>2 DEF GwStates, GatewayCall
  <2>5. app' = [app EXCEPT ![r] = x] /\ gw' = [gw EXCEPT ![r] = y]
    BY <1>3 DEF RiskAnswered
  <2>6. Consistent(app[r], gw[r])
    BY DEF ChainIInv
  <2> HIDE DEF x, y
  <2>7. FitsNext(x, y)
    BY <1>1, <1>3, <2>3, <2>4, <2>6 DEF FitsNext, Consistent, Awaits, LedgerGrows
  <2>8. QED
    BY <1>1, <2>3, <2>4, <2>5, <2>7, RequestStep
<1>4. QED
  BY <1>2, <1>3

-----------------------------------------------------------------------------
(* The gateway's decision *)

LEMMA DecidedChallenges ==
  ASSUME ChainTypeOK, NEW r \in Request, NEW decision, Decided(r, decision)
  PROVE  challenged' \subseteq Token \X Client
<1>1. CASE challenged' = challenged
  BY <1>1 DEF ChainTypeOK
<1>2. CASE Awaits(r, "policy") /\ RequireStepUp(r)
  <2>1. app[r].token \in Token /\ app[r].client \in Client
    BY <1>2, InFlightIsWaiting DEF Awaits
  <2>2. QED
    BY <1>2, <2>1 DEF RequireStepUp, ChainTypeOK
<1>3. QED
  BY <1>1, <1>2 DEF Decided, CallRevoke, Enforce

(* Only a revoke is decided before the policy is asked, so a request that  *)
(* is let past came before its token was visibly revoked.                  *)
LEMMA DecidedPreserves ==
  ASSUME ChainIInv, Rest, UNCHANGED ledgerVars, NEW r \in Request, NEW decision,
         gw[r].pc = "opa" \/ (gw[r].pc = "check" /\ decision = "revoke"),
         Decided(r, decision)
  PROVE  ChainIInv'
<1>1. LedgerGrows
  BY QuietLedger
<1>2. CASE ~Awaits(r, "policy")
  BY <1>1, <1>2, Ending DEF Decided, HangUp
<1>3. ASSUME Awaits(r, "policy") PROVE app[r] \in Waiting /\ app[r].late \in BOOLEAN
  BY <1>3, InFlightIsWaiting DEF ChainIInv, Awaits
<1>4. Consistent(app[r], gw[r])
  BY DEF ChainIInv
<1>5. CASE Awaits(r, "policy") /\ decision = "revoke"
  <2> DEFINE x == [app[r] EXCEPT !.pc = "revoke"]
             y == [gw[r] EXCEPT !.pc = "persist"]
  <2>1. x \in AppStates /\ x.pc = "revoke" /\ x.token = app[r].token /\ x.late = app[r].late
    BY <1>3, <1>5 DEF AppStates, Waiting
  <2>2. gw[r] \in GatewayCall
    BY BusyGateway DEF ChainIInv
  <2>3. y \in GwStates /\ y.pc = "persist"
    BY <2>2 DEF GwStates, GatewayCall
  <2>4. app' = [app EXCEPT ![r] = x] /\ gw' = [gw EXCEPT ![r] = y]
    BY <1>5 DEF Decided, CallRevoke
  <2> HIDE DEF x, y
  <2>5. FitsNext(x, y)
    BY <1>1, <1>4, <1>5, <2>1, <2>3 DEF FitsNext, Consistent, Awaits, LedgerGrows
  <2>6. QED
    BY <1>1, <2>1, <2>3, <2>4, <2>5, RequestStep
<1>6. CASE Awaits(r, "policy") /\ decision # "revoke"
  <2>1. HangUp(r) /\ Enforce(r, decision) /\ gw[r].pc = "opa"
    BY <1>6 DEF Decided
  <2>2. ~app[r].late
    BY <1>4, <1>6, <2>1 DEF Consistent, Awaits
  <2>3. CASE Deny(r)
    BY <1>1, <1>6, <2>1, <2>3, Ending DEF Deny, Ends, HangUp, Awaits
  <2>4. ASSUME NEW by \in {"policy", "stepup"}, Serve(r, by) PROVE ChainIInv'
    <3> DEFINE x == [pc |-> "served", late |-> app[r].late, by |-> by]
    <3>1. x \in AppStates
      BY <1>3, <1>6, ServedType DEF AppStates
    <3>2. x.pc = "served" /\ ~x.late
      BY <2>2
    <3>3. NoCall \in GwStates
      BY DEF GwStates
    <3>4. app' = [app EXCEPT ![r] = x] /\ gw' = [gw EXCEPT ![r] = NoCall]
      BY <2>1, <2>4 DEF Serve, HangUp
    <3> HIDE DEF x
    <3>5. FitsNext(x, NoCall)
      BY <3>2 DEF FitsNext, NoCall
    <3>6. QED
      BY <1>1, <3>1, <3>2, <3>3, <3>4, <3>5, RequestStep
  <2>5. QED
    BY <2>1, <2>3, <2>4 DEF Enforce, RequireStepUp
<1>7. QED
  BY <1>2, <1>5, <1>6

LEMMA CheckRevokedPreserves ==
  ASSUME ChainIInv, NEW r \in Request, CheckRevoked(r)
  PROVE  ChainIInv'
<1>1. CASE ShortCircuits(gw[r].token)
  <2>1. Decided(r, "revoke")
    BY <1>1 DEF CheckRevoked
  <2>2. Rest
    BY <2>1, QuietType, DecidedChallenges DEF CheckRevoked, Rest, ChainIInv, ChainTypeOK
  <2>3. QED
    BY <2>1, <2>2, DecidedPreserves DEF CheckRevoked
<1>2. CASE ~ShortCircuits(gw[r].token)
  <2> DEFINE y == [gw[r] EXCEPT !.pc = "opa"]
  <2>1. Rest /\ LedgerGrows
    BY <1>2, QuietType, QuietLedger DEF CheckRevoked, Rest, ChainIInv, ChainTypeOK
  <2>2. gw[r] \in GatewayCall
    BY BusyGateway DEF ChainIInv, CheckRevoked
  <2>3. y \in GwStates /\ y.pc = "opa" /\ y.token = gw[r].token
    BY <2>2 DEF GwStates, GatewayCall
  <2>4. app[r] \in AppStates /\ app' = [app EXCEPT ![r] = app[r]]
    BY <1>2 DEF CheckRevoked, ChainIInv, ChainTypeOK, AppStates
  <2>5. gw' = [gw EXCEPT ![r] = y]
    BY <1>2 DEF CheckRevoked
  <2>6. Consistent(app[r], gw[r]) /\ gw[r].pc = "check" /\ gw[r].token \notin visible
    BY <1>2 DEF ChainIInv, CheckRevoked, ShortCircuits
  <2> HIDE DEF y
  <2>7. FitsNext(app[r], y)
    BY <2>1, <2>3, <2>6, InFlightIsWaiting DEF FitsNext, Consistent, LedgerGrows, ChainIInv
  <2>8. app[r].pc = "served" /\ app[r].late => app[r].by = "failopen"
    BY DEF ChainIInv, RevokedIsRefused
  <2>9. QED
    BY <2>1, <2>3, <2>4, <2>5, <2>7, <2>8, RequestStep
<1>3. QED
  BY <1>1, <1>2

LEMMA OpaAnswersPreserves ==
  ASSUME ChainIInv, NEW r \in Request, OpaAnswers(r)
  PROVE  ChainIInv'
<1>1. Rest
  BY QuietType, DecidedChallenges DEF OpaAnswers, Rest, ChainIInv, ChainTypeOK
<1>2. QED
  BY <1>1, DecidedPreserves DEF OpaAnswers

LEMMA ChallengeFailsPreserves ==
  ASSUME ChainIInv, NEW r \in Request, ChallengeFails(r)
  PROVE  ChainIInv'
<1>1. Rest /\ LedgerGrows
  BY FaultType, QuietLedger DEF ChallengeFails, Rest, stepVars, ChainIInv, ChainTypeOK
<1>2. QED
  BY <1>1, Ending DEF ChallengeFails, Awaits, HangUp, Deny, Ends

LEMMA PolicyFailsPreserves ==
  ASSUME ChainIInv, NEW r \in Request, PolicyFails(r)
  PROVE  ChainIInv'
<1>1. CASE PolicyUnavailable(r)
  <2>1. Rest /\ LedgerGrows
    BY <1>1, FaultType, QuietLedger
       DEF PolicyUnavailable, PolicyFails, Rest, ChainIInv, ChainTypeOK
  <2>2. app' = app \/ (Awaits(r, "policy") /\ Ends(r, "failopen"))
    BY <1>1, UnavailableEnds DEF PolicyUnavailable
  <2>3. QED
    BY <1>1, <2>1, <2>2, Ending DEF PolicyUnavailable, HangUp, Awaits
<1>2. CASE gw[r].pc = "opa" /\ Decided(r, "allow")
  <2>1. Rest
    BY <1>2, FaultType, DecidedChallenges DEF PolicyFails, Rest, ChainIInv, ChainTypeOK
  <2>2. QED
    BY <1>2, <2>1, DecidedPreserves DEF PolicyFails
<1>3. QED
  BY <1>1, <1>2 DEF PolicyFails

-----------------------------------------------------------------------------
(* The gateway's revoke handler *)

(* A step of the handler: the call takes the state y, the application's    *)
(* request is left alone.                                                  *)
LEMMA HandlerStep ==
  ASSUME ChainIInv, Rest, LedgerGrows, NEW r \in Request, NEW y \in GwStates,
         app' = app, gw' = [gw EXCEPT ![r] = y], y.pc \notin {"check", "opa"},
         y.pc \in {"cache", "answer"} => y.token \in recorded',
         y.pc = "answer" => y.token \in visible' \cup missed'
  PROVE  ChainIInv'
<1>1. app[r] \in AppStates /\ app' = [app EXCEPT ![r] = app[r]]
  BY DEF ChainIInv, ChainTypeOK, AppStates
<1>2. Consistent(app[r], gw[r])
  BY DEF ChainIInv
<1>3. FitsNext(app[r], y)
  BY <1>2 DEF Consistent, FitsNext, LedgerGrows
<1>4. app[r].pc = "served" /\ app[r].late => app[r].by = "failopen"
  BY DEF ChainIInv, RevokedIsRefused
<1>5. QED
  BY <1>1, <1>3, <1>4, RequestStep

(* The next state of a call whose program counter moves.                   *)
LEMMA NextStage ==
  ASSUME ChainTypeOK, NEW r \in Request, NEW pc \in {"cache", "answer"},
         gw[r].pc \in {"check", "opa", "persist", "cache", "answer"}
  PROVE  /\ [gw[r] EXCEPT !.pc = pc] \in GwStates
         /\ [gw[r] EXCEPT !.pc = pc].pc = pc
         /\ [gw[r] EXCEPT !.pc = pc].token = gw[r].token
         /\ gw[r].token \in Token
<1>1. gw[r] \in GatewayCall
  BY BusyGateway
<1>2. QED
  BY <1>1 DEF GwStates, GatewayCall

LEMMA RevokeEndsIsEnding ==
  ASSUME ChainTypeOK, NEW r \in Request, RevokeEnds(r)
  PROVE  /\ app' = app \/ Ends(r, "failopen")
         /\ gw' = [gw EXCEPT ![r] = NoCall]
         /\ app[r].pc \in {"risk", "policy", "revoke"} \/ app' = app
BY DEF RevokeEnds, HangUp, Deny, Ends, Awaits

LEMMA PersistPreserves ==
  ASSUME ChainIInv, NEW r \in Request, Persist(r)
  PROVE  ChainIInv'
<1>1. gw[r].token \in Token
  BY NextStage DEF ChainIInv, Persist
<1>2. Rest
  BY QuietType DEF Persist, Rest, stepVars, ChainIInv, ChainTypeOK
<1>3. LedgerGrows
  BY <1>1 DEF Persist, LedgerGrows, ChainIInv, ChainTypeOK
<1> DEFINE y == [gw[r] EXCEPT !.pc = "cache"]
<1>4. y \in GwStates /\ y.pc = "cache" /\ y.token = gw[r].token
  BY NextStage DEF ChainIInv, Persist
<1>5. app' = app /\ gw' = [gw EXCEPT ![r] = y] /\ y.token \in recorded'
  BY <1>4 DEF Persist
<1> HIDE DEF y
<1>6. QED
  BY <1>2, <1>3, <1>4, <1>5, HandlerStep

LEMMA PersistFailsPreserves ==
  ASSUME ChainIInv, NEW r \in Request, PersistFails(r)
  PROVE  ChainIInv'
<1>1. gw[r].token \in Token
  BY NextStage DEF ChainIInv, PersistFails
<1>2. Rest
  BY FaultType DEF PersistFails, Rest, stepVars, ChainIInv, ChainTypeOK
<1>3. LedgerGrows
  BY <1>1 DEF PersistFails, LedgerGrows, ChainIInv, ChainTypeOK
<1>4. QED
  BY <1>2, <1>3, RevokeEndsIsEnding, Ending DEF PersistFails, ChainIInv

LEMMA PublishPreserves ==
  ASSUME ChainIInv, NEW r \in Request, Publish(r)
  PROVE  ChainIInv'
<1> DEFINE y == [gw[r] EXCEPT !.pc = "answer"]
<1>1. y \in GwStates /\ y.pc = "answer" /\ y.token = gw[r].token /\ gw[r].token \in Token
  BY NextStage DEF ChainIInv, Publish
<1>2. gw[r].token \in recorded
  BY DEF ChainIInv, Consistent, Publish
<1>3. Rest
  BY QuietType DEF Publish, Rest, stepVars, ChainIInv, ChainTypeOK
<1>4. LedgerGrows
  BY <1>1, <1>2 DEF Publish, LedgerGrows, ChainIInv, ChainTypeOK
<1>5. /\ app' = app /\ gw' = [gw EXCEPT ![r] = y]
      /\ y.token \in recorded' /\ y.token \in visible' \cup missed'
  BY <1>1, <1>2 DEF Publish
<1> HIDE DEF y
<1>6. QED
  BY <1>1, <1>3, <1>4, <1>5, HandlerStep

LEMMA PublishFailsPreserves ==
  ASSUME ChainIInv, NEW r \in Request, PublishFails(r)
  PROVE  ChainIInv'
<1> DEFINE y == [gw[r] EXCEPT !.pc = "answer"]
<1>1. y \in GwStates /\ y.pc = "answer" /\ y.token = gw[r].token /\ gw[r].token \in Token
  BY NextStage DEF ChainIInv, PublishFails
<1>2. gw[r].token \in recorded
  BY DEF ChainIInv, Consistent, PublishFails
<1>3. Rest
  BY FaultType DEF PublishFails, Rest, stepVars, ChainIInv, ChainTypeOK
<1>4. LedgerGrows
  BY <1>1, <1>2 DEF PublishFails, LedgerGrows, ChainIInv, ChainTypeOK
<1>5. /\ app' = app /\ gw' = [gw EXCEPT ![r] = y]
      /\ y.token \in recorded' /\ y.token \in visible' \cup missed'
  BY <1>1, <1>2 DEF PublishFails
<1> HIDE DEF y
<1>6. QED
  BY <1>1, <1>3, <1>4, <1>5, HandlerStep

LEMMA AnswerRevokedPreserves ==
  ASSUME ChainIInv, NEW r \in Request, AnswerRevoked(r)
  PROVE  ChainIInv'
<1>1. gw[r].token \in recorded /\ gw[r].token \in visible \cup missed
  BY DEF ChainIInv, Consistent, AnswerRevoked
<1>2. Rest
  BY QuietType DEF AnswerRevoked, Rest, stepVars, ChainIInv, ChainTypeOK
<1>3. LedgerGrows
  BY <1>1 DEF AnswerRevoked, LedgerGrows, ChainIInv, ChainTypeOK
<1>4. QED
  BY <1>2, <1>3, RevokeEndsIsEnding, Ending DEF AnswerRevoked, ChainIInv

-----------------------------------------------------------------------------
(* The rest of the world *)

(* The requests and the gateway's calls stay as they are.                  *)
LEMMA StandStill ==
  ASSUME ChainIInv, Rest, LedgerGrows, UNCHANGED <<app, gw>>
  PROVE  ChainIInv'
<1>1. ChainTypeOK'
  BY DEF ChainIInv, ChainTypeOK, Rest, LedgerGrows
<1>2. ASSUME NEW q \in Request PROVE Consistent(app[q], gw[q])'
  BY DEF ChainIInv, Consistent, LedgerGrows
<1>3. QED
  BY <1>1, <1>2 DEF ChainIInv, LedgerGrows, RevokedIsRefused

LEMMA StepUpVerifiedPreserves ==
  ASSUME ChainIInv, NEW t \in Token, NEW client \in Client, StepUpVerified(t, client)
  PROVE  ChainIInv'
<1>1. now + StepUpTTL \in Nat
  BY RouteAssumption DEF RouteAssumption, ChainIInv, ChainTypeOK, TypeOK
<1>2. Rest /\ LedgerGrows
  BY <1>1, QuietType, QuietLedger DEF StepUpVerified, Rest, ChainIInv, ChainTypeOK
<1>3. QED
  BY <1>2, StandStill DEF StepUpVerified

LEMMA RestorePreserves ==
  ASSUME ChainIInv, NEW t \in Token, Restore(t)
  PROVE  ChainIInv'
<1>1. Rest
  BY QuietType DEF Restore, Rest, stepVars, ChainIInv, ChainTypeOK
<1>2. LedgerGrows
  BY DEF Restore, LedgerGrows, ChainIInv, ChainTypeOK
<1>3. QED
  BY <1>1, <1>2, StandStill DEF Restore

(* A request that is on its way with a lost token is no longer late, so    *)
(* those that still are have a visible one.                                *)
LEMMA LoseKeysPreserves ==
  ASSUME ChainIInv, NEW lost \in SUBSET Token, LoseKeys(lost)
  PROVE  ChainIInv'
<1>1. Rest
  BY FaultType DEF LoseKeys, Rest, stepVars, ChainIInv, ChainTypeOK
<1>2. ASSUME NEW q \in Request, InFlight(q)
      PROVE  /\ app[q] \in Waiting
             /\ [app[q] EXCEPT !.late = FALSE] \in Waiting
             /\ [app[q] EXCEPT !.late = FALSE].pc = app[q].pc
             /\ [app[q] EXCEPT !.late = FALSE].token = app[q].token
             /\ [app[q] EXCEPT !.late = FALSE].late = FALSE
  <2>1. app[q] \in Waiting
    BY <1>2, FlightStages, InFlightIsWaiting DEF ChainIInv
  <2>2. QED
    BY <2>1 DEF Waiting
<1>3. ASSUME NEW q \in Request
      PROVE  /\ app'[q] \in AppStates /\ app'[q].pc = app[q].pc
             /\ app'[q].pc = "served" => app'[q] = app[q]
             /\ InFlight(q) => /\ app'[q].token = app[q].token
                               /\ app'[q].late => app[q].late /\ app[q].token \notin lost
  <2>1. CASE InFlight(q) /\ app[q].token \in lost
    BY <1>2, <2>1 DEF LoseKeys, AppStates, InFlight
  <2>2. CASE ~(InFlight(q) /\ app[q].token \in lost)
    BY <2>2 DEF LoseKeys, AppStates, ChainIInv, ChainTypeOK
  <2>3. QED
    BY <2>1, <2>2
<1>4. app' \in [Request -> AppStates]
  <2>1. app' = [q \in Request |-> app'[q]]
    BY DEF LoseKeys
  <2>2. QED
    BY <1>3, <2>1
<1>5. /\ recorded' \subseteq Token /\ answered' \subseteq recorded'
      /\ visible' \subseteq recorded' /\ missed' \subseteq recorded'
      /\ visible' \cup missed' = visible \cup missed
      /\ answered' \subseteq visible' \cup missed'
  BY DEF LoseKeys, ChainIInv, ChainTypeOK
<1>6. ChainTypeOK'
  BY <1>1, <1>4, <1>5 DEF ChainTypeOK, Rest, AppStates, LoseKeys, ChainIInv
<1>7. ASSUME NEW q \in Request PROVE Consistent(app[q], gw[q])'
  <2>1. Consistent(app[q], gw[q])
    BY DEF ChainIInv
  <2>2. app[q].pc \in {"risk", "policy", "revoke"} <=> InFlight(q)
    BY FlightStages DEF ChainIInv
  <2>3. /\ gw'[q] = gw[q] /\ recorded' = recorded /\ visible' = visible \ lost
    BY DEF LoseKeys
  <2>4. QED
    BY <1>3, <1>5, <2>1, <2>2, <2>3 DEF Consistent
<1>8. RevokedIsRefused'
  BY <1>3 DEF ChainIInv, RevokedIsRefused
<1>9. QED
  BY <1>5, <1>6, <1>7, <1>8 DEF ChainIInv

LEMMA QuietWorldPreserves ==
  ASSUME ChainIInv, UNCHANGED chainVars,
         Clock \/ (\E lost \in SUBSET Token : LoseMemory(lost)) \/ UNCHANGED vars
  PROVE  ChainIInv'
<1>1. TypeOK'
  BY OtherType DEF ChainIInv, ChainTypeOK, Clock, LoseMemory
<1>2. Rest /\ LedgerGrows
  BY <1>1, QuietLedger DEF chainVars, stepVars, Rest, ChainIInv, ChainTypeOK
<1>3. QED
  BY <1>2, StandStill DEF chainVars

-----------------------------------------------------------------------------
(* The invariant *)

LEMMA ChainInitInv == ChainInit => ChainIInv
<1> SUFFICES ASSUME ChainInit PROVE ChainIInv
  OBVIOUS
<1>1. TypeOK
  BY TypeInit DEF ChainInit
<1>2. ChainTypeOK
  BY <1>1 DEF ChainInit, ChainTypeOK
<1>3. ASSUME NEW r \in Request PROVE Consistent(app[r], gw[r])
  BY DEF ChainInit, Consistent, Idle, NoCall
<1>4. RevokedIsRefused
  BY DEF ChainInit, RevokedIsRefused, Idle
<1>5. QED
  BY <1>2, <1>3, <1>4 DEF ChainInit, ChainIInv

LEMMA ChainIInvNext == ChainIInv /\ [ChainNext]_allVars => ChainIInv'
<1> SUFFICES ASSUME ChainIInv, [ChainNext]_allVars PROVE ChainIInv'
  OBVIOUS
<1>1. ASSUME NEW r \in Request, ChainStep(r) PROVE ChainIInv'
  BY <1>1, ArrivePreserves, TimeoutPreserves, EnginePreserves, RiskAnsweredPreserves,
     CheckRevokedPreserves, OpaAnswersPreserves, ChallengeFailsPreserves,
     PolicyFailsPreserves, PersistPreserves, PersistFailsPreserves, PublishPreserves,
     PublishFailsPreserves, AnswerRevokedPreserves
  DEF ChainStep
<1>2. CASE Clock \/ (\E lost \in SUBSET Token : LoseMemory(lost)) \/ UNCHANGED allVars
  BY <1>2, QuietWorldPreserves DEF Clock, LoseMemory, allVars
<1>3. QED
  BY <1>1, <1>2, StepUpVerifiedPreserves, RestorePreserves, LoseKeysPreserves DEF ChainNext

LEMMA ChainInvCorrect == ChainSpec => []ChainIInv
BY ChainInitInv, ChainIInvNext, PTL DEF ChainSpec

(* Application, gateway, ledger and step-up state keep their types, and    *)
(* nothing is answered, visible or missed that was not recorded.           *)
THEOREM ChainTypeCorrect == ChainSpec => []ChainTypeOK
<1>1. ChainIInv => ChainTypeOK
  BY DEF ChainIInv
<1>2. QED
  BY ChainInvCorrect, <1>1, PTL

(* A request that comes after its token was visibly revoked passes only an *)
(* application that fails open without a decision.                         *)
THEOREM RevokedRefused == ChainSpec => []RevokedIsRefused
<1>1. ChainIInv => RevokedIsRefused
  BY DEF ChainIInv
<1>2. QED
  BY ChainInvCorrect, <1>1, PTL

-----------------------------------------------------------------------------
(* The chain implements the revocation ledger *)

LEMMA ChainStepImplements ==
  ASSUME ChainIInv, [ChainNext]_allVars
  PROVE  [ChainLedger!Next]_(ChainLedger!lvars)
<1>1. CASE UNCHANGED <<recorded, answered, visible>>
  BY <1>1 DEF ChainLedger!lvars
<1>2. ASSUME NEW r \in Request, ChainStep(r)
      PROVE  [ChainLedger!Next]_(ChainLedger!lvars)
  <2>1. \/ UNCHANGED <<recorded, answered, visible>>
        \/ Persist(r) \/ PersistFails(r) \/ Publish(r) \/ AnswerRevoked(r)
    BY <1>2
    DEF ChainStep, Arrive, Timeout, RiskStep, RiskAnswered, RiskRefused, RiskFailed,
        CheckRevoked, OpaAnswers, ChallengeFails, PolicyFails, PublishFails,
        chainVars, ledgerVars
  <2>2. Consistent(app[r], gw[r])
    BY DEF ChainIInv
  <2>3. CASE Persist(r) \/ PersistFails(r)
    <3>1. gw[r].token \in Token
      BY <2>3, NextStage DEF Persist, PersistFails, ChainIInv
    <3>2. \/ UNCHANGED <<recorded, answered, visible>>
          \/ ChainLedger!Record(gw[r].token)
      BY <2>3 DEF Persist, PersistFails, ChainLedger!Record
    <3>3. QED
      BY <1>1, <3>1, <3>2 DEF ChainLedger!Next
  <2>4. CASE Publish(r)
    <3>1. gw[r].token \in Token
      BY <2>4, NextStage DEF Publish, ChainIInv
    <3>2. ChainLedger!Show(gw[r].token)
      BY <2>2, <2>4 DEF Publish, Consistent, ChainLedger!Show
    <3>3. QED
      BY <3>1, <3>2 DEF ChainLedger!Next
  <2>5. CASE AnswerRevoked(r)
    <3>1. gw[r].token \in Token
      BY <2>5, NextStage DEF AnswerRevoked, ChainIInv
    <3>2. ChainLedger!Answer(gw[r].token)
      BY <2>2, <2>5 DEF AnswerRevoked, Consistent, ChainLedger!Answer
    <3>3. QED
      BY <3>1, <3>2 DEF ChainLedger!Next
  <2>6. QED
    BY <1>1, <2>1, <2>3, <2>4, <2>5
<1>3. ASSUME NEW t \in Token, Restore(t)
      PROVE  [ChainLedger!Next]_(ChainLedger!lvars)
  <2>1. ChainLedger!Show(t)
    BY <1>3 DEF Restore, ChainLedger!Show
  <2>2. QED
    BY <2>1 DEF ChainLedger!Next
<1>4. ASSUME NEW lost \in SUBSET Token, LoseKeys(lost)
      PROVE  [ChainLedger!Next]_(ChainLedger!lvars)
  <2>1. ChainLedger!Hide
    BY <1>4 DEF LoseKeys, ChainLedger!Hide
  <2>2. QED
    BY <2>1 DEF ChainLedger!Next
<1>5. ASSUME \/ \E t \in Token, client \in Client : StepUpVerified(t, client)
             \/ \E lost \in SUBSET Token : LoseMemory(lost)
             \/ Clock \/ UNCHANGED allVars
      PROVE  UNCHANGED <<recorded, answered, visible>>
  BY <1>5 DEF StepUpVerified, LoseMemory, Clock, allVars, chainVars, ledgerVars
<1>6. QED
  BY <1>1, <1>2, <1>3, <1>4, <1>5 DEF ChainNext

(* The chain records, answers, shows and hides tokens only as the          *)
(* revocation ledger allows, whatever requests and failures interleave.    *)
THEOREM ChainImplementsLedger == ChainSpec => ChainLedgerSpec
<1>1. ChainInit => ChainLedger!Init
  BY DEF ChainInit, ChainLedger!Init
<1>2. ChainIInv /\ [ChainNext]_allVars => [ChainLedger!Next]_(ChainLedger!lvars)
  BY ChainStepImplements
<1>3. QED
  BY <1>1, <1>2, ChainInvCorrect, PTL DEF ChainSpec, ChainLedgerSpec, ChainLedger!Spec

-----------------------------------------------------------------------------
(* The replay property of the risk engine inside the chain *)

(* Every step of the chain is a step of the risk engine or leaves all of   *)
(* its state but the count of faults alone.                                *)
LEMMA EngineStep ==
  ASSUME [ChainNext]_allVars
  PROVE  [Next]_vars \/ UNCHANGED <<now, engineVars>>
<1>1. ASSUME NEW r \in Request, ChainStep(r)
      PROVE  Step(r) \/ UNCHANGED <<now, engineVars>>
  <2>1. ASSUME NEW t \in Token, NEW client \in Shown, NEW route \in Route,
               Arrive(r, t, client, route)
        PROVE  Step(r)
    <3>1. route.sensitivity \in Sensitivity
      BY RouteAssumption DEF RouteAssumption
    <3>2. QED
      BY <2>1, <3>1 DEF Arrive, Step
  <2>2. CASE RiskStep(r) \/ RiskAnswered(r) \/ RiskRefused(r) \/ RiskFailed(r)
    BY <2>2 DEF RiskStep, RiskAnswered, RiskRefused, RiskFailed, Step
  <2>3. CASE \/ Timeout(r) \/ CheckRevoked(r) \/ OpaAnswers(r) \/ ChallengeFails(r)
             \/ PolicyFails(r) \/ Persist(r) \/ PersistFails(r) \/ Publish(r)
             \/ PublishFails(r) \/ AnswerRevoked(r)
    BY <2>3
    DEF Timeout, CheckRevoked, OpaAnswers, ChallengeFails, PolicyFails, Persist,
        PersistFails, Publish, PublishFails, AnswerRevoked, vars
  <2>4. QED
    BY <1>1, <2>1, <2>2, <2>3 DEF ChainStep
<1>2. CASE \E t \in Token, client \in Client : StepUpVerified(t, client)
  BY <1>2 DEF StepUpVerified
<1>3. CASE \E t \in Token : Restore(t)
  BY <1>3 DEF Restore
<1>4. CASE \E lost \in SUBSET Token : LoseKeys(lost) \/ LoseMemory(lost)
  BY <1>4 DEF LoseKeys, LoseMemory, Next
<1>5. CASE Clock
  BY <1>5 DEF Clock, Next
<1>6. CASE UNCHANGED allVars
  BY <1>6 DEF allVars
<1>7. QED
  BY <1>1, <1>2, <1>3, <1>4, <1>5, <1>6 DEF ChainNext, Next

(* In the whole chain too, two addresses are served a token within the     *)
(* window only through a gap in the memory.                                *)
THEOREM ReplayCaughtInChain == ChainSpec => []ReplayNeedsGap
<1>1. ChainInit => IInv
  BY IInvInit DEF ChainInit
<1>2. ChainIInv /\ ChainIInv' /\ IInv /\ [ChainNext]_allVars => IInv'
  <2> SUFFICES ASSUME ChainIInv', IInv, [ChainNext]_allVars PROVE IInv'
    OBVIOUS
  <2>1. CASE [Next]_vars
    BY <2>1, IInvNext
  <2>2. CASE UNCHANGED <<now, engineVars>>
    <3>1. TypeOK'
      BY DEF ChainIInv, ChainTypeOK
    <3>2. \A r \in Request : Reading(r)' => Reading(r) /\ eval'[r] = eval[r]
      BY <2>2 DEF engineVars, Reading
    <3>3. QED
      BY <2>2, <3>1, <3>2, QuietSteps DEF engineVars
  <2>3. QED
    BY <2>1, <2>2, EngineStep
<1>3. IInv => ReplayNeedsGap
  BY DEF IInv
<1>4. QED
  BY <1>1, <1>2, <1>3, ChainInvCorrect, PTL DEF ChainSpec
=============================================================================
