---------------------------- MODULE StepUpProofs ----------------------------
(***************************************************************************)
(* Step-up authentication for any number of requests, challenges, users    *)
(* and addresses, any limits and TTLs: types, one acceptance per code,     *)
(* tokens bound to their challenge, and the limits on guesses.             *)
(***************************************************************************)
EXTENDS StepUp, FiniteSetTheorems, TLAPS

(* What a step of r leaves to the other requests.                          *)
Only(r) == \A q \in Verifier : q # r => req'[q] = req[q] /\ (q \in slow' <=> q \in slow)

ReqOK == req' \in [Verifier -> RequestState] /\ slow' \subseteq {q \in Verifier : req'[q].pc # "idle"}

-----------------------------------------------------------------------------
(* Types *)

LEMMA IdleType == NoWork \in RequestState
BY StepUpAssumption DEF StepUpAssumption, NoWork, RequestState, PCs, Code

LEMMA FinishType ==
  ASSUME StepUpTypeOK, NEW r \in Verifier, Finish(r)
  PROVE  ReqOK /\ Only(r) /\ req'[r] = NoWork
BY IdleType DEF StepUpTypeOK, Finish, ReqOK, Only

LEMMA GotoType ==
  ASSUME StepUpTypeOK, NEW r \in Verifier, NEW label \in PCs \ {"idle"}, Goto(r, label), UNCHANGED slow
  PROVE  ReqOK /\ Only(r) /\ req'[r] = [req[r] EXCEPT !.pc = label]
<1>1. [req[r] EXCEPT !.pc = label] \in RequestState /\ [req[r] EXCEPT !.pc = label].pc # "idle"
  BY DEF StepUpTypeOK, RequestState
<1> DEFINE x == [req[r] EXCEPT !.pc = label]
<1>2. req' = [req EXCEPT ![r] = x]
  BY DEF Goto
<1> HIDE DEF x
<1>3. QED
  BY <1>1, <1>2 DEF StepUpTypeOK, ReqOK, Only, x

LEMMA AdmitType ==
  ASSUME StepUpTypeOK, NEW r \in Verifier, NEW over, Admit(r, over)
  PROVE  /\ ReqOK /\ Only(r)
         /\ req'[r] = NoWork \/ req'[r] = [req[r] EXCEPT !.pc = "user"]
BY FinishType, GotoType DEF Admit, PCs

(* Every step of a request keeps the types of the requests.                *)
LEMMA RequestsType ==
  ASSUME StepUpTypeOK, NEW r \in Verifier, VerifyStep(r)
  PROVE  ReqOK /\ Only(r)
<1>1. CASE Throttle(r)
  <2>1. CASE NeedsExpiry(req[r].ip)
    <3> DEFINE over == count[req[r].ip] + 1 > IpMaxAttempts
               x == [req[r] EXCEPT !.pc = "ipExpire", !.over = over]
    <3>0. over \in BOOLEAN
      OBVIOUS
    <3> HIDE DEF over
    <3>1. x \in RequestState /\ x.pc # "idle"
      BY <3>0 DEF StepUpTypeOK, RequestState, PCs
    <3>2. req' = [req EXCEPT ![r] = x] /\ slow' = slow
      BY <1>1, <2>1 DEF Throttle, over
    <3> HIDE DEF x
    <3>3. QED
      BY <3>1, <3>2 DEF StepUpTypeOK, ReqOK, Only
  <2>2. QED
    BY <1>1, <2>1, AdmitType DEF Throttle
<1>2. CASE ExpireIp(r)
  BY <1>2, AdmitType DEF ExpireIp
<1>3. CASE ReadUser(r)
  <2> DEFINE u == chal[req[r].h].user
             x == [req[r] EXCEPT !.pc = "load", !.user = u]
  <2>0. req[r] \in RequestState /\ req[r].h \in Challenge /\ u \in User \cup {Nobody}
    BY DEF StepUpTypeOK, RequestState, ChallengeHash
  <2> HIDE DEF u
  <2>1. x \in RequestState /\ x.pc # "idle"
    BY <2>0 DEF RequestState, PCs
  <2> USE DEF u
  <2> HIDE DEF x
  <2>2. CASE req' = [req EXCEPT ![r] = x] /\ slow' = slow
    BY <2>1, <2>2 DEF StepUpTypeOK, ReqOK, Only
  <2>3. QED
    BY <1>3, <2>2, FinishType DEF ReadUser, x
<1>4. CASE LoadEntry(r)
  <2> DEFINE j == chal[req[r].h].jti
             x == [req[r] EXCEPT !.pc = "locked", !.jti = j]
  <2>0. req[r] \in RequestState /\ req[r].h \in Challenge /\ j \in Jti \cup {NoJti}
    BY DEF StepUpTypeOK, RequestState, ChallengeHash
  <2> HIDE DEF j
  <2>1. x \in RequestState /\ x.pc # "idle"
    BY <2>0 DEF RequestState, PCs
  <2> USE DEF j
  <2> HIDE DEF x
  <2>2. CASE req' = [req EXCEPT ![r] = x] /\ slow' = slow
    BY <2>1, <2>2 DEF StepUpTypeOK, ReqOK, Only
  <2>3. QED
    BY <1>4, <2>2, FinishType DEF LoadEntry, x
<1>5. CASE CheckLocked(r)
  BY <1>5, FinishType, GotoType DEF CheckLocked, PCs
<1>6. CASE CountAttempt(r)
  BY <1>6, GotoType DEF CountAttempt, PCs
<1>7. CASE DestroyChallenge(r) \/ TakeChallenge(r) \/ Abandon(r) \/ ExpireFailures(r)
  BY <1>7, FinishType DEF DestroyChallenge, TakeChallenge, Abandon, ExpireFailures
<1>8. CASE MatchCode(r)
  BY <1>8, GotoType DEF MatchCode, PCs
<1>9. CASE ConsumeCode(r)
  BY <1>9, GotoType DEF ConsumeCode, PCs
<1>10. CASE CountFailure(r)
  BY <1>10, FinishType, GotoType DEF CountFailure, PCs
<1>11. QED
  BY <1>1, <1>2, <1>3, <1>4, <1>5, <1>6, <1>7, <1>8, <1>9, <1>10 DEF VerifyStep

LEMMA IncrementedType ==
  ASSUME StepUpTypeOK, NEW h \in Challenge
  PROVE  /\ Incremented(h) \in ChallengeHash /\ Absent \in ChallengeHash
         /\ chal[h] # Absent => /\ Incremented(h).attempts = chal[h].attempts + 1
                                /\ Incremented(h).user = chal[h].user
                                /\ Incremented(h).jti = chal[h].jti
                                /\ Incremented(h).ends = chal[h].ends
         /\ chal[h] = Absent => Incremented(h).user = Nobody
<1>1. chal[h] \in ChallengeHash /\ Absent \in ChallengeHash
  BY DEF StepUpTypeOK, ChallengeHash, Absent
<1>2. CASE chal[h] # Absent
  BY <1>1, <1>2 DEF Incremented, Exists, ChallengeHash
<1>3. CASE chal[h] = Absent
  BY <1>1, <1>3 DEF Incremented, Exists, ChallengeHash, Absent
<1>4. QED
  BY <1>1, <1>2, <1>3

(* The variables other than the requests.                                  *)
LEMMA StoreType ==
  ASSUME StepUpTypeOK, BindInv, CodeInv, NEW r \in Verifier, VerifyStep(r)
  PROVE  StepUpTypeOK'
<1>1. ReqOK
  BY RequestsType
<1>2. /\ req[r].h \in Challenge /\ req[r].ip \in Key /\ req[r].user \in User \cup {Nobody}
      /\ req[r].pc \in {"match", "consume", "fail", "failExpire", "take"} => req[r].user \in User
  BY DEF StepUpTypeOK, RequestState, Key, BindInv, Loaded
<1>3. step' = step /\ issued' = issued
  BY DEF VerifyStep, Throttle, ExpireIp, ReadUser, LoadEntry, CheckLocked, CountAttempt,
     DestroyChallenge, MatchCode, ConsumeCode, CountFailure, ExpireFailures, TakeChallenge,
     Abandon, ghosts
<1>4. chal' \in [Challenge -> ChallengeHash]
  <2>1. \/ chal' = chal \/ chal' = [chal EXCEPT ![req[r].h] = Incremented(req[r].h)]
        \/ chal' = [chal EXCEPT ![req[r].h] = Absent]
    BY DEF VerifyStep, Throttle, ExpireIp, ReadUser, LoadEntry, CheckLocked, CountAttempt,
       DestroyChallenge, MatchCode, ConsumeCode, CountFailure, ExpireFailures,
       TakeChallenge, Abandon, store
  <2>2. QED
    BY <1>2, <2>1, IncrementedType DEF StepUpTypeOK
<1>5. count' \in [Key -> Nat] /\ ends' \in [Key -> Nat \cup {Never}]
  <2>1. \/ UNCHANGED <<count, ends>>
        \/ \E k \in Key : Bump(k) /\ UNCHANGED ends
        \/ \E k \in Key, w \in {IpWindow, UserWindow} : ExpireKey(k, w) /\ UNCHANGED count
    BY <1>2 DEF VerifyStep, Throttle, ExpireIp, ReadUser, LoadEntry, CheckLocked, CountAttempt,
       DestroyChallenge, MatchCode, ConsumeCode, CountFailure, ExpireFailures,
       TakeChallenge, Abandon, store, Key
  <2>2. step + IpWindow \in Nat /\ step + UserWindow \in Nat
    BY StepUpAssumption DEF StepUpAssumption, StepUpTypeOK
  <2>3. QED
    BY <2>1, <2>2 DEF StepUpTypeOK, Bump, ExpireKey
<1>6. used' \in [User -> [Counter -> Nat]] /\ spent' \subseteq User \X Counter
  <2>1. CASE UNCHANGED <<used, spent>>
    BY <2>1 DEF StepUpTypeOK
  <2>2. CASE ConsumeCode(r) /\ used[req[r].user][req[r].code] = 0
    <3>1. req[r].user \in User /\ req[r].code \in Counter
      BY <1>2, <2>2 DEF ConsumeCode, CodeInv
    <3>2. step + UsedTTL \in Nat
      BY StepUpAssumption DEF StepUpAssumption, StepUpTypeOK, UsedTTL
    <3>3. /\ used' = [used EXCEPT ![req[r].user][req[r].code] = step + UsedTTL]
          /\ spent' = spent \cup {<<req[r].user, req[r].code>>}
      BY <2>2 DEF ConsumeCode
    <3>4. QED
      BY <3>1, <3>2, <3>3 DEF StepUpTypeOK
  <2>3. QED
    BY <2>1, <2>2 DEF VerifyStep, Throttle, ExpireIp, ReadUser, LoadEntry, CheckLocked,
       CountAttempt, DestroyChallenge, MatchCode, ConsumeCode, CountFailure,
       ExpireFailures, TakeChallenge, Abandon, store, ghosts
<1>7. tries' \in [Challenge -> Nat]
  <2>1. tries' = tries \/ tries' = [tries EXCEPT ![req[r].h] = @ + 1]
    BY DEF VerifyStep, Throttle, ExpireIp, ReadUser, LoadEntry, CheckLocked, CountAttempt,
       DestroyChallenge, MatchCode, ConsumeCode, CountFailure, ExpireFailures,
       TakeChallenge, Abandon, ghosts
  <2>2. QED
    BY <1>2, <2>1 DEF StepUpTypeOK
<1>8. failures' \in [User -> Nat]
  <2>1. failures' = failures \/ (req[r].user \in User /\ Refused(r))
    BY <1>2 DEF VerifyStep, Throttle, ExpireIp, ReadUser, LoadEntry, CheckLocked, CountAttempt,
       DestroyChallenge, MatchCode, ConsumeCode, CountFailure, ExpireFailures,
       TakeChallenge, Abandon, ghosts
  <2>2. QED
    BY <2>1 DEF StepUpTypeOK, Refused
<1>9. abandons' \in Nat
  BY DEF StepUpTypeOK, VerifyStep, Throttle, ExpireIp, ReadUser, LoadEntry, CheckLocked, CountAttempt,
     DestroyChallenge, MatchCode, ConsumeCode, CountFailure, ExpireFailures,
     TakeChallenge, Abandon, ghosts
<1>10. QED
  BY <1>1, <1>3, <1>4, <1>5, <1>6, <1>7, <1>8, <1>9 DEF StepUpTypeOK, ReqOK

LEMMA CreateType ==
  ASSUME StepUpTypeOK, NEW h \in Challenge, NEW u \in User, NEW j \in Jti, CreateChallenge(h, u, j)
  PROVE  /\ StepUpTypeOK'
         /\ \A g \in Challenge \ {h} : chal'[g] = chal[g] /\ issued'[g] = issued[g]
         /\ chal'[h] = [user |-> u, jti |-> j, attempts |-> 0, ends |-> step + ChallengeTTL]
         /\ issued'[h] = chal'[h]
<1> DEFINE e == [user |-> u, jti |-> j, attempts |-> 0, ends |-> step + ChallengeTTL]
<1>1. step + ChallengeTTL \in Nat
  BY StepUpAssumption DEF StepUpAssumption, StepUpTypeOK
<1>2. e \in ChallengeHash /\ e \in [user : User \cup {Nobody}, jti : Jti \cup {NoJti}, attempts : Nat, ends : Nat]
  BY <1>1 DEF ChallengeHash
<1>3. chal' = [chal EXCEPT ![h] = e] /\ issued' = [issued EXCEPT ![h] = chal'[h]]
  BY DEF CreateChallenge
<1> HIDE DEF e
<1>4. /\ chal'[h] = e /\ issued'[h] = e
      /\ \A g \in Challenge \ {h} : chal'[g] = chal[g] /\ issued'[g] = issued[g]
  BY <1>3 DEF StepUpTypeOK
<1>5. StepUpTypeOK'
  BY <1>2, <1>3, <1>4 DEF StepUpTypeOK, CreateChallenge
<1>6. QED
  BY <1>4, <1>5 DEF e

LEMMA SubmitType ==
  ASSUME StepUpTypeOK, NEW r \in Verifier, NEW ip \in Address, NEW h \in Challenge, NEW c \in Code,
         Submit(r, ip, h, c)
  PROVE  /\ StepUpTypeOK' /\ Only(r) /\ req[r].pc = "idle" /\ req'[r].pc = "throttle"
<1> DEFINE x == [NoWork EXCEPT !.pc = "throttle", !.ip = ip, !.h = h, !.code = c]
<1>1. x \in RequestState /\ x.pc = "throttle"
  BY IdleType DEF RequestState, PCs
<1>2. req' = [req EXCEPT ![r] = x] /\ slow' = slow /\ req[r].pc = "idle"
  BY DEF Submit
<1> HIDE DEF x
<1>3. ReqOK /\ Only(r) /\ req'[r] = x
  BY <1>1, <1>2 DEF StepUpTypeOK, ReqOK, Only
<1>4. QED
  BY <1>1, <1>2, <1>3 DEF Submit, StepUpTypeOK, ReqOK, store, ghosts

LEMMA TickType ==
  ASSUME StepUpTypeOK, NextStep
  PROVE  StepUpTypeOK'
<1>1. step' \in 1..MaxStep
  BY StepUpAssumption DEF StepUpAssumption, StepUpTypeOK, NextStep
<1>2. chal' \in [Challenge -> ChallengeHash]
  BY DEF StepUpTypeOK, NextStep, Absent, ChallengeHash
<1>3. count' \in [Key -> Nat] /\ ends' \in [Key -> Nat \cup {Never}]
  BY DEF StepUpTypeOK, NextStep
<1>4. failures' \in [User -> Nat]
  BY DEF StepUpTypeOK, NextStep
<1>5. used' \in [User -> [Counter -> Nat]]
  BY DEF StepUpTypeOK, NextStep
<1>6. QED
  BY <1>1, <1>2, <1>3, <1>4, <1>5 DEF StepUpTypeOK, NextStep

LEMMA StutterType == ASSUME StepUpTypeOK, UNCHANGED stepUpVars PROVE StepUpTypeOK'
BY DEF StepUpTypeOK, stepUpVars, store, ghosts

-----------------------------------------------------------------------------
(* Tokens are bound to their challenge *)

(* A step that creates no entry, changes none but to count or delete it,   *)
(* and takes r on with what it read.                                       *)
LEMMA BindStep ==
  ASSUME StepUpIInv, StepUpTypeOK', NEW r \in Verifier, Only(r), UNCHANGED issued,
         \A h \in Challenge : chal'[h].user # Nobody =>
             /\ chal'[h].user = chal[h].user /\ chal'[h].jti = chal[h].jti
             /\ chal'[h].ends = chal[h].ends,
         req'[r].pc = "load" => req'[r].user \in User,
         req'[r].pc \in Loaded => /\ req'[r].user \in User
                                  /\ req'[r].user = issued[req'[r].h].user
                                  /\ req'[r].jti = issued[req'[r].h].jti,
         \A m \in minted' \ minted : /\ m.h \in Challenge /\ m.user \in User
                                     /\ m.user = issued[m.h].user /\ m.jti = issued[m.h].jti
  PROVE  BindInv'
<1>1. BindInv
  BY DEF StepUpIInv
<1>2. ASSUME NEW q \in Verifier
      PROVE  /\ req'[q].pc = "load" => req'[q].user \in User
             /\ req'[q].pc \in Loaded => /\ req'[q].user \in User
                                        /\ req'[q].user = issued[req'[q].h].user
                                        /\ req'[q].jti = issued[req'[q].h].jti
  BY <1>1 DEF BindInv, Only
<1>3. \A h \in Challenge : chal'[h].user # Nobody =>
          /\ chal'[h].user = issued[h].user /\ chal'[h].jti = issued[h].jti
          /\ chal'[h].ends = issued[h].ends
  BY <1>1 DEF BindInv
<1>4. \A m \in minted' : /\ m.h \in Challenge /\ m.user \in User
                         /\ m.user = issued[m.h].user /\ m.jti = issued[m.h].jti
  BY <1>1 DEF BindInv, TokenBoundToChallenge
<1>5. QED
  BY <1>2, <1>3, <1>4 DEF BindInv, TokenBoundToChallenge

(* The label moves between stages that carry the same data.                *)
LEMMA BindMove ==
  ASSUME StepUpIInv, StepUpTypeOK', NEW r \in Verifier, Only(r), UNCHANGED <<issued, minted>>,
         \A h \in Challenge : chal'[h].user # Nobody =>
             /\ chal'[h].user = chal[h].user /\ chal'[h].jti = chal[h].jti
             /\ chal'[h].ends = chal[h].ends,
         \/ req'[r].pc \in {"idle", "throttle", "ipExpire", "user"}
         \/ /\ req[r].pc \in Loaded /\ req'[r].h = req[r].h
            /\ req'[r].user = req[r].user /\ req'[r].jti = req[r].jti
  PROVE  BindInv'
<1>1. req[r].pc \in Loaded => /\ req[r].user \in User
                              /\ req[r].user = issued[req[r].h].user
                              /\ req[r].jti = issued[req[r].h].jti
  BY DEF StepUpIInv, BindInv
<1>2. CASE req'[r].pc \in {"idle", "throttle", "ipExpire", "user"}
  BY <1>2, BindStep DEF Loaded
<1>3. CASE /\ req[r].pc \in Loaded /\ req'[r].h = req[r].h
           /\ req'[r].user = req[r].user /\ req'[r].jti = req[r].jti
  BY <1>1, <1>3, BindStep
<1>4. QED
  BY <1>2, <1>3

(* A request's data after Goto.                                            *)
LEMMA Kept ==
  ASSUME StepUpTypeOK, NEW r \in Verifier, NEW label
  PROVE  /\ [req[r] EXCEPT !.pc = label].h = req[r].h
         /\ [req[r] EXCEPT !.pc = label].user = req[r].user
         /\ [req[r] EXCEPT !.pc = label].jti = req[r].jti
         /\ [req[r] EXCEPT !.pc = label].code = req[r].code
         /\ [req[r] EXCEPT !.pc = label].ip = req[r].ip
         /\ [req[r] EXCEPT !.pc = label].pc = label
         /\ NoWork.pc = "idle"
BY DEF StepUpTypeOK, RequestState, NoWork

LEMMA FinishIdle ==
  ASSUME StepUpTypeOK, NEW r \in Verifier, Finish(r)
  PROVE  req'[r].pc = "idle"
<1>1. req'[r] = NoWork
  BY FinishType
<1>2. NoWork.pc = "idle"
  BY DEF NoWork
<1>3. QED
  BY <1>1, <1>2

LEMMA GotoKept ==
  ASSUME StepUpTypeOK, NEW r \in Verifier, NEW label \in PCs \ {"idle"}, Goto(r, label)
  PROVE  /\ req'[r].pc = label
         /\ req'[r].h = req[r].h /\ req'[r].user = req[r].user /\ req'[r].jti = req[r].jti
         /\ req'[r].code = req[r].code /\ req'[r].ip = req[r].ip
<1>1. req'[r] = [req[r] EXCEPT !.pc = label]
  BY DEF Goto, StepUpTypeOK
<1>2. QED
  BY <1>1, Kept

(* What the steps past the lock check do to their own request.             *)
LEMMA LateShape ==
  ASSUME StepUpTypeOK, NEW r \in Verifier,
         \/ CheckLocked(r) \/ CountAttempt(r) \/ DestroyChallenge(r) \/ MatchCode(r)
         \/ ConsumeCode(r) \/ CountFailure(r) \/ ExpireFailures(r) \/ TakeChallenge(r)
         \/ Abandon(r)
  PROVE  \/ req'[r].pc = "idle"
         \/ /\ req'[r].h = req[r].h /\ req'[r].user = req[r].user /\ req'[r].jti = req[r].jti
            /\ req'[r].code = req[r].code /\ req'[r].ip = req[r].ip
            /\ req[r].pc \in Loaded
<1>1. \/ Finish(r) \/ \E label \in PCs \ {"idle"} : Goto(r, label)
  BY DEF CheckLocked, CountAttempt, DestroyChallenge, MatchCode, ConsumeCode, CountFailure,
     ExpireFailures, TakeChallenge, Abandon, PCs
<1>2. CASE Abandon(r)
  BY <1>2, FinishIdle DEF Abandon
<1>3. CASE ~Abandon(r)
  BY <1>1, <1>3, FinishIdle, GotoKept
  DEF CheckLocked, CountAttempt, DestroyChallenge, MatchCode, ConsumeCode, CountFailure,
     ExpireFailures, TakeChallenge, Loaded
<1>4. QED
  BY <1>2, <1>3

LEMMA EarlyShape ==
  ASSUME StepUpTypeOK, NEW r \in Verifier, Throttle(r) \/ ExpireIp(r)
  PROVE  req'[r].pc \in {"idle", "ipExpire", "user"}
<1>1. Throttle(r) /\ NeedsExpiry(req[r].ip) => req'[r].pc = "ipExpire"
  BY DEF Throttle, StepUpTypeOK, RequestState
<1>2. ASSUME NEW over, Admit(r, over) PROVE req'[r].pc \in {"idle", "user"}
  <2>1. req'[r] = NoWork \/ req'[r] = [req[r] EXCEPT !.pc = "user"]
    BY <1>2, AdmitType
  <2>2. [req[r] EXCEPT !.pc = "user"].pc = "user" /\ NoWork.pc = "idle"
    BY DEF StepUpTypeOK, RequestState, NoWork
  <2>3. QED
    BY <2>1, <2>2
<1>3. QED
  BY <1>1, <1>2 DEF Throttle, ExpireIp

LEMMA BindPreserved ==
  ASSUME StepUpIInv, StepUpTypeOK', NEW r \in Verifier, VerifyStep(r)
  PROVE  BindInv'
<1> USE DEF StepUpIInv
<1>1. Only(r) /\ issued' = issued /\ req[r].h \in Challenge
  BY RequestsType DEF VerifyStep, Throttle, ExpireIp, ReadUser, LoadEntry, CheckLocked,
     CountAttempt, DestroyChallenge, MatchCode, ConsumeCode, CountFailure, ExpireFailures,
     TakeChallenge, Abandon, ghosts, StepUpTypeOK, RequestState
<1>2. \A h \in Challenge : chal'[h].user # Nobody =>
             /\ chal'[h].user = chal[h].user /\ chal'[h].jti = chal[h].jti
             /\ chal'[h].ends = chal[h].ends
  <2>1. \/ chal' = chal \/ chal' = [chal EXCEPT ![req[r].h] = Incremented(req[r].h)]
        \/ chal' = [chal EXCEPT ![req[r].h] = Absent]
    BY DEF VerifyStep, Throttle, ExpireIp, ReadUser, LoadEntry, CheckLocked, CountAttempt,
       DestroyChallenge, MatchCode, ConsumeCode, CountFailure, ExpireFailures,
       TakeChallenge, Abandon, store
  <2>2. Absent.user = Nobody
    BY DEF Absent
  <2>3. CASE chal' = chal
    BY <2>3
  <2>4. CASE chal' = [chal EXCEPT ![req[r].h] = Incremented(req[r].h)]
    BY <1>1, <2>2, <2>4, IncrementedType DEF StepUpTypeOK
  <2>5. CASE chal' = [chal EXCEPT ![req[r].h] = Absent]
    BY <1>1, <2>2, <2>5 DEF StepUpTypeOK
  <2>6. QED
    BY <2>1, <2>3, <2>4, <2>5
<1>3. CASE Throttle(r) \/ ExpireIp(r)
  BY <1>1, <1>2, <1>3, EarlyShape, BindMove DEF Throttle, ExpireIp, ghosts
<1>4. CASE ReadUser(r)
  <2>1. CASE Finish(r)
    BY <1>1, <1>2, <1>4, <2>1, FinishType, Kept, BindMove DEF ReadUser, ghosts
  <2>2. CASE ~Finish(r)
    <3>1. req'[r].pc = "load" /\ req'[r].user \in User
      BY <1>4, <2>2 DEF ReadUser, StepUpTypeOK, RequestState, ChallengeHash
    <3>2. QED
      BY <1>1, <1>2, <1>4, <3>1, BindStep DEF ReadUser, ghosts, Loaded
  <2>3. QED
    BY <2>1, <2>2
<1>5. CASE LoadEntry(r)
  <2>1. CASE Finish(r)
    BY <1>1, <1>2, <1>5, <2>1, FinishType, Kept, BindMove DEF LoadEntry, ghosts
  <2>2. CASE ~Finish(r)
    <3>1. /\ req'[r].pc = "locked" /\ req'[r].user = req[r].user /\ req'[r].h = req[r].h
          /\ req'[r].jti = chal[req[r].h].jti /\ chal[req[r].h].user = req[r].user
      BY <1>5, <2>2 DEF LoadEntry, BelongsTo, StepUpTypeOK, RequestState
    <3>2. req[r].user \in User /\ Nobody \notin User
      BY <1>5, StepUpAssumption DEF LoadEntry, BindInv, StepUpAssumption
    <3>3. QED
      BY <1>1, <1>2, <1>5, <3>1, <3>2, BindStep DEF LoadEntry, ghosts, BindInv
  <2>3. QED
    BY <2>1, <2>2
<1>6. CASE TakeChallenge(r)
  <2>1. req'[r].pc = "idle"
    BY <1>6, FinishType, Kept DEF TakeChallenge
  <2>2. \A m \in minted' \ minted : m = [h |-> req[r].h, user |-> req[r].user,
                                         jti |-> req[r].jti, code |-> req[r].code]
    BY <1>6 DEF TakeChallenge
  <2>3. /\ req[r].user \in User /\ req[r].user = issued[req[r].h].user
        /\ req[r].jti = issued[req[r].h].jti
    BY <1>6 DEF TakeChallenge, BindInv, Loaded
  <2>4. QED
    BY <1>1, <1>2, <2>1, <2>2, <2>3, BindStep DEF Loaded
<1>7. CASE \/ CheckLocked(r) \/ CountAttempt(r) \/ DestroyChallenge(r) \/ MatchCode(r)
           \/ ConsumeCode(r) \/ CountFailure(r) \/ ExpireFailures(r) \/ Abandon(r)
  <2>1. minted' = minted
    BY <1>7 DEF CheckLocked, CountAttempt, DestroyChallenge, MatchCode, ConsumeCode,
       CountFailure, ExpireFailures, Abandon, ghosts
  <2>2. QED
    BY <1>1, <1>2, <1>7, <2>1, LateShape, BindMove
<1>8. QED
  BY <1>3, <1>4, <1>5, <1>6, <1>7 DEF VerifyStep

LEMMA BindOther ==
  ASSUME StepUpIInv, StepUpTypeOK',
         \/ \E h \in Challenge, u \in User, j \in Jti : CreateChallenge(h, u, j)
         \/ \E r \in Verifier, ip \in Address, h \in Challenge, c \in Code : Submit(r, ip, h, c)
         \/ NextStep \/ UNCHANGED stepUpVars
  PROVE  BindInv'
<1>1. CASE \E h \in Challenge, u \in User, j \in Jti : CreateChallenge(h, u, j)
  <2>1. PICK h \in Challenge, u \in User, j \in Jti : CreateChallenge(h, u, j)
    BY <1>1
  <2>2. /\ \A g \in Challenge \ {h} : chal'[g] = chal[g] /\ issued'[g] = issued[g]
        /\ issued'[h] = chal'[h]
    BY <2>1, CreateType DEF StepUpIInv
  <2>3. issued[h].user = Nobody /\ Nobody \notin User
    BY <2>1, StepUpAssumption DEF CreateChallenge, Absent, StepUpAssumption
  <2>4. \A r \in Verifier : req[r].h \in Challenge
    BY DEF StepUpIInv, StepUpTypeOK, RequestState
  <2>5. UNCHANGED <<req, minted>>
    BY <2>1 DEF CreateChallenge
  <2>6. QED
    BY <2>2, <2>3, <2>4, <2>5 DEF StepUpIInv, BindInv, TokenBoundToChallenge
<1>2. CASE \E r \in Verifier, ip \in Address, h \in Challenge, c \in Code : Submit(r, ip, h, c)
  <2>1. PICK r \in Verifier, ip \in Address, h \in Challenge, c \in Code : Submit(r, ip, h, c)
    BY <1>2
  <2>2. Only(r) /\ req'[r].pc = "throttle"
    BY <2>1, SubmitType DEF StepUpIInv
  <2>3. UNCHANGED <<chal, issued, minted>>
    BY <2>1 DEF Submit, store, ghosts
  <2>4. QED
    BY <2>2, <2>3, BindMove
<1>3. CASE NextStep
  <2>1. /\ UNCHANGED <<req, issued, minted>>
        /\ \A h \in Challenge : chal'[h] = chal[h] \/ chal'[h].user = Nobody
    BY <1>3 DEF NextStep, Absent
  <2>2. QED
    BY <2>1 DEF StepUpIInv, BindInv, TokenBoundToChallenge
<1>4. CASE UNCHANGED stepUpVars
  BY <1>4 DEF stepUpVars, store, ghosts, StepUpIInv, BindInv, TokenBoundToChallenge
<1>5. QED
  BY <1>1, <1>2, <1>3, <1>4

-----------------------------------------------------------------------------
(* A code is accepted once *)

LEMMA CodeStep ==
  ASSUME StepUpIInv, NEW r \in Verifier, Only(r), UNCHANGED <<step, used, spent>>,
         req'[r].pc # "consume"
  PROVE  CodeInv'
<1>1. CodeInv
  BY DEF StepUpIInv
<1>2. ASSUME NEW q \in Verifier, req'[q].pc = "consume"
      PROVE  /\ req'[q].code \in Counter
             /\ req'[q].code <= step + 1 /\ step <= req'[q].code + 2
             /\ q \notin slow' => step <= req'[q].code + 1
  <2>1. req'[q] = req[q] /\ (q \in slow' <=> q \in slow)
    BY <1>2 DEF Only
  <2>2. QED
    BY <1>1, <1>2, <2>1 DEF CodeInv
<1>3. QED
  BY <1>1, <1>2 DEF CodeInv

LEMMA MatchKeepsCode ==
  ASSUME StepUpIInv, NEW r \in Verifier, MatchCode(r)
  PROVE  CodeInv'
<1>1. Only(r) /\ UNCHANGED <<step, used, spent, slow>>
  BY RequestsType DEF MatchCode, VerifyStep, StepUpIInv, store
<1>2. CASE ~Matches(req[r].code)
  <2>1. req'[r].pc = "fail"
    BY <1>2, GotoKept DEF MatchCode, StepUpIInv, PCs
  <2>2. QED
    BY <1>1, <2>1, CodeStep
<1>3. CASE Matches(req[r].code)
  <2>2. req'[r].code = req[r].code
    BY <1>3, GotoKept DEF MatchCode, StepUpIInv, PCs
  <2>3. req[r].code \in Counter /\ step \in Nat
    BY <1>3 DEF Matches, StepUpIInv, StepUpTypeOK, RequestState, Code
  <2>4. req[r].code \in Int /\ step - 1 <= req[r].code /\ req[r].code <= step + 1
    BY <1>3, <2>3 DEF Matches, MatchWindow, Counter
  <2>5. ASSUME NEW q \in Verifier, req'[q].pc = "consume"
        PROVE  /\ req'[q].code \in Counter
               /\ req'[q].code <= step + 1 /\ step <= req'[q].code + 2
               /\ q \notin slow' => step <= req'[q].code + 1
    <3>1. CASE q = r
      BY <2>2, <2>3, <2>4, <3>1
    <3>2. CASE q # r
      BY <1>1, <2>5, <3>2 DEF Only, StepUpIInv, CodeInv
    <3>3. QED
      BY <3>1, <3>2
  <2>6. QED
    BY <1>1, <2>5 DEF StepUpIInv, CodeInv
<1>4. QED
  BY <1>2, <1>3

LEMMA ConsumeKeepsCode ==
  ASSUME StepUpIInv, NEW r \in Verifier, ConsumeCode(r)
  PROVE  CodeInv'
<1>1. Only(r) /\ UNCHANGED <<step, slow>>
  BY RequestsType DEF ConsumeCode, VerifyStep, StepUpIInv
<1>2. req'[r].pc # "consume"
  <2>1. Goto(r, "take") \/ Goto(r, "fail")
    BY DEF ConsumeCode
  <2>2. QED
    BY <2>1, GotoKept DEF StepUpIInv, PCs
<1>3. CASE used[req[r].user][req[r].code] # 0
  BY <1>1, <1>2, <1>3, CodeStep DEF ConsumeCode
<1>4. CASE used[req[r].user][req[r].code] = 0
  <2> DEFINE v == req[r].user
             d == req[r].code
  <2>1. /\ v \in User /\ d \in Counter /\ d <= step + 1
        /\ step \in Nat /\ MaxStep \in Nat
    BY StepUpAssumption
    DEF StepUpIInv, CodeInv, BindInv, Loaded, ConsumeCode, StepUpTypeOK, StepUpAssumption
  <2>2. /\ used' = [used EXCEPT ![v][d] = step + UsedTTL]
        /\ spent' = spent \cup {<<v, d>>}
    BY <1>4 DEF ConsumeCode
  <2> HIDE DEF v, d
  <2>3. ASSUME NEW u \in User, NEW c \in Counter, <<u, c>> \in spent'
        PROVE  used'[u][c] >= c + 3 \/ step >= c + 3
    <3>1. CASE u = v /\ c = d
      <4>1. used'[u][c] = step + 4
        BY <2>1, <2>2, <3>1 DEF StepUpIInv, StepUpTypeOK, UsedTTL
      <4>2. c \in Int
        BY <2>1 DEF Counter
      <4>3. QED
        BY <2>1, <3>1, <4>1, <4>2
    <3>2. CASE ~(u = v /\ c = d)
      <4>1. used'[u][c] = used[u][c]
        BY <2>1, <2>2, <3>2 DEF StepUpIInv, StepUpTypeOK
      <4>2. <<u, c>> \in spent
        BY <2>2, <2>3, <3>2
      <4>3. QED
        BY <4>1, <4>2 DEF StepUpIInv, CodeInv
    <3>3. QED
      BY <3>1, <3>2
  <2>4. ASSUME NEW q \in Verifier, req'[q].pc = "consume"
        PROVE  req'[q] = req[q]
    BY <1>1, <1>2, <2>4 DEF Only
  <2>5. QED
    BY <1>1, <2>3, <2>4 DEF StepUpIInv, CodeInv
<1>5. QED
  BY <1>3, <1>4

(* Only requests that have not seen a boundary see one, and a mark that    *)
(* ends has outlived its code.                                             *)
LEMMA TickKeepsCode ==
  ASSUME StepUpIInv, NextStep
  PROVE  CodeInv'
<1>1. step \in Nat /\ step' = step + 1 /\ UNCHANGED <<req, spent>> /\ slow = {}
  BY StepUpAssumption DEF StepUpIInv, StepUpTypeOK, NextStep, StepUpAssumption
<1>2. ASSUME NEW q \in Verifier, req[q].pc = "consume"
      PROVE  /\ req[q].code \in Counter
             /\ req[q].code <= step' + 1 /\ step' <= req[q].code + 2
             /\ q \in slow'
  <2>1. /\ req[q].code \in Counter /\ req[q].code <= step + 1 /\ step <= req[q].code + 1
    BY <1>1, <1>2 DEF StepUpIInv, CodeInv
  <2>2. q \in slow'
    BY <1>2 DEF NextStep
  <2>3. QED
    BY <1>1, <2>1, <2>2, StepUpAssumption DEF Counter, StepUpAssumption
<1>3. ASSUME NEW u \in User, NEW c \in Counter, <<u, c>> \in spent
      PROVE  used'[u][c] >= c + 3 \/ step' >= c + 3
  <2>1. used[u][c] >= c + 3 \/ step >= c + 3
    BY <1>3 DEF StepUpIInv, CodeInv
  <2>2. used'[u][c] = IF used[u][c] <= step + 1 THEN 0 ELSE used[u][c]
    BY DEF NextStep
  <2>3. used[u][c] \in Nat /\ c \in Int
    BY StepUpAssumption DEF StepUpIInv, StepUpTypeOK, Counter, StepUpAssumption
  <2>4. QED
    BY <1>1, <2>1, <2>2, <2>3
<1>4. QED
  BY <1>1, <1>2, <1>3 DEF CodeInv

LEMMA CodePreserved ==
  ASSUME StepUpIInv, NEW r \in Verifier, VerifyStep(r)
  PROVE  CodeInv'
<1>1. Only(r)
  BY RequestsType DEF StepUpIInv
<1>2. CASE Throttle(r) \/ ExpireIp(r)
  BY <1>1, <1>2, EarlyShape, CodeStep DEF StepUpIInv, Throttle, ExpireIp, ghosts
<1>3. CASE ReadUser(r) \/ LoadEntry(r)
  <2>1. Finish(r) \/ req'[r].pc \in {"load", "locked"}
    BY <1>3 DEF ReadUser, LoadEntry, StepUpIInv, StepUpTypeOK, RequestState
  <2>2. QED
    BY <1>1, <1>3, <2>1, FinishIdle, CodeStep DEF StepUpIInv, ReadUser, LoadEntry, store, ghosts
<1>4. CASE CheckLocked(r) \/ CountAttempt(r) \/ CountFailure(r)
  <2>1. /\ req'[r].pc \in {"idle", "attempt", "destroy", "match", "failExpire"}
    BY <1>4, FinishIdle, GotoKept DEF CheckLocked, CountAttempt, CountFailure, StepUpIInv, PCs
  <2>2. QED
    BY <1>1, <1>4, <2>1, CodeStep DEF CheckLocked, CountAttempt, CountFailure, store, ghosts
<1>5. CASE DestroyChallenge(r) \/ ExpireFailures(r) \/ TakeChallenge(r) \/ Abandon(r)
  <2>1. req'[r].pc = "idle"
    BY <1>5, FinishIdle DEF DestroyChallenge, ExpireFailures, TakeChallenge, Abandon, StepUpIInv
  <2>2. QED
    BY <1>1, <1>5, <2>1, CodeStep
    DEF DestroyChallenge, ExpireFailures, TakeChallenge, Abandon, store, ghosts
<1>6. QED
  BY <1>2, <1>3, <1>4, <1>5, MatchKeepsCode, ConsumeKeepsCode DEF VerifyStep

LEMMA CodeOther ==
  ASSUME StepUpIInv,
         \/ \E h \in Challenge, u \in User, j \in Jti : CreateChallenge(h, u, j)
         \/ \E r \in Verifier, ip \in Address, h \in Challenge, c \in Code : Submit(r, ip, h, c)
         \/ NextStep \/ UNCHANGED stepUpVars
  PROVE  CodeInv'
<1>1. CASE \E r \in Verifier, ip \in Address, h \in Challenge, c \in Code : Submit(r, ip, h, c)
  <2>1. PICK r \in Verifier, ip \in Address, h \in Challenge, c \in Code : Submit(r, ip, h, c)
    BY <1>1
  <2>2. Only(r) /\ req'[r].pc = "throttle"
    BY <2>1, SubmitType DEF StepUpIInv
  <2>3. UNCHANGED <<step, used, spent>>
    BY <2>1 DEF Submit, store, ghosts
  <2>4. QED
    BY <2>2, <2>3, CodeStep
<1>2. CASE UNCHANGED <<step, used, spent, req, slow>>
  BY <1>2 DEF StepUpIInv, CodeInv
<1>3. QED
  BY <1>1, <1>2, TickKeepsCode DEF CreateChallenge, stepUpVars, store, ghosts

-----------------------------------------------------------------------------
(* Sets of requests that differ by one request *)

LEMMA Subsets ==
  ASSUME NEW S \in SUBSET Verifier
  PROVE  /\ IsFiniteSet(S) /\ Cardinality(S) \in Nat
         /\ Cardinality(S) <= Cardinality(Verifier) /\ Cardinality(Verifier) \in Nat \ {0}
<1>1. IsFiniteSet(Verifier) /\ Verifier # {}
  BY StepUpAssumption DEF StepUpAssumption
<1>2. Cardinality(Verifier) \in Nat /\ Cardinality(Verifier) # 0
  BY <1>1, FS_CardinalityType, FS_EmptySet
<1>3. IsFiniteSet(S) /\ Cardinality(S) <= Cardinality(Verifier)
  BY <1>1, FS_Subset
<1>4. QED
  BY <1>2, <1>3, FS_CardinalityType

LEMMA DifferByOne ==
  ASSUME NEW S \in SUBSET Verifier, NEW T \in SUBSET Verifier, NEW r \in Verifier,
         \A q \in Verifier : q # r => (q \in S <=> q \in T)
  PROVE  /\ (r \in S <=> r \in T) => Cardinality(T) = Cardinality(S)
         /\ r \in S /\ r \notin T => Cardinality(T) + 1 = Cardinality(S)
         /\ r \notin S /\ r \in T => Cardinality(T) = Cardinality(S) + 1
<1>1. IsFiniteSet(S) /\ IsFiniteSet(T) /\ Cardinality(S) \in Nat /\ Cardinality(T) \in Nat
  BY Subsets
<1>2. (r \in S <=> r \in T) => S = T
  OBVIOUS
<1>3. ASSUME r \in S, r \notin T PROVE Cardinality(T) + 1 = Cardinality(S)
  <2>1. S = T \cup {r}
    BY <1>3
  <2>2. QED
    BY <1>1, <1>3, <2>1, FS_AddElement
<1>4. ASSUME r \notin S, r \in T PROVE Cardinality(T) = Cardinality(S) + 1
  <2>1. T = S \cup {r}
    BY <1>4
  <2>2. QED
    BY <1>1, <1>4, <2>1, FS_AddElement
<1>5. QED
  BY <1>2, <1>3, <1>4

-----------------------------------------------------------------------------
(* Counters without a TTL *)

LEMMA PendingStep ==
  ASSUME NEW r \in Verifier, Only(r), NEW k
  PROVE  /\ Pending(k) \in SUBSET Verifier /\ Pending(k)' \in SUBSET Verifier
         /\ \A q \in Verifier : q # r => (q \in Pending(k) <=> q \in Pending(k)')
BY DEF Pending, Only

LEMMA OrphanStep ==
  ASSUME StepUpIInv, NEW r \in Verifier, Only(r), UNCHANGED <<count, ends, abandons>>,
         req[r].pc \notin {"ipExpire", "failExpire"}
  PROVE  OrphansAreAccounted'
<1> SUFFICES ASSUME NEW k \in Key, ends[k] = Never
             PROVE  count[k] <= abandons + Cardinality(Pending(k)')
  BY DEF OrphansAreAccounted
<1>1. r \notin Pending(k)
  BY DEF Pending
<1>2. Cardinality(Pending(k)) <= Cardinality(Pending(k)')
  BY <1>1, PendingStep, DifferByOne, Subsets
<1>3. /\ count[k] <= abandons + Cardinality(Pending(k))
      /\ count[k] \in Nat /\ abandons \in Nat
  BY DEF StepUpIInv, OrphansAreAccounted, StepUpTypeOK
<1>4. QED
  BY <1>2, <1>3, PendingStep, Subsets

LEMMA OrphanBump ==
  ASSUME StepUpIInv, NEW r \in Verifier, Only(r), UNCHANGED <<ends, abandons>>,
         req[r].pc \notin {"ipExpire", "failExpire"},
         NEW k0 \in Key, Bump(k0), NeedsExpiry(k0) => r \in Pending(k0)'
  PROVE  OrphansAreAccounted'
<1> SUFFICES ASSUME NEW k \in Key, ends[k] = Never
             PROVE  count'[k] <= abandons + Cardinality(Pending(k)')
  BY DEF OrphansAreAccounted
<1>1. r \notin Pending(k)
  BY DEF Pending
<1>2. /\ count[k] <= abandons + Cardinality(Pending(k))
      /\ count[k] \in Nat /\ abandons \in Nat
  BY DEF StepUpIInv, OrphansAreAccounted, StepUpTypeOK
<1>3. CASE k = k0
  <2>1. Cardinality(Pending(k)') = Cardinality(Pending(k)) + 1
    BY <1>1, <1>3, PendingStep, DifferByOne DEF NeedsExpiry
  <2>2. count'[k] = count[k] + 1
    BY <1>3 DEF Bump, StepUpIInv, StepUpTypeOK
  <2>3. QED
    BY <1>2, <2>1, <2>2, PendingStep, Subsets
<1>4. CASE k # k0
  <2>1. Cardinality(Pending(k)) <= Cardinality(Pending(k)')
    BY <1>1, PendingStep, DifferByOne, Subsets
  <2>2. count'[k] = count[k]
    BY <1>4 DEF Bump, StepUpIInv, StepUpTypeOK
  <2>3. QED
    BY <1>2, <2>1, <2>2, PendingStep, Subsets
<1>5. QED
  BY <1>3, <1>4

LEMMA OrphanExpire ==
  ASSUME StepUpIInv, NEW r \in Verifier, Only(r), UNCHANGED <<count, abandons>>,
         NEW k0 \in Key, NEW w \in Nat, ExpireKey(k0, w),
         \A k \in Key : r \in Pending(k) => k = k0
  PROVE  OrphansAreAccounted'
<1> SUFFICES ASSUME NEW k \in Key, ends'[k] = Never
             PROVE  count[k] <= abandons + Cardinality(Pending(k)')
  BY DEF OrphansAreAccounted
<1>1. count[k] \in Nat /\ abandons \in Nat
  BY DEF StepUpIInv, StepUpTypeOK
<1>2. CASE k = k0
  <2>1. step + w \in Nat /\ Never \notin Nat
    BY StepUpAssumption DEF StepUpIInv, StepUpTypeOK, StepUpAssumption
  <2>2. count[k] = 0
    BY <1>2, <2>1 DEF ExpireKey, StepUpIInv, StepUpTypeOK
  <2>3. QED
    BY <1>1, <2>2, PendingStep, Subsets
<1>3. CASE k # k0
  <2>1. ends[k] = Never /\ r \notin Pending(k)
    BY <1>3 DEF ExpireKey, StepUpIInv, StepUpTypeOK
  <2>2. Cardinality(Pending(k)) <= Cardinality(Pending(k)')
    BY <2>1, PendingStep, DifferByOne, Subsets
  <2>3. QED
    BY <1>1, <2>1, <2>2, PendingStep, Subsets DEF StepUpIInv, OrphansAreAccounted
<1>4. QED
  BY <1>2, <1>3

LEMMA OrphanAbandon ==
  ASSUME StepUpIInv, NEW r \in Verifier, Abandon(r)
  PROVE  OrphansAreAccounted'
<1>1. Only(r) /\ UNCHANGED <<count, ends>> /\ abandons' = abandons + 1
  BY FinishType DEF StepUpIInv, Abandon, store
<1> SUFFICES ASSUME NEW k \in Key, ends[k] = Never
             PROVE  count[k] <= abandons + 1 + Cardinality(Pending(k)')
  BY <1>1 DEF OrphansAreAccounted
<1>2. /\ count[k] <= abandons + Cardinality(Pending(k))
      /\ count[k] \in Nat /\ abandons \in Nat
  BY DEF StepUpIInv, OrphansAreAccounted, StepUpTypeOK
<1>3. Cardinality(Pending(k)) <= Cardinality(Pending(k)') + 1
  BY <1>1, PendingStep, DifferByOne, Subsets
<1>4. QED
  BY <1>1, <1>2, <1>3, PendingStep, Subsets

LEMMA OrphansPreserved ==
  ASSUME StepUpIInv, NEW r \in Verifier, VerifyStep(r)
  PROVE  OrphansAreAccounted'
<1>1. Only(r) /\ req[r].ip \in Key
  BY RequestsType DEF StepUpIInv, StepUpTypeOK, RequestState, Key
<1>2. CASE Throttle(r)
  <2>2. PICK k \in Key : k = req[r].ip
    BY <1>1
  <2>3. NeedsExpiry(k) => req'[r].pc = "ipExpire" /\ req'[r].ip = k
    BY <1>2, <2>2 DEF Throttle, StepUpIInv, StepUpTypeOK, RequestState
  <2>4. NeedsExpiry(k) => r \in Pending(k)'
    BY <2>3 DEF Pending
  <2>5. Bump(k) /\ UNCHANGED <<ends, abandons>> /\ req[r].pc = "throttle"
    BY <1>2, <2>2 DEF Throttle
  <2>6. QED
    BY <1>1, <2>4, <2>5, OrphanBump
<1>3. CASE ExpireIp(r)
  <2>1. \A k \in Key : r \in Pending(k) => k = req[r].ip
    BY <1>3 DEF ExpireIp, Pending
  <2>2. QED
    BY <1>1, <1>3, <2>1, OrphanExpire, StepUpAssumption DEF ExpireIp, StepUpAssumption
<1>4. CASE CountFailure(r)
  <2>1. req[r].user \in Key
    BY <1>4 DEF CountFailure, StepUpIInv, BindInv, Loaded, Key
  <2>2. PICK k \in Key : k = req[r].user
    BY <2>1
  <2>3. NeedsExpiry(k) => req'[r].pc = "failExpire" /\ req'[r].user = k
    BY <1>4, <2>2, GotoKept DEF CountFailure, StepUpIInv, PCs
  <2>4. NeedsExpiry(k) => r \in Pending(k)'
    BY <2>3 DEF Pending
  <2>5. Bump(k) /\ UNCHANGED <<ends, abandons>> /\ req[r].pc = "fail"
    BY <1>4, <2>2 DEF CountFailure
  <2>6. QED
    BY <1>1, <2>4, <2>5, OrphanBump
<1>5. CASE ExpireFailures(r)
  <2>1. req[r].user \in Key
    BY <1>5 DEF ExpireFailures, StepUpIInv, BindInv, Loaded, Key
  <2>2. \A k \in Key : r \in Pending(k) => k = req[r].user
    BY <1>5 DEF ExpireFailures, Pending
  <2>3. QED
    BY <1>1, <1>5, <2>1, <2>2, OrphanExpire, StepUpAssumption
    DEF ExpireFailures, StepUpAssumption
<1>6. CASE \/ ReadUser(r) \/ LoadEntry(r) \/ CheckLocked(r) \/ CountAttempt(r)
           \/ DestroyChallenge(r) \/ MatchCode(r) \/ ConsumeCode(r) \/ TakeChallenge(r)
  BY <1>1, <1>6, OrphanStep
  DEF ReadUser, LoadEntry, CheckLocked, CountAttempt, DestroyChallenge, MatchCode,
      ConsumeCode, TakeChallenge, store
<1>7. QED
  BY <1>2, <1>3, <1>4, <1>5, <1>6, OrphanAbandon DEF VerifyStep

LEMMA OrphansOther ==
  ASSUME StepUpIInv,
         \/ \E h \in Challenge, u \in User, j \in Jti : CreateChallenge(h, u, j)
         \/ \E r \in Verifier, ip \in Address, h \in Challenge, c \in Code : Submit(r, ip, h, c)
         \/ NextStep \/ UNCHANGED stepUpVars
  PROVE  OrphansAreAccounted'
<1>1. CASE \E r \in Verifier, ip \in Address, h \in Challenge, c \in Code : Submit(r, ip, h, c)
  <2>1. PICK r \in Verifier, ip \in Address, h \in Challenge, c \in Code : Submit(r, ip, h, c)
    BY <1>1
  <2>2. Only(r) /\ req[r].pc = "idle"
    BY <2>1, SubmitType DEF StepUpIInv
  <2>3. UNCHANGED <<count, ends, abandons>>
    BY <2>1 DEF Submit, store
  <2>4. QED
    BY <2>2, <2>3, OrphanStep
<1>2. CASE NextStep
  <2>1. \A k : Pending(k)' = Pending(k)
    BY <1>2 DEF NextStep, Pending
  <2>2. \A k \in Key : \/ count'[k] = 0
                       \/ count'[k] = count[k] /\ ends'[k] = ends[k]
    BY <1>2 DEF NextStep
  <2>3. abandons' = abandons /\ abandons \in Nat
    BY <1>2 DEF NextStep, StepUpIInv, StepUpTypeOK
  <2>4. \A k : Pending(k) \in SUBSET Verifier
    BY DEF Pending
  <2>5. \A k : Cardinality(Pending(k)) \in Nat
    BY <2>4, Subsets
  <2>6. QED
    BY <2>1, <2>2, <2>3, <2>5 DEF StepUpIInv, OrphansAreAccounted
<1>3. CASE UNCHANGED <<req, count, ends, abandons>>
  BY <1>3 DEF StepUpIInv, OrphansAreAccounted, Pending
<1>4. QED
  BY <1>1, <1>2, <1>3 DEF CreateChallenge, stepUpVars, store

-----------------------------------------------------------------------------
(* Guesses against a user *)

LEMMA UserSets ==
  ASSUME NEW r \in Verifier, Only(r), NEW u
  PROVE  /\ Failing(u) \in SUBSET Verifier /\ Failing(u)' \in SUBSET Verifier
         /\ Unlocked(u) \in SUBSET Verifier /\ Unlocked(u)' \in SUBSET Verifier
         /\ \A q \in Verifier : q # r => /\ q \in Failing(u) <=> q \in Failing(u)'
                                         /\ q \in Unlocked(u) <=> q \in Unlocked(u)'
BY DEF Failing, Unlocked, Only

(* The sizes of the two sets after a step of r.                            *)
LEMMA UserSizes ==
  ASSUME NEW r \in Verifier, Only(r), NEW u
  PROVE  /\ Cardinality(Failing(u)) \in Nat /\ Cardinality(Failing(u)') \in Nat
         /\ Cardinality(Unlocked(u)) \in Nat /\ Cardinality(Unlocked(u)') \in Nat
         /\ Cardinality(Unlocked(u)') <= Cardinality(Verifier)
         /\ Cardinality(Verifier) \in Nat \ {0}
         /\ Cardinality(Failing(u)') <= Cardinality(Failing(u)) + 1
         /\ Cardinality(Failing(u)) <= Cardinality(Failing(u)') + 1
         /\ r \notin Failing(u) => Cardinality(Failing(u)) <= Cardinality(Failing(u)')
         /\ r \notin Failing(u) /\ r \in Failing(u)' =>
               Cardinality(Failing(u)') = Cardinality(Failing(u)) + 1
         /\ (r \in Unlocked(u)' => r \in Unlocked(u)) =>
               Cardinality(Unlocked(u)') <= Cardinality(Unlocked(u))
         /\ r \in Unlocked(u) /\ r \notin Unlocked(u)' =>
               Cardinality(Unlocked(u)') + 1 = Cardinality(Unlocked(u))
<1>1. /\ Cardinality(Failing(u)) \in Nat /\ Cardinality(Failing(u)') \in Nat
      /\ Cardinality(Unlocked(u)) \in Nat /\ Cardinality(Unlocked(u)') \in Nat
      /\ Cardinality(Unlocked(u)') <= Cardinality(Verifier)
      /\ Cardinality(Verifier) \in Nat \ {0}
  BY UserSets, Subsets
<1>2. /\ r \in Failing(u) /\ r \notin Failing(u)' =>
            Cardinality(Failing(u)') + 1 = Cardinality(Failing(u))
      /\ r \notin Failing(u) /\ r \in Failing(u)' =>
            Cardinality(Failing(u)') = Cardinality(Failing(u)) + 1
      /\ (r \in Failing(u) <=> r \in Failing(u)') =>
            Cardinality(Failing(u)') = Cardinality(Failing(u))
  BY UserSets, DifferByOne
<1>3. /\ r \in Unlocked(u) /\ r \notin Unlocked(u)' =>
            Cardinality(Unlocked(u)') + 1 = Cardinality(Unlocked(u))
      /\ (r \in Unlocked(u) <=> r \in Unlocked(u)') =>
            Cardinality(Unlocked(u)') = Cardinality(Unlocked(u))
  BY UserSets, DifferByOne
<1>4. QED
  BY <1>1, <1>2, <1>3

LEMMA FailFacts ==
  ASSUME StepUpIInv, NEW u \in User
  PROVE  /\ failures[u] \in Nat /\ count[u] \in Nat /\ abandons \in Nat
         /\ MaxUserFailures \in Nat \ {0}
         /\ failures[u] <= count[u] + Cardinality(Failing(u)) + abandons
         /\ failures[u] + Cardinality(Unlocked(u)) <=
              MaxUserFailures + Cardinality(Verifier) - 1 + abandons
BY StepUpAssumption DEF StepUpAssumption, StepUpIInv, StepUpTypeOK, FailInv, Key

(* No refusal, and nobody passes the lock check.                           *)
LEMMA FailStep ==
  ASSUME StepUpIInv, NEW r \in Verifier, Only(r), UNCHANGED <<failures, abandons>>,
         \A u \in User : count'[u] = count[u],
         \A u \in User : r \notin Failing(u) /\ (r \in Unlocked(u)' => r \in Unlocked(u))
  PROVE  FailInv'
<1> SUFFICES ASSUME NEW u \in User
             PROVE  /\ failures[u] <= count[u] + Cardinality(Failing(u)') + abandons
                    /\ failures[u] + Cardinality(Unlocked(u)') <=
                         MaxUserFailures + Cardinality(Verifier) - 1 + abandons
  BY DEF FailInv
<1>1. /\ Cardinality(Failing(u)) <= Cardinality(Failing(u)')
      /\ Cardinality(Unlocked(u)') <= Cardinality(Unlocked(u))
  BY UserSizes
<1>2. QED
  BY <1>1, FailFacts, UserSizes

(* A refusal moves r from one set to the other.                            *)
LEMMA FailRefused ==
  ASSUME StepUpIInv, NEW r \in Verifier, Only(r), UNCHANGED <<count, abandons>>,
         req[r].pc \in {"match", "consume"}, Goto(r, "fail"), Refused(r)
  PROVE  FailInv'
<1> SUFFICES ASSUME NEW u \in User
             PROVE  /\ failures'[u] <= count[u] + Cardinality(Failing(u)') + abandons
                    /\ failures'[u] + Cardinality(Unlocked(u)') <=
                         MaxUserFailures + Cardinality(Verifier) - 1 + abandons
  BY DEF FailInv
<1>1. req'[r].pc = "fail" /\ req'[r].user = req[r].user
  BY GotoKept DEF StepUpIInv, PCs
<1>2. r \notin Failing(u) /\ r \notin Unlocked(u)'
  BY <1>1 DEF Failing, Unlocked
<1>3. CASE u = req[r].user
  <2>1. r \in Failing(u)' /\ r \in Unlocked(u)
    BY <1>1, <1>3 DEF Failing, Unlocked
  <2>2. failures'[u] = failures[u] + 1
    BY <1>3 DEF Refused, StepUpIInv, StepUpTypeOK
  <2>3. /\ Cardinality(Failing(u)') = Cardinality(Failing(u)) + 1
        /\ Cardinality(Unlocked(u)') + 1 = Cardinality(Unlocked(u))
    BY <1>2, <2>1, UserSizes
  <2>4. QED
    BY <2>2, <2>3, FailFacts, UserSizes
<1>4. CASE u # req[r].user
  <2>1. failures'[u] = failures[u]
    BY <1>4 DEF Refused, StepUpIInv, StepUpTypeOK
  <2>2. /\ Cardinality(Failing(u)) <= Cardinality(Failing(u)')
        /\ Cardinality(Unlocked(u)') <= Cardinality(Unlocked(u))
    BY <1>2, UserSizes
  <2>3. QED
    BY <2>1, <2>2, FailFacts, UserSizes
<1>5. QED
  BY <1>3, <1>4

(* Whoever passes the lock check finds fewer failures counted than the     *)
(* limit; the others not counted are other requests', or abandoned ones'.  *)
LEMMA FailUnlocks ==
  ASSUME StepUpIInv, NEW r \in Verifier, CheckLocked(r)
  PROVE  FailInv'
<1>1. Only(r) /\ UNCHANGED <<count, failures, abandons>>
  BY RequestsType DEF CheckLocked, VerifyStep, StepUpIInv, store, ghosts
<1>2. CASE Finish(r)
  <2>1. req[r].pc = "locked" /\ req'[r].pc = "idle"
    BY <1>2, FinishIdle DEF CheckLocked, StepUpIInv
  <2>2. QED
    BY <1>1, <2>1, FailStep DEF Failing, Unlocked
<1>3. CASE ~Locked(req[r].user) /\ Goto(r, "attempt")
  <2>1. req[r].pc = "locked" /\ req'[r].pc = "attempt" /\ req'[r].user = req[r].user
    BY <1>3, GotoKept DEF CheckLocked, StepUpIInv, PCs
  <2> SUFFICES ASSUME NEW u \in User
               PROVE  /\ failures[u] <= count[u] + Cardinality(Failing(u)') + abandons
                      /\ failures[u] + Cardinality(Unlocked(u)') <=
                           MaxUserFailures + Cardinality(Verifier) - 1 + abandons
    BY <1>1 DEF FailInv
  <2>2. r \notin Failing(u)
    BY <2>1 DEF Failing
  <2>3. failures[u] <= count[u] + Cardinality(Failing(u)') + abandons
    BY <1>1, <2>2, FailFacts, UserSizes
  <2>4. CASE u = req[r].user
    <3>1. count[u] < MaxUserFailures
      BY <1>3, <2>4, FailFacts DEF Locked
    <3>2. Cardinality(Failing(u)) + Cardinality(Unlocked(u)') <= Cardinality(Verifier)
      <4>1. Failing(u) \cap Unlocked(u)' = {}
        BY <1>1, <2>2 DEF Failing, Unlocked, Only
      <4>2. /\ Failing(u) \in SUBSET Verifier /\ Unlocked(u)' \in SUBSET Verifier
            /\ Failing(u) \cup Unlocked(u)' \in SUBSET Verifier
        BY <1>1, UserSets
      <4>3. Cardinality(Failing(u) \cup Unlocked(u)') =
              Cardinality(Failing(u)) + Cardinality(Unlocked(u)')
        <5>1. IsFiniteSet(Failing(u)) /\ IsFiniteSet(Unlocked(u)')
          BY <4>2, Subsets
        <5>2. Cardinality(Failing(u) \cup Unlocked(u)') =
                Cardinality(Failing(u)) + Cardinality(Unlocked(u)')
                  - Cardinality(Failing(u) \cap Unlocked(u)')
          BY <5>1, FS_Union
        <5>3. QED
          BY <1>1, <4>1, <5>2, FS_EmptySet, UserSizes
      <4>4. QED
        BY <4>2, <4>3, Subsets
    <3>3. QED
      BY <1>1, <2>3, <3>1, <3>2, FailFacts, UserSizes
  <2>5. CASE u # req[r].user
    <3>1. r \notin Unlocked(u)'
      BY <2>1, <2>5 DEF Unlocked
    <3>2. QED
      BY <1>1, <2>3, <3>1, FailFacts, UserSizes
  <2>6. QED
    BY <2>4, <2>5
<1>4. QED
  BY <1>2, <1>3 DEF CheckLocked

LEMMA FailCounted ==
  ASSUME StepUpIInv, NEW r \in Verifier, CountFailure(r)
  PROVE  FailInv'
<1>1. Only(r) /\ UNCHANGED <<failures, abandons>> /\ Bump(req[r].user)
  BY RequestsType DEF CountFailure, VerifyStep, StepUpIInv, ghosts
<1>2. req'[r].pc \in {"idle", "failExpire"} /\ req[r].pc = "fail"
  BY FinishIdle, GotoKept DEF CountFailure, StepUpIInv, PCs
<1> SUFFICES ASSUME NEW u \in User
             PROVE  /\ failures[u] <= count'[u] + Cardinality(Failing(u)') + abandons
                    /\ failures[u] + Cardinality(Unlocked(u)') <=
                         MaxUserFailures + Cardinality(Verifier) - 1 + abandons
  BY <1>1 DEF FailInv
<1>3. r \notin Unlocked(u)'
  BY <1>2 DEF Unlocked
<1>4. failures[u] <= count'[u] + Cardinality(Failing(u)') + abandons
  <2>1. CASE u = req[r].user
    <3>1. count'[u] = count[u] + 1
      BY <1>1, <2>1 DEF Bump, StepUpIInv, StepUpTypeOK, Key
    <3>2. QED
      BY <1>1, <3>1, FailFacts, UserSizes
  <2>2. CASE u # req[r].user
    <3>1. count'[u] = count[u] /\ r \notin Failing(u)
      BY <1>1, <2>2 DEF Bump, StepUpIInv, StepUpTypeOK, Key, Failing
    <3>2. QED
      BY <1>1, <3>1, FailFacts, UserSizes
  <2>3. QED
    BY <2>1, <2>2
<1>5. QED
  BY <1>1, <1>3, <1>4, FailFacts, UserSizes

LEMMA FailAbandoned ==
  ASSUME StepUpIInv, NEW r \in Verifier, Abandon(r)
  PROVE  FailInv'
<1>1. Only(r) /\ UNCHANGED <<failures, count>> /\ abandons' = abandons + 1
  BY RequestsType DEF Abandon, VerifyStep, StepUpIInv, store, ghosts
<1>2. req'[r].pc = "idle"
  BY FinishIdle DEF Abandon, StepUpIInv
<1> SUFFICES ASSUME NEW u \in User
             PROVE  /\ failures[u] <= count[u] + Cardinality(Failing(u)') + abandons + 1
                    /\ failures[u] + Cardinality(Unlocked(u)') <=
                         MaxUserFailures + Cardinality(Verifier) - 1 + abandons + 1
  BY <1>1, FailFacts, UserSizes DEF FailInv
<1>3. r \notin Unlocked(u)'
  BY <1>2 DEF Unlocked
<1>4. QED
  BY <1>1, <1>3, FailFacts, UserSizes

LEMMA FailPreserved ==
  ASSUME StepUpIInv, NEW r \in Verifier, VerifyStep(r)
  PROVE  FailInv'
<1>1. Only(r) /\ req[r].ip \in Address
  BY RequestsType DEF StepUpIInv, StepUpTypeOK, RequestState
<1>2. CASE Throttle(r)
  <2>1. \A u \in User : count'[u] = count[u]
    <3>1. \A u \in User : u # req[r].ip
      BY <1>1, StepUpAssumption DEF StepUpAssumption
    <3>2. QED
      BY <1>2, <3>1 DEF Throttle, Bump, StepUpIInv, StepUpTypeOK, Key
  <2>2. req[r].pc = "throttle" /\ req'[r].pc \in {"idle", "ipExpire", "user"}
    BY <1>2, EarlyShape DEF StepUpIInv, Throttle
  <2>3. UNCHANGED <<failures, abandons>>
    BY <1>2 DEF Throttle, ghosts
  <2>4. QED
    BY <1>1, <2>1, <2>2, <2>3, FailStep DEF Failing, Unlocked
<1>3. CASE ExpireIp(r)
  BY <1>1, <1>3, EarlyShape, FailStep DEF StepUpIInv, ExpireIp, ghosts, Failing, Unlocked
<1>4. CASE ReadUser(r) \/ LoadEntry(r)
  <2>1. Finish(r) \/ req'[r].pc \in {"load", "locked"}
    BY <1>4 DEF ReadUser, LoadEntry, StepUpIInv, StepUpTypeOK, RequestState
  <2>2. req'[r].pc \in {"idle", "load", "locked"} /\ req[r].pc \in {"user", "load"}
    BY <1>4, <2>1, FinishIdle DEF StepUpIInv, ReadUser, LoadEntry
  <2>3. UNCHANGED <<failures, abandons, count>>
    BY <1>4 DEF ReadUser, LoadEntry, store, ghosts
  <2>4. QED
    BY <1>1, <2>2, <2>3, FailStep DEF Failing, Unlocked
<1>5. CASE CountAttempt(r)
  <2>1. /\ req[r].pc = "attempt" /\ req'[r].pc \in {"destroy", "match"}
        /\ req'[r].user = req[r].user
    BY <1>5, GotoKept DEF CountAttempt, StepUpIInv, PCs
  <2>2. UNCHANGED <<failures, abandons, count>>
    BY <1>5 DEF CountAttempt, ghosts
  <2>3. QED
    BY <1>1, <2>1, <2>2, FailStep DEF Failing, Unlocked
<1>6. CASE DestroyChallenge(r) \/ TakeChallenge(r) \/ ExpireFailures(r)
  <2>1. /\ req[r].pc \in {"destroy", "take", "failExpire"} /\ req'[r].pc = "idle"
        /\ UNCHANGED <<failures, abandons, count>>
    BY <1>6, FinishIdle DEF DestroyChallenge, TakeChallenge, ExpireFailures, StepUpIInv, ghosts
  <2>2. QED
    BY <1>1, <2>1, FailStep DEF Failing, Unlocked
<1>7. CASE MatchCode(r) \/ ConsumeCode(r)
  <2>1. req[r].pc \in {"match", "consume"} /\ UNCHANGED <<count, abandons>>
    BY <1>7 DEF MatchCode, ConsumeCode, store
  <2>2. CASE Goto(r, "fail") /\ Refused(r)
    BY <1>1, <2>1, <2>2, FailRefused
  <2>3. CASE (Goto(r, "consume") \/ Goto(r, "take")) /\ UNCHANGED failures
    <3>1. req'[r].pc \in {"consume", "take"} /\ req'[r].user = req[r].user
      BY <2>3, GotoKept DEF StepUpIInv, PCs
    <3>2. QED
      BY <1>1, <2>1, <2>3, <3>1, FailStep DEF Failing, Unlocked
  <2>4. QED
    BY <1>7, <2>2, <2>3 DEF MatchCode, ConsumeCode
<1>8. QED
  BY <1>2, <1>3, <1>4, <1>5, <1>6, <1>7, FailUnlocks, FailCounted, FailAbandoned DEF VerifyStep

LEMMA FailOther ==
  ASSUME StepUpIInv,
         \/ \E h \in Challenge, u \in User, j \in Jti : CreateChallenge(h, u, j)
         \/ \E r \in Verifier, ip \in Address, h \in Challenge, c \in Code : Submit(r, ip, h, c)
         \/ NextStep \/ UNCHANGED stepUpVars
  PROVE  FailInv'
<1>1. CASE \E r \in Verifier, ip \in Address, h \in Challenge, c \in Code : Submit(r, ip, h, c)
  <2>1. PICK r \in Verifier, ip \in Address, h \in Challenge, c \in Code : Submit(r, ip, h, c)
    BY <1>1
  <2>2. Only(r) /\ req[r].pc = "idle" /\ req'[r].pc = "throttle"
    BY <2>1, SubmitType DEF StepUpIInv
  <2>3. UNCHANGED <<count, failures, abandons>>
    BY <2>1 DEF Submit, store, ghosts
  <2>4. QED
    BY <2>2, <2>3, FailStep DEF Failing, Unlocked
<1>2. CASE NextStep
  <2> SUFFICES ASSUME NEW u \in User
               PROVE  /\ failures'[u] <= count'[u] + Cardinality(Failing(u)) + abandons
                      /\ failures'[u] + Cardinality(Unlocked(u)) <=
                           MaxUserFailures + Cardinality(Verifier) - 1 + abandons
    BY <1>2 DEF NextStep, FailInv, Failing, Unlocked
  <2>1. \/ failures'[u] = 0 /\ count'[u] = 0
        \/ failures'[u] = failures[u] /\ count'[u] = count[u]
    BY <1>2 DEF NextStep, Key
  <2>2. Failing(u) \in SUBSET Verifier /\ Unlocked(u) \in SUBSET Verifier
    BY DEF Failing, Unlocked
  <2>3. /\ Cardinality(Failing(u)) \in Nat /\ Cardinality(Unlocked(u)) \in Nat
        /\ Cardinality(Unlocked(u)) <= Cardinality(Verifier)
        /\ Cardinality(Verifier) \in Nat
    BY <2>2, Subsets
  <2>4. QED
    BY <2>1, <2>3, FailFacts
<1>3. CASE UNCHANGED <<req, count, failures, abandons>>
  BY <1>3 DEF StepUpIInv, FailInv, Failing, Unlocked
<1>4. QED
  BY <1>1, <1>2, <1>3 DEF CreateChallenge, stepUpVars, store, ghosts

-----------------------------------------------------------------------------
(* Guesses against a challenge *)

LEMMA GuessSets ==
  ASSUME NEW r \in Verifier, Only(r), NEW h
  PROVE  /\ Guessing(h) \in SUBSET Verifier /\ Guessing(h)' \in SUBSET Verifier
         /\ Counted(h) \in SUBSET Verifier /\ Counted(h)' \in SUBSET Verifier
         /\ \A q \in Verifier : q # r => /\ q \in Guessing(h) <=> q \in Guessing(h)'
                                         /\ q \in Counted(h) <=> q \in Counted(h)'
BY DEF Guessing, Counted, Only

LEMMA GuessSizes ==
  ASSUME NEW r \in Verifier, Only(r), NEW h
  PROVE  /\ Cardinality(Guessing(h)) \in Nat /\ Cardinality(Guessing(h)') \in Nat
         /\ Cardinality(Counted(h)) \in Nat /\ Cardinality(Counted(h)') \in Nat
         /\ Cardinality(Guessing(h)') <= Cardinality(Verifier)
         /\ Cardinality(Verifier) \in Nat \ {0}
         /\ (r \in Guessing(h)' => r \in Guessing(h)) =>
               Cardinality(Guessing(h)') <= Cardinality(Guessing(h))
         /\ r \in Guessing(h) /\ r \notin Guessing(h)' =>
               Cardinality(Guessing(h)') + 1 = Cardinality(Guessing(h))
         /\ (r \in Counted(h)' => r \in Counted(h)) =>
               Cardinality(Counted(h)') <= Cardinality(Counted(h))
         /\ r \in Counted(h) /\ r \notin Counted(h)' =>
               Cardinality(Counted(h)') + 1 = Cardinality(Counted(h))
         /\ Cardinality(Counted(h)') <= Cardinality(Counted(h)) + 1
<1>1. /\ Cardinality(Guessing(h)) \in Nat /\ Cardinality(Guessing(h)') \in Nat
      /\ Cardinality(Counted(h)) \in Nat /\ Cardinality(Counted(h)') \in Nat
      /\ Cardinality(Guessing(h)') <= Cardinality(Verifier)
      /\ Cardinality(Verifier) \in Nat \ {0}
  BY GuessSets, Subsets
<1>2. /\ r \in Guessing(h) /\ r \notin Guessing(h)' =>
            Cardinality(Guessing(h)') + 1 = Cardinality(Guessing(h))
      /\ (r \in Guessing(h) <=> r \in Guessing(h)') =>
            Cardinality(Guessing(h)') = Cardinality(Guessing(h))
  BY GuessSets, DifferByOne
<1>3. /\ r \in Counted(h) /\ r \notin Counted(h)' =>
            Cardinality(Counted(h)') + 1 = Cardinality(Counted(h))
      /\ r \notin Counted(h) /\ r \in Counted(h)' =>
            Cardinality(Counted(h)') = Cardinality(Counted(h)) + 1
      /\ (r \in Counted(h) <=> r \in Counted(h)') =>
            Cardinality(Counted(h)') = Cardinality(Counted(h))
  BY GuessSets, DifferByOne
<1>4. QED
  BY <1>1, <1>2, <1>3

LEMMA GuessFacts ==
  ASSUME StepUpIInv, NEW h \in Challenge
  PROVE  /\ tries[h] \in Nat /\ chal[h].attempts \in Nat /\ issued[h].ends \in Nat
         /\ MaxAttempts \in Nat \ {0} /\ step \in Nat
         /\ issued[h].user = Nobody =>
              chal[h] = Absent /\ tries[h] = 0 /\ Guessing(h) = {}
         /\ issued[h].user # Nobody /\ chal[h].user = Nobody =>
              tries[h] + Cardinality(Guessing(h)) <=
                MaxAttempts + Cardinality(Verifier) - (IF issued[h].ends > step THEN 1 ELSE 0)
         /\ issued[h].user # Nobody /\ chal[h].user # Nobody =>
              /\ tries[h] + Cardinality(Counted(h)) <= chal[h].attempts
              /\ tries[h] + Cardinality(Counted(h)) <= MaxAttempts
<1>1. chal[h] \in ChallengeHash /\ tries[h] \in Nat /\ issued[h].ends \in Nat
  BY DEF StepUpIInv, StepUpTypeOK
<1>2. MaxAttempts \in Nat \ {0} /\ step \in Nat
  BY StepUpAssumption DEF StepUpAssumption, StepUpIInv, StepUpTypeOK
<1>3. QED
  BY <1>1, <1>2 DEF StepUpIInv, GuessInv, ChallengeHash

(* The invariant of one challenge, when a step changes neither the         *)
(* challenge nor its count of tries and lets nobody in.                    *)
GuessAt(h) ==
    IF issued[h].user = Nobody
    THEN chal'[h] = Absent /\ tries'[h] = 0 /\ Guessing(h)' = {}
    ELSE IF chal'[h].user = Nobody
    THEN tries'[h] + Cardinality(Guessing(h)') <=
            MaxAttempts + Cardinality(Verifier) - (IF issued[h].ends > step THEN 1 ELSE 0)
    ELSE /\ tries'[h] + Cardinality(Counted(h)') <= chal'[h].attempts
         /\ tries'[h] + Cardinality(Counted(h)') <= MaxAttempts

LEMMA GuessQuiet ==
  ASSUME StepUpIInv, NEW r \in Verifier, Only(r), NEW h \in Challenge,
         chal'[h] = chal[h], tries'[h] = tries[h],
         \/ r \in Guessing(h)' => r \in Guessing(h)
         \/ issued[h].user # Nobody /\ chal[h].user # Nobody,
         r \in Counted(h)' => r \in Counted(h)
  PROVE  GuessAt(h)
<1>1. CASE issued[h].user = Nobody
  <2>1. Guessing(h) = {} /\ (r \in Guessing(h)' => r \in Guessing(h))
    BY <1>1, GuessFacts
  <2>2. Guessing(h)' = {}
    BY <2>1, GuessSets
  <2>3. QED
    BY <1>1, <2>2, GuessFacts DEF GuessAt
<1>2. CASE issued[h].user # Nobody /\ chal[h].user = Nobody
  <2>1. Cardinality(Guessing(h)') <= Cardinality(Guessing(h))
    BY <1>2, GuessSizes
  <2>2. QED
    BY <1>2, <2>1, GuessFacts, GuessSizes DEF GuessAt
<1>3. CASE issued[h].user # Nobody /\ chal[h].user # Nobody
  <2>1. Cardinality(Counted(h)') <= Cardinality(Counted(h))
    BY GuessSizes
  <2>2. QED
    BY <1>3, <2>1, GuessFacts, GuessSizes DEF GuessAt
<1>4. QED
  BY <1>1, <1>2, <1>3

LEMMA GuessStep ==
  ASSUME UNCHANGED <<step, issued>>, \A h \in Challenge : GuessAt(h)
  PROVE  GuessInv'
BY DEF GuessInv, GuessAt

(* A code is counted before it is evaluated; on a hash that is gone the    *)
(* count starts anew, for those that had read it.                          *)
LEMMA GuessCounts ==
  ASSUME StepUpIInv, NEW r \in Verifier, CountAttempt(r)
  PROVE  GuessInv'
<1>1. Only(r) /\ UNCHANGED <<step, issued, tries>> /\ req[r].h \in Challenge
  BY RequestsType DEF CountAttempt, VerifyStep, StepUpIInv, ghosts, StepUpTypeOK, RequestState
<1>2. /\ req[r].pc = "attempt" /\ req'[r].h = req[r].h
      /\ req'[r].pc = IF TooMany(req[r].h) THEN "destroy" ELSE "match"
  BY GotoKept DEF CountAttempt, StepUpIInv, PCs
<1>3. ASSUME NEW h \in Challenge PROVE GuessAt(h)
  <2>1. /\ r \in Guessing(h)' => r \in Guessing(h)
    BY <1>2 DEF Guessing
  <2>2. CASE h # req[r].h
    <3>1. chal'[h] = chal[h] /\ r \notin Counted(h)'
      BY <1>2, <2>2 DEF CountAttempt, Counted, StepUpIInv, StepUpTypeOK
    <3>2. QED
      BY <1>1, <2>1, <3>1, GuessQuiet
  <2>3. CASE h = req[r].h
    <3>1. r \in Guessing(h) /\ chal'[h] = Incremented(h)
      BY <1>2, <2>3 DEF Guessing, CountAttempt, StepUpIInv, StepUpTypeOK
    <3>2. issued[h].user # Nobody
      BY <3>1, GuessFacts
    <3>3. CASE chal[h].user = Nobody
      <4>1. Incremented(h).user = Nobody
        BY <3>3, IncrementedType DEF StepUpIInv
      <4>2. Cardinality(Guessing(h)') <= Cardinality(Guessing(h))
        BY <1>1, <2>1, GuessSizes
      <4>3. QED
        BY <1>1, <3>1, <3>2, <3>3, <4>1, <4>2, GuessFacts, GuessSizes DEF GuessAt
    <3>4. CASE chal[h].user # Nobody
      <4>1. chal[h] # Absent
        BY <3>4 DEF Absent
      <4>2. Incremented(h).user # Nobody /\ Incremented(h).attempts = chal[h].attempts + 1
        BY <3>4, <4>1, IncrementedType DEF StepUpIInv
      <4>3. CASE TooMany(h)
        <5>1. r \notin Counted(h)'
          BY <1>2, <2>3, <4>3 DEF Counted
        <5>2. Cardinality(Counted(h)') <= Cardinality(Counted(h))
          BY <1>1, <5>1, GuessSizes
        <5>3. QED
          BY <1>1, <3>1, <3>2, <3>4, <4>2, <5>2, GuessFacts, GuessSizes DEF GuessAt
      <4>4. CASE ~TooMany(h)
        <5>1. chal[h].attempts + 1 <= MaxAttempts
          BY <4>2, <4>4, GuessFacts DEF TooMany
        <5>2. QED
          BY <1>1, <3>1, <3>2, <3>4, <4>2, <5>1, GuessFacts, GuessSizes DEF GuessAt
      <4>5. QED
        BY <4>3, <4>4
    <3>5. QED
      BY <3>3, <3>4
  <2>4. QED
    BY <2>2, <2>3
<1>4. QED
  BY <1>1, <1>3, GuessStep

(* The request that deletes a challenge will not count on it again.        *)
LEMMA GuessDeletes ==
  ASSUME StepUpIInv, NEW r \in Verifier, DestroyChallenge(r) \/ TakeChallenge(r)
  PROVE  GuessInv'
<1>1. Only(r) /\ UNCHANGED <<step, issued, tries>>
  BY RequestsType DEF DestroyChallenge, TakeChallenge, VerifyStep, StepUpIInv, ghosts
<1>2. req[r].pc \in {"destroy", "take"} /\ req'[r].pc = "idle"
  BY FinishIdle DEF DestroyChallenge, TakeChallenge, StepUpIInv
<1>3. ASSUME NEW h \in Challenge PROVE GuessAt(h)
  <2>1. r \notin Guessing(h) /\ r \notin Guessing(h)' /\ r \notin Counted(h)'
    BY <1>2 DEF Guessing, Counted
  <2>2. chal'[h] = chal[h] \/ chal'[h] = Absent
    BY DEF DestroyChallenge, TakeChallenge, StepUpIInv, StepUpTypeOK
  <2>3. CASE issued[h].user = Nobody \/ chal'[h] = chal[h]
    <3>1. chal'[h] = chal[h]
      BY <2>2, <2>3, GuessFacts
    <3>2. QED
      BY <1>1, <2>1, <3>1, GuessQuiet
  <2>4. CASE issued[h].user # Nobody /\ chal'[h] = Absent
    <3>1. Absent.user = Nobody
      BY DEF Absent
    <3>2. CASE chal[h].user = Nobody
      <4>1. Cardinality(Guessing(h)') <= Cardinality(Guessing(h))
        BY <1>1, <2>1, GuessSizes
      <4>2. QED
        BY <1>1, <2>4, <3>1, <3>2, <4>1, GuessFacts, GuessSizes DEF GuessAt
    <3>3. CASE chal[h].user # Nobody
      <4>1. Cardinality(Guessing(h)') + 1 <= Cardinality(Verifier)
        <5> DEFINE S == Guessing(h)' \cup {r}
        <5>1. S \in SUBSET Verifier /\ Guessing(h)' \in SUBSET Verifier
          BY <1>1, GuessSets
        <5>2. Cardinality(S) = Cardinality(Guessing(h)') + 1
          BY <2>1, <5>1, Subsets, FS_AddElement
        <5>3. Cardinality(S) <= Cardinality(Verifier)
          BY <5>1, Subsets
        <5>4. QED
          BY <5>2, <5>3
      <4>2. QED
        BY <1>1, <2>4, <3>1, <3>3, <4>1, GuessFacts, GuessSizes DEF GuessAt
    <3>4. QED
      BY <3>2, <3>3
  <2>5. QED
    BY <2>2, <2>3, <2>4
<1>4. QED
  BY <1>1, <1>3, GuessStep

LEMMA GuessTries ==
  ASSUME StepUpIInv, NEW r \in Verifier, MatchCode(r)
  PROVE  GuessInv'
<1>1. Only(r) /\ UNCHANGED <<step, issued, chal>> /\ req[r].h \in Challenge
  BY RequestsType DEF MatchCode, VerifyStep, StepUpIInv, store, StepUpTypeOK, RequestState
<1>2. req[r].pc = "match" /\ req'[r].pc \in {"consume", "fail"}
  BY GotoKept DEF MatchCode, StepUpIInv, PCs
<1>3. ASSUME NEW h \in Challenge PROVE GuessAt(h)
  <2>1. r \notin Guessing(h)' /\ r \notin Counted(h)'
    BY <1>2 DEF Guessing, Counted
  <2>2. CASE h # req[r].h
    <3>1. tries'[h] = tries[h] /\ chal'[h] = chal[h]
      BY <1>1, <2>2 DEF MatchCode, StepUpIInv, StepUpTypeOK
    <3>2. QED
      BY <1>1, <2>1, <3>1, GuessQuiet
  <2>3. CASE h = req[r].h
    <3>1. r \in Guessing(h) /\ r \in Counted(h)
      BY <1>2, <2>3 DEF Guessing, Counted
    <3>2. tries'[h] = tries[h] + 1 /\ chal'[h] = chal[h]
      BY <1>1, <2>3 DEF MatchCode, StepUpIInv, StepUpTypeOK
    <3>3. issued[h].user # Nobody
      BY <3>1, GuessFacts
    <3>4. /\ Cardinality(Guessing(h)') + 1 = Cardinality(Guessing(h))
          /\ Cardinality(Counted(h)') + 1 = Cardinality(Counted(h))
      BY <1>1, <2>1, <3>1, GuessSizes
    <3>5. QED
      BY <1>1, <3>2, <3>3, <3>4, GuessFacts, GuessSizes DEF GuessAt
  <2>4. QED
    BY <2>2, <2>3
<1>4. QED
  BY <1>1, <1>3, GuessStep

LEMMA GuessPreserved ==
  ASSUME StepUpIInv, NEW r \in Verifier, VerifyStep(r)
  PROVE  GuessInv'
<1>1. Only(r)
  BY RequestsType DEF StepUpIInv
<1>2. CASE \/ Throttle(r) \/ ExpireIp(r) \/ ReadUser(r) \/ LoadEntry(r) \/ CheckLocked(r)
           \/ ConsumeCode(r) \/ CountFailure(r) \/ ExpireFailures(r) \/ Abandon(r)
  <2>1. UNCHANGED <<step, issued, chal, tries>>
    BY <1>2 DEF Throttle, ExpireIp, ReadUser, LoadEntry, CheckLocked, ConsumeCode,
       CountFailure, ExpireFailures, Abandon, store, ghosts
  <2>2. \/ req'[r].pc \notin {"locked", "attempt", "match"}
        \/ req[r].pc = "locked" /\ req'[r].pc = "attempt" /\ req'[r].h = req[r].h
        \/ /\ req'[r].pc = "locked" /\ req'[r].h = req[r].h
           /\ req[r].pc = "load" /\ chal[req[r].h].user = req[r].user
    <3>1. CASE Throttle(r) \/ ExpireIp(r)
      BY <3>1, EarlyShape DEF StepUpIInv
    <3>2. CASE Finish(r)
      BY <3>2, FinishIdle DEF StepUpIInv
    <3>3. CASE ReadUser(r) /\ ~Finish(r)
      BY <3>3 DEF ReadUser, StepUpIInv, StepUpTypeOK, RequestState
    <3>4. CASE LoadEntry(r) /\ ~Finish(r)
      BY <3>4 DEF LoadEntry, BelongsTo, StepUpIInv, StepUpTypeOK, RequestState
    <3>5. CASE CheckLocked(r) /\ ~Finish(r)
      BY <3>5, GotoKept DEF CheckLocked, StepUpIInv, PCs
    <3>6. CASE ConsumeCode(r) \/ (CountFailure(r) /\ ~Finish(r))
      BY <3>6, GotoKept DEF ConsumeCode, CountFailure, StepUpIInv, PCs
    <3>7. QED
      BY <1>2, <3>1, <3>2, <3>3, <3>4, <3>5, <3>6 DEF ExpireFailures, Abandon
  <2>3. ASSUME NEW h \in Challenge PROVE GuessAt(h)
    <3>1. r \notin Counted(h)'
      BY <2>2 DEF Counted
    <3>2. CASE r \in Guessing(h)' => r \in Guessing(h)
      BY <1>1, <2>1, <3>1, <3>2, GuessQuiet
    <3>3. CASE r \in Guessing(h)' /\ r \notin Guessing(h)
      <4>1. h = req[r].h /\ req[r].pc = "load" /\ chal[h].user = req[r].user
        BY <2>2, <3>3 DEF Guessing
      <4>2. chal[h].user # Nobody
        BY <4>1, StepUpAssumption DEF StepUpAssumption, StepUpIInv, BindInv
      <4>3. issued[h].user # Nobody
        BY <4>2, GuessFacts DEF Absent
      <4>4. QED
        BY <1>1, <2>1, <3>1, <4>2, <4>3, GuessQuiet
    <3>4. QED
      BY <3>2, <3>3
  <2>4. QED
    BY <2>1, <2>3, GuessStep
<1>3. QED
  BY <1>2, GuessCounts, GuessDeletes, GuessTries DEF VerifyStep

LEMMA GuessOther ==
  ASSUME StepUpIInv,
         \/ \E h \in Challenge, u \in User, j \in Jti : CreateChallenge(h, u, j)
         \/ \E r \in Verifier, ip \in Address, h \in Challenge, c \in Code : Submit(r, ip, h, c)
         \/ NextStep \/ UNCHANGED stepUpVars
  PROVE  GuessInv'
<1>1. CASE \E r \in Verifier, ip \in Address, h \in Challenge, c \in Code : Submit(r, ip, h, c)
  <2>1. PICK r \in Verifier, ip \in Address, h0 \in Challenge, c \in Code : Submit(r, ip, h0, c)
    BY <1>1
  <2>2. Only(r) /\ req'[r].pc = "throttle"
    BY <2>1, SubmitType DEF StepUpIInv
  <2>3. UNCHANGED <<step, issued, chal, tries>>
    BY <2>1 DEF Submit, store, ghosts
  <2>4. \A h \in Challenge : r \notin Guessing(h)' /\ r \notin Counted(h)'
    BY <2>2 DEF Guessing, Counted
  <2>5. \A h \in Challenge : GuessAt(h)
    BY <2>2, <2>3, <2>4, GuessQuiet
  <2>6. QED
    BY <2>3, <2>5, GuessStep
<1>2. CASE \E h \in Challenge, u \in User, j \in Jti : CreateChallenge(h, u, j)
  <2>1. PICK h \in Challenge, u \in User, j \in Jti : CreateChallenge(h, u, j)
    BY <1>2
  <2>2. /\ \A g \in Challenge \ {h} : chal'[g] = chal[g] /\ issued'[g] = issued[g]
        /\ chal'[h].user = u /\ chal'[h].attempts = 0 /\ issued'[h].user = u
    <3>1. /\ \A g \in Challenge \ {h} : chal'[g] = chal[g] /\ issued'[g] = issued[g]
          /\ chal'[h] = [user |-> u, jti |-> j, attempts |-> 0, ends |-> step + ChallengeTTL]
          /\ issued'[h] = chal'[h]
      BY <2>1, CreateType DEF StepUpIInv
    <3>2. QED
      BY <3>1
  <2>3. issued[h].user = Nobody /\ u # Nobody
    BY <2>1, StepUpAssumption DEF CreateChallenge, Absent, StepUpAssumption
  <2>4. tries[h] = 0 /\ Guessing(h) = {}
    BY <2>3, GuessFacts
  <2>5. Counted(h) = {}
    BY <2>4 DEF Guessing, Counted
  <2>6. UNCHANGED <<step, req, tries>>
    BY <2>1 DEF CreateChallenge
  <2>7. \A g : Guessing(g)' = Guessing(g) /\ Counted(g)' = Counted(g)
    BY <2>6 DEF Guessing, Counted
  <2>8. MaxAttempts \in Nat
    BY GuessFacts
  <2>9. ASSUME NEW g \in Challenge
        PROVE  IF issued'[g].user = Nobody
               THEN chal'[g] = Absent /\ tries[g] = 0 /\ Guessing(g) = {}
               ELSE IF chal'[g].user = Nobody
               THEN tries[g] + Cardinality(Guessing(g)) <= MaxAttempts + Cardinality(Verifier)
                       - (IF issued'[g].ends > step THEN 1 ELSE 0)
               ELSE /\ tries[g] + Cardinality(Counted(g)) <= chal'[g].attempts
                    /\ tries[g] + Cardinality(Counted(g)) <= MaxAttempts
    <3>1. CASE g = h
      <4>1. issued'[g].user # Nobody /\ chal'[g].user # Nobody
        BY <2>2, <2>3, <3>1
      <4>2. tries[g] = 0 /\ Cardinality(Counted(g)) = 0 /\ chal'[g].attempts = 0
        BY <2>2, <2>4, <2>5, <3>1, FS_EmptySet
      <4>3. QED
        BY <2>8, <4>1, <4>2
    <3>2. CASE g # h
      BY <2>2, <3>2, GuessFacts
    <3>3. QED
      BY <3>1, <3>2
  <2>10. QED
    BY <2>6, <2>7, <2>9 DEF GuessInv
<1>3. CASE NextStep
  <2>1. UNCHANGED <<req, issued, tries>> /\ step' = step + 1
    BY <1>3 DEF NextStep
  <2>2. \A h : Guessing(h)' = Guessing(h) /\ Counted(h)' = Counted(h)
    BY <2>1 DEF Guessing, Counted
  <2>3. ASSUME NEW h \in Challenge
        PROVE  IF issued[h].user = Nobody
               THEN chal'[h] = Absent /\ tries[h] = 0 /\ Guessing(h) = {}
               ELSE IF chal'[h].user = Nobody
               THEN tries[h] + Cardinality(Guessing(h)) <= MaxAttempts + Cardinality(Verifier)
                       - (IF issued[h].ends > step + 1 THEN 1 ELSE 0)
               ELSE /\ tries[h] + Cardinality(Counted(h)) <= chal'[h].attempts
                    /\ tries[h] + Cardinality(Counted(h)) <= MaxAttempts
    <3>1. /\ Guessing(h) \in SUBSET Verifier /\ Counted(h) \in SUBSET Verifier
      BY DEF Guessing, Counted
    <3>2. /\ Cardinality(Guessing(h)) \in Nat /\ Cardinality(Counted(h)) \in Nat
          /\ Cardinality(Guessing(h)) <= Cardinality(Verifier)
          /\ Cardinality(Verifier) \in Nat
      BY <3>1, Subsets
    <3>3. chal'[h] = IF chal[h].ends # Never /\ chal[h].ends <= step + 1 THEN Absent ELSE chal[h]
      BY <1>3 DEF NextStep
    <3>4. CASE chal'[h] = chal[h]
      BY <3>2, <3>4, GuessFacts
    <3>5. CASE chal'[h] = Absent /\ chal[h].ends <= step + 1
      <4>1. Absent.user = Nobody
        BY DEF Absent
      <4>2. CASE chal[h].user = Nobody
        BY <3>2, <3>5, <4>1, <4>2, GuessFacts
      <4>3. CASE chal[h].user # Nobody
        <5>1. issued[h].ends <= step + 1
          BY <3>5, <4>3 DEF StepUpIInv, BindInv
        <5>2. QED
          BY <3>2, <3>5, <4>1, <4>3, <5>1, GuessFacts
      <4>4. QED
        BY <4>2, <4>3
    <3>6. QED
      BY <3>3, <3>4, <3>5
  <2>4. QED
    BY <2>1, <2>2, <2>3 DEF GuessInv
<1>4. CASE UNCHANGED stepUpVars
  BY <1>4 DEF stepUpVars, store, ghosts, StepUpIInv, GuessInv, Guessing, Counted
<1>5. QED
  BY <1>1, <1>2, <1>3, <1>4

-----------------------------------------------------------------------------
(* The invariant and its consequences *)

LEMMA InitHolds == StepUpInit => StepUpIInv
<1> SUFFICES ASSUME StepUpInit PROVE StepUpIInv
  OBVIOUS
<1>1. StepUpTypeOK
  <2>1. Absent \in ChallengeHash /\ Absent \in [user : User \cup {Nobody}, jti : Jti \cup {NoJti},
                                        attempts : Nat, ends : Nat]
    BY DEF Absent, ChallengeHash
  <2>2. 1 \in 1..MaxStep
    BY StepUpAssumption DEF StepUpAssumption
  <2>3. QED
    BY <2>1, <2>2, IdleType DEF StepUpInit, StepUpTypeOK
<1>2. \A r \in Verifier : req[r].pc = "idle"
  BY DEF StepUpInit, NoWork
<1>3. Absent.user = Nobody
  BY DEF Absent
<1>4. BindInv
  BY <1>2, <1>3 DEF StepUpInit, BindInv, TokenBoundToChallenge, Loaded
<1>5. CodeInv
  BY <1>2 DEF StepUpInit, CodeInv
<1>6. GuessInv
  BY <1>2, <1>3 DEF StepUpInit, GuessInv, Guessing
<1>7. \A k : Pending(k) = {} /\ Unlocked(k) = {} /\ Failing(k) = {}
  BY <1>2 DEF Pending, Unlocked, Failing
<1>8. FailInv
  <2>1. Cardinality({}) = 0 /\ Cardinality(Verifier) \in Nat \ {0} /\ MaxUserFailures \in Nat \ {0}
    BY FS_EmptySet, Subsets, StepUpAssumption DEF StepUpAssumption
  <2>2. ASSUME NEW u \in User
        PROVE  /\ failures[u] = 0 /\ count[u] = 0 /\ abandons = 0
               /\ Cardinality(Failing(u)) = 0 /\ Cardinality(Unlocked(u)) = 0
    BY <1>7, <2>1 DEF StepUpInit, Key
  <2>3. QED
    BY <2>1, <2>2 DEF FailInv
<1>9. OrphansAreAccounted
  <2>1. Cardinality({}) = 0
    BY FS_EmptySet
  <2>2. ASSUME NEW k \in Key
        PROVE  count[k] = 0 /\ abandons = 0 /\ Cardinality(Pending(k)) = 0
    BY <1>7, <2>1 DEF StepUpInit
  <2>3. QED
    BY <2>2 DEF OrphansAreAccounted
<1>10. QED
  BY <1>1, <1>4, <1>5, <1>6, <1>8, <1>9 DEF StepUpIInv

LEMMA NextHolds == StepUpIInv /\ [StepUpNext]_stepUpVars => StepUpIInv'
<1> SUFFICES ASSUME StepUpIInv, [StepUpNext]_stepUpVars PROVE StepUpIInv'
  OBVIOUS
<1>1. ASSUME NEW r \in Verifier, VerifyStep(r) PROVE StepUpIInv'
  <2>1. StepUpTypeOK'
    BY <1>1, StoreType DEF StepUpIInv
  <2>2. QED
    BY <1>1, <2>1, BindPreserved, CodePreserved, OrphansPreserved, FailPreserved,
       GuessPreserved DEF StepUpIInv
<1>2. ASSUME \/ \E h \in Challenge, u \in User, j \in Jti : CreateChallenge(h, u, j)
             \/ \E r \in Verifier, ip \in Address, h \in Challenge, c \in Code : Submit(r, ip, h, c)
             \/ NextStep \/ UNCHANGED stepUpVars
      PROVE  StepUpIInv'
  <2>1. StepUpTypeOK'
    BY <1>2, CreateType, SubmitType, TickType, StutterType DEF StepUpIInv
  <2>2. QED
    BY <1>2, <2>1, BindOther, CodeOther, OrphansOther, FailOther, GuessOther DEF StepUpIInv
<1>3. QED
  BY <1>1, <1>2 DEF StepUpNext

LEMMA StepUpInv == StepUpSpec => []StepUpIInv
BY InitHolds, NextHolds, PTL DEF StepUpSpec

(* Every variable of step-up authentication keeps its type.                *)
THEOREM StepUpTypeCorrect == StepUpSpec => []StepUpTypeOK
<1>1. StepUpIInv => StepUpTypeOK
  BY DEF StepUpIInv
<1>2. QED
  BY StepUpInv, <1>1, PTL

(* A token is for the user and the access token of its challenge.          *)
THEOREM TokenBound == StepUpSpec => []TokenBoundToChallenge
<1>1. StepUpIInv => TokenBoundToChallenge
  BY DEF StepUpIInv, BindInv
<1>2. QED
  BY StepUpInv, <1>1, PTL

(* MAX_ATTEMPTS bounds the guesses against a challenge, up to the requests *)
(* that had read it before it was destroyed.                               *)
THEOREM ChallengeGuessesBounded == StepUpSpec => []GuessesPerChallenge
<1>1. StepUpIInv => GuessesPerChallenge
  <2> SUFFICES ASSUME StepUpIInv, NEW h \in Challenge
               PROVE  tries[h] <= MaxAttempts + Cardinality(Verifier)
                                    - (IF issued[h].ends > step THEN 1 ELSE 0)
    BY DEF GuessesPerChallenge
  <2>1. Guessing(h) \in SUBSET Verifier /\ Counted(h) \in SUBSET Verifier
    BY DEF Guessing, Counted
  <2>2. /\ Cardinality(Guessing(h)) \in Nat /\ Cardinality(Counted(h)) \in Nat
        /\ Cardinality(Verifier) \in Nat \ {0}
    BY <2>1, Subsets
  <2>3. QED
    BY <2>2, GuessFacts
<1>2. QED
  BY StepUpInv, <1>1, PTL

(* MAX_USER_FAILURES bounds the codes refused for a user, up to the        *)
(* requests past their lock check and those that died uncounted.           *)
THEOREM UserGuessesBounded == StepUpSpec => []GuessesPerUser
<1>1. StepUpIInv => GuessesPerUser
  <2> SUFFICES ASSUME StepUpIInv, NEW u \in User
               PROVE  failures[u] <= MaxUserFailures + Cardinality(Verifier) - 1 + abandons
    BY DEF GuessesPerUser
  <2>1. Unlocked(u) \in SUBSET Verifier
    BY DEF Unlocked
  <2>2. Cardinality(Unlocked(u)) \in Nat /\ Cardinality(Verifier) \in Nat \ {0}
    BY <2>1, Subsets
  <2>3. QED
    BY <2>2, FailFacts
<1>2. QED
  BY StepUpInv, <1>1, PTL

(* A counter that lost its EXPIRE holds only hits of requests that died or *)
(* are about to set it.                                                    *)
THEOREM OrphansBounded == StepUpSpec => []OrphansAreAccounted
<1>1. StepUpIInv => OrphansAreAccounted
  BY DEF StepUpIInv
<1>2. QED
  BY StepUpInv, <1>1, PTL

(* A code is accepted once for its user.                                   *)
THEOREM CodeOnce == StepUpSpec => CodeAcceptedOnce
<1>1. StepUpIInv /\ [StepUpNext]_stepUpVars =>
        \A r \in Verifier : req[r].pc = "consume" /\ req'[r].pc = "take" =>
            <<req[r].user, req[r].code>> \notin spent
  <2> SUFFICES ASSUME StepUpIInv, [StepUpNext]_stepUpVars, NEW r \in Verifier,
                      req[r].pc = "consume", req'[r].pc = "take"
               PROVE  <<req[r].user, req[r].code>> \notin spent
    OBVIOUS
  <2>1. ConsumeCode(r)
    <3>1. ASSUME NEW q \in Verifier, VerifyStep(q) PROVE q = r /\ ConsumeCode(r)
      <4>1. q = r
        BY <3>1, RequestsType DEF StepUpIInv, Only
      <4>2. ConsumeCode(r) \/ Abandon(r)
        BY <3>1, <4>1 DEF VerifyStep, Throttle, ExpireIp, ReadUser, LoadEntry, CheckLocked,
           CountAttempt, DestroyChallenge, MatchCode, CountFailure, ExpireFailures,
           TakeChallenge
      <4>3. ~Abandon(r)
        BY FinishIdle DEF Abandon, StepUpIInv
      <4>4. QED
        BY <4>1, <4>2, <4>3
    <3>2. ASSUME NEW q \in Verifier, NEW ip \in Address, NEW h \in Challenge, NEW c \in Code,
                 Submit(q, ip, h, c)
          PROVE  FALSE
      BY <3>2, SubmitType DEF StepUpIInv, Only
    <3>3. req' # req
      OBVIOUS
    <3>4. QED
      BY <3>1, <3>2, <3>3 DEF StepUpNext, CreateChallenge, NextStep, stepUpVars
  <2>2. used[req[r].user][req[r].code] = 0
    <3>1. Goto(r, "fail") => req'[r].pc = "fail"
      BY GotoKept DEF StepUpIInv, PCs
    <3>2. QED
      BY <2>1, <3>1 DEF ConsumeCode
  <2>3. /\ req[r].user \in User /\ req[r].code \in Counter /\ step <= req[r].code + 2
    BY DEF StepUpIInv, BindInv, Loaded, CodeInv
  <2>4. req[r].code \in Nat /\ step \in Nat
    BY <2>3, StepUpAssumption DEF Counter, StepUpAssumption, StepUpIInv, StepUpTypeOK
  <2>5. ASSUME <<req[r].user, req[r].code>> \in spent PROVE FALSE
    <3>1. used[req[r].user][req[r].code] >= req[r].code + 3 \/ step >= req[r].code + 3
      BY <2>3, <2>5 DEF StepUpIInv, CodeInv
    <3>2. QED
      BY <2>2, <2>3, <2>4, <3>1
  <2>6. QED
    BY <2>5
<1>2. QED
  BY StepUpInv, <1>1, PTL DEF StepUpSpec, CodeAcceptedOnce
=============================================================================
