------------------------------- MODULE StepUp -------------------------------
(***************************************************************************)
(* Step-up authentication of the Django application                        *)
(* (services/django-app/core/stepup.py, the step_up_verify view of         *)
(* core/views.py).                                                         *)
(*                                                                         *)
(* Challenges, attempt counters and spent codes are Redis keys shared by   *)
(* the gunicorn workers.  A verification is a sequence of Redis round      *)
(* trips; each is an action here, so the submissions of one user           *)
(* interleave.  A request may end between any two of them: the worker is   *)
(* killed or Redis raises, and the view answers 503 at best (Abandon).     *)
(*                                                                         *)
(* Time is counted in TOTP steps of 30 seconds.  gunicorn kills a worker   *)
(* whose request lasts 30 seconds (--timeout 30), so a request sees at     *)
(* most one step boundary (`slow').                                        *)
(***************************************************************************)
EXTENDS Integers, FiniteSets

CONSTANTS
    Verifier,          \* threads that run step_up_verify
    Challenge,         \* challenge ids (uuid4: never issued twice)
    User, Jti, Address,    \* subjects, access-token hashes, client addresses
    MaxAttempts,       \* MAX_ATTEMPTS
    MaxUserFailures,   \* MAX_USER_FAILURES
    IpMaxAttempts,     \* _IP_MAX_ATTEMPTS
    ChallengeTTL,      \* _CHALLENGE_TTL, in steps
    UserWindow,        \* _USER_WINDOW, in steps
    IpWindow,          \* _IP_WINDOW_SECONDS, in steps
    Wrong,             \* a code that matches no counter of the user
    Nobody, NoJti,     \* fields of a hash that does not hold them
    Never,             \* the expiry of a key without a TTL
    MaxStep,           \* bound: the clock stops here
    MaxSubmits,        \* bound: submissions in a behaviour
    MaxAbandons        \* bound: requests that end half-way

ASSUME StepUpAssumption ==
    /\ IsFiniteSet(Verifier) /\ Verifier # {} /\ Challenge # {} /\ Address # {}
    /\ User \cap Address = {} /\ Nobody \notin User /\ Never \notin Nat
    /\ {MaxAttempts, MaxUserFailures} \subseteq Nat \ {0} /\ IpMaxAttempts \in Nat
    /\ {ChallengeTTL, UserWindow, IpWindow} \subseteq Nat
    /\ MaxStep \in Nat \ {0} /\ Wrong \notin 0..(MaxStep + 1)

VARIABLES
    step,       \* the current TOTP step
    chal,       \* chal[h]: the challenge hash, or Absent
    count,      \* count[k]: counter of a user or of an address, 0 if absent
    ends,       \* ends[k]: the step the counter expires, or Never
    used,       \* used[u][c]: the step the spent mark of code c expires, or 0
    req,        \* req[r]: the state of the request
    slow,       \* requests that saw a step boundary
    issued,     \* issued[h]: what create_challenge stored for h, or Absent
    spent,      \* codes accepted so far, as <<user, counter>>
    minted,     \* step-up tokens given out
    tries,      \* tries[h]: codes evaluated against challenge h
    failures,   \* failures[u]: codes refused since u's counter last expired
    submits, abandons

store == <<chal, count, ends, used>>
ghosts == <<issued, spent, minted, tries, failures>>
stepUpVars == <<step, store, req, slow, ghosts, submits, abandons>>

Absent == [user |-> Nobody, jti |-> NoJti, attempts |-> 0, ends |-> 0]
Exists(h) == chal[h] # Absent

Counter == 0..(MaxStep + 1)
Code == Counter \cup {Wrong}
Key == User \cup Address

PCs == {"idle", "throttle", "ipExpire", "user", "load", "locked", "attempt",
        "destroy", "match", "consume", "fail", "failExpire", "take"}

NoWork == [pc |-> "idle", h |-> CHOOSE h \in Challenge : TRUE,
           ip |-> CHOOSE i \in Address : TRUE,
           code |-> Wrong, user |-> Nobody, jti |-> NoJti, over |-> FALSE]

(* Broken variant: the spent mark lasts as long as the window of the code. *)
UsedTTLWindow == 3

(* TTL constants of the code that its properties depend on. *)
MatchWindow == 1       \* _match_totp(window=1)
UsedTTL == 4           \* ex=_TOTP_STEP * 4

ChallengeHash == [user : User \cup {Nobody}, jti : Jti \cup {NoJti}, attempts : Nat,
                  ends : Nat \cup {Never}]

RequestState == [pc : PCs, h : Challenge, ip : Address, code : Code, user : User \cup {Nobody},
                 jti : Jti \cup {NoJti}, over : BOOLEAN]

StepUpTypeOK ==
    /\ step \in 1..MaxStep
    /\ chal \in [Challenge -> ChallengeHash]
    /\ count \in [Key -> Nat]
    /\ ends \in [Key -> Nat \cup {Never}]
    /\ used \in [User -> [Counter -> Nat]]
    /\ req \in [Verifier -> RequestState]
    /\ slow \subseteq {r \in Verifier : req[r].pc # "idle"}
    /\ spent \subseteq User \X Counter
    /\ issued \in [Challenge -> [user : User \cup {Nobody}, jti : Jti \cup {NoJti},
                                 attempts : Nat, ends : Nat]]
    /\ tries \in [Challenge -> Nat] /\ failures \in [User -> Nat]
    /\ abandons \in Nat

StepUpInit ==
    /\ step = 1
    /\ chal = [h \in Challenge |-> Absent]
    /\ count = [k \in Key |-> 0]
    /\ ends = [k \in Key |-> Never]
    /\ used = [u \in User |-> [c \in Counter |-> 0]]
    /\ req = [r \in Verifier |-> NoWork]
    /\ slow = {}
    /\ issued = [h \in Challenge |-> Absent]
    /\ spent = {} /\ minted = {}
    /\ tries = [h \in Challenge |-> 0]
    /\ failures = [u \in User |-> 0]
    /\ submits = 0 /\ abandons = 0

-----------------------------------------------------------------------------
Goto(r, label) == req' = [req EXCEPT ![r].pc = label]

(* The view answers; the thread is free. *)
Finish(r) ==
    /\ req' = [req EXCEPT ![r] = NoWork]
    /\ slow' = slow \ {r}

(* create_challenge, called by the middleware: HSET and EXPIRE in one MULTI. *)
CreateChallenge(h, u, j) ==
    /\ issued[h] = Absent
    /\ chal' = [chal EXCEPT ![h] = [user |-> u, jti |-> j, attempts |-> 0,
                                    ends |-> step + ChallengeTTL]]
    /\ issued' = [issued EXCEPT ![h] = chal'[h]]
    /\ UNCHANGED <<step, count, ends, used, req, slow, spent, minted, tries, failures,
                   submits, abandons>>

(* POST /v1/auth/step-up/verify *)
Submit(r, ip, h, code) ==
    /\ req[r].pc = "idle"
    /\ submits < MaxSubmits
    /\ submits' = submits + 1
    /\ req' = [req EXCEPT ![r] = [NoWork EXCEPT !.pc = "throttle", !.ip = ip, !.h = h,
                                                !.code = code]]
    /\ UNCHANGED <<step, store, slow, ghosts, abandons>>

(* Broken variant: EXPIRE only after the first hit. *)
NeedsExpiryFirstHit(k) == count[k] = 0

(* bump_counter: INCR and TTL in one MULTI; a key without a TTL gets its   *)
(* EXPIRE in a second round trip (ExpireKey).                              *)
Bump(k) == count' = [count EXCEPT ![k] = @ + 1]
NeedsExpiry(k) == ends[k] = Never

ExpireKey(k, window) ==
    ends' = [ends EXCEPT ![k] = IF count[k] = 0 THEN Never ELSE step + window]

(* The view goes on with the address's hit count, or answers 429. *)
Admit(r, over) == IF over THEN Finish(r) ELSE Goto(r, "user") /\ UNCHANGED slow

Throttle(r) ==
    /\ req[r].pc = "throttle"
    /\ Bump(req[r].ip)
    /\ LET over == count[req[r].ip] + 1 > IpMaxAttempts IN
         IF NeedsExpiry(req[r].ip)
         THEN /\ req' = [req EXCEPT ![r].pc = "ipExpire", ![r].over = over]
              /\ UNCHANGED slow
         ELSE Admit(r, over)
    /\ UNCHANGED <<step, chal, ends, used, ghosts, submits, abandons>>

ExpireIp(r) ==
    /\ req[r].pc = "ipExpire"
    /\ ExpireKey(req[r].ip, IpWindow)
    /\ Admit(r, req[r].over)
    /\ UNCHANGED <<step, chal, count, used, ghosts, submits, abandons>>

(* get_challenge_user: the stored user is authoritative.  No user, or a    *)
(* body naming another one, is answered 401.                               *)
ReadUser(r) ==
    /\ req[r].pc = "user"
    /\ \/ Finish(r)
       \/ /\ chal[req[r].h].user # Nobody
          /\ req' = [req EXCEPT ![r].pc = "load", ![r].user = chal[req[r].h].user]
          /\ UNCHANGED slow
    /\ UNCHANGED <<step, store, ghosts, submits, abandons>>

(* Broken variant: the entry is used whoever it belongs to. *)
BelongsToAnyone(h, u) == TRUE

BelongsTo(h, u) == chal[h].user = u

(* verify_challenge: HGETALL, and the check on what it returns. *)
LoadEntry(r) ==
    /\ req[r].pc = "load"
    /\ IF BelongsTo(req[r].h, req[r].user)
       THEN /\ req' = [req EXCEPT ![r].pc = "locked", ![r].jti = chal[req[r].h].jti]
            /\ UNCHANGED slow
       ELSE Finish(r)
    /\ UNCHANGED <<step, store, ghosts, submits, abandons>>

(* Broken variant: one failure more. *)
LockedLate(u) == count[u] > MaxUserFailures

(* _user_locked *)
Locked(u) == count[u] >= MaxUserFailures

CheckLocked(r) ==
    /\ req[r].pc = "locked"
    /\ IF Locked(req[r].user) THEN Finish(r) ELSE Goto(r, "attempt") /\ UNCHANGED slow
    /\ UNCHANGED <<step, store, ghosts, submits, abandons>>

(* HINCRBY attempts 1: on a key that is gone it creates a hash with that   *)
(* field only, without a TTL.                                              *)
Incremented(h) ==
    IF Exists(h) THEN [chal[h] EXCEPT !.attempts = @ + 1]
    ELSE [Absent EXCEPT !.attempts = 1, !.ends = Never]

(* Broken variant: the limit is checked against the count before this one. *)
TooManyLate(h) == chal[h].attempts > MaxAttempts

TooMany(h) == Incremented(h).attempts > MaxAttempts

CountAttempt(r) ==
    /\ req[r].pc = "attempt"
    /\ chal' = [chal EXCEPT ![req[r].h] = Incremented(req[r].h)]
    /\ Goto(r, IF TooMany(req[r].h) THEN "destroy" ELSE "match")
    /\ UNCHANGED <<step, count, ends, used, slow, ghosts, submits, abandons>>

DestroyChallenge(r) ==
    /\ req[r].pc = "destroy"
    /\ chal' = [chal EXCEPT ![req[r].h] = Absent]
    /\ Finish(r)
    /\ UNCHANGED <<step, count, ends, used, ghosts, submits, abandons>>

(* _match_totp, at the time of the call. *)
Matches(code) == code # Wrong /\ code \in (step - MatchWindow)..(step + MatchWindow)

Refused(r) == failures' = [failures EXCEPT ![req[r].user] = @ + 1]

MatchCode(r) ==
    /\ req[r].pc = "match"
    /\ tries' = [tries EXCEPT ![req[r].h] = @ + 1]
    /\ IF Matches(req[r].code) THEN Goto(r, "consume") /\ UNCHANGED failures
       ELSE Goto(r, "fail") /\ Refused(r)
    /\ UNCHANGED <<step, store, slow, issued, spent, minted, submits, abandons>>

(* _consume_totp_counter: SET key 1 NX EX *)
ConsumeCode(r) ==
    /\ req[r].pc = "consume"
    /\ LET u == req[r].user
           c == req[r].code
       IN IF used[u][c] = 0
          THEN /\ used' = [used EXCEPT ![u][c] = step + UsedTTL]
               /\ spent' = spent \cup {<<u, c>>}
               /\ Goto(r, "take")
               /\ UNCHANGED failures
          ELSE /\ Goto(r, "fail")
               /\ Refused(r)
               /\ UNCHANGED <<used, spent>>
    /\ UNCHANGED <<step, chal, count, ends, slow, issued, minted, tries, submits, abandons>>

CountFailure(r) ==
    /\ req[r].pc = "fail"
    /\ Bump(req[r].user)
    /\ IF NeedsExpiry(req[r].user) THEN Goto(r, "failExpire") /\ UNCHANGED slow ELSE Finish(r)
    /\ UNCHANGED <<step, chal, ends, used, ghosts, submits, abandons>>

ExpireFailures(r) ==
    /\ req[r].pc = "failExpire"
    /\ ExpireKey(req[r].user, UserWindow)
    /\ Finish(r)
    /\ UNCHANGED <<step, chal, count, used, ghosts, submits, abandons>>

(* DELETE must remove a key; then _mint_step_up_token. *)
TakeChallenge(r) ==
    /\ req[r].pc = "take"
    /\ chal' = [chal EXCEPT ![req[r].h] = Absent]
    /\ minted' = IF Exists(req[r].h)
                 THEN minted \cup {[h |-> req[r].h, user |-> req[r].user, jti |-> req[r].jti,
                                    code |-> req[r].code]}
                 ELSE minted
    /\ Finish(r)
    /\ UNCHANGED <<step, count, ends, used, issued, spent, tries, failures, submits, abandons>>

(* The worker is killed, or a Redis call raises. *)
Abandon(r) ==
    /\ req[r].pc # "idle"
    /\ abandons < MaxAbandons
    /\ abandons' = abandons + 1
    /\ Finish(r)
    /\ UNCHANGED <<step, store, ghosts, submits>>

(* A step passes; Redis drops the keys whose TTL ends. *)
NextStep ==
    /\ step < MaxStep
    /\ slow = {}
    /\ step' = step + 1
    /\ slow' = {r \in Verifier : req[r].pc # "idle"}
    /\ chal' = [h \in Challenge |-> IF chal[h].ends # Never /\ chal[h].ends <= step + 1
                                    THEN Absent ELSE chal[h]]
    /\ LET over == {k \in Key : ends[k] # Never /\ ends[k] <= step + 1} IN
         /\ count' = [k \in Key |-> IF k \in over THEN 0 ELSE count[k]]
         /\ ends' = [k \in Key |-> IF k \in over THEN Never ELSE ends[k]]
         /\ failures' = [u \in User |-> IF u \in over THEN 0 ELSE failures[u]]
    /\ used' = [u \in User |-> [c \in Counter |->
                   IF used[u][c] <= step + 1 THEN 0 ELSE used[u][c]]]
    /\ UNCHANGED <<req, issued, spent, minted, tries, submits, abandons>>

-----------------------------------------------------------------------------
VerifyStep(r) ==
    \/ Throttle(r) \/ ExpireIp(r) \/ ReadUser(r) \/ LoadEntry(r) \/ CheckLocked(r)
    \/ CountAttempt(r) \/ DestroyChallenge(r) \/ MatchCode(r) \/ ConsumeCode(r)
    \/ CountFailure(r) \/ ExpireFailures(r) \/ TakeChallenge(r) \/ Abandon(r)

StepUpNext ==
    \/ \E h \in Challenge, u \in User, j \in Jti : CreateChallenge(h, u, j)
    \/ \E r \in Verifier, ip \in Address, h \in Challenge, c \in Code : Submit(r, ip, h, c)
    \/ \E r \in Verifier : VerifyStep(r)
    \/ NextStep

StepUpSpec == StepUpInit /\ [][StepUpNext]_stepUpVars
-----------------------------------------------------------------------------
(* Properties *)

(* A correct code is accepted once for its user, whatever challenge it is  *)
(* sent to and however its submissions interleave: the spent mark outlives *)
(* the window in which the code still matches (stepup.py:157-164).         *)
CodeAcceptedOnce ==
    [][\A r \in Verifier : req[r].pc = "consume" /\ req'[r].pc = "take" =>
          <<req[r].user, req[r].code>> \notin spent]_stepUpVars

(* A token proves step-up of the user and of the access token its          *)
(* challenge was created for (stepup.py:1-6), though the entry is read     *)
(* before the challenge is counted, destroyed and perhaps re-created by    *)
(* another request.                                                        *)
TokenBoundToChallenge ==
    \A m \in minted : m.user = issued[m.h].user /\ m.jti = issued[m.h].jti

(* "one-shot, even under concurrent correct submissions" (stepup.py:137).  *)
ChallengeIsOneShot ==
    \A h \in Challenge : Cardinality({m \in minted : m.h = h}) <= 1

(* Codes guessed against one challenge: MAX_ATTEMPTS (stepup.py:116-131),  *)
(* and one more for each other request that had read the challenge before  *)
(* it was destroyed; its TTL destroys it without a request of its own.     *)
(* "limited to MAX_ATTEMPTS wrong codes" (stepup.py:3-4) is thus exceeded  *)
(* by requests whose HINCRBY counts from 1 again in the hash it re-creates.*)
GuessesPerChallenge ==
    \A h \in Challenge :
        tries[h] <= MaxAttempts + Cardinality(Verifier) - (IF issued[h].ends > step THEN 1 ELSE 0)

(* Codes refused for one user across all challenges within the window:     *)
(* MAX_USER_FAILURES (stepup.py:89-90, 127-135), one more for each other   *)
(* request past its lock check, and one for each request that ended before *)
(* its failure was counted.                                                *)
GuessesPerUser ==
    \A u \in User :
        failures[u] <= MaxUserFailures + Cardinality(Verifier) - 1 + abandons

(* Requests about to set the TTL of the counter they incremented.          *)
Pending(k) == {r \in Verifier : \/ req[r].pc = "ipExpire" /\ req[r].ip = k
                                \/ req[r].pc = "failExpire" /\ req[r].user = k}

(* A counter without a TTL holds only hits of requests that died, or are   *)
(* about to set the TTL, between INCR and EXPIRE (bump_counter,            *)
(* stepup.py:73-86): one such hit never makes the later ones permanent.    *)
OrphansAreAccounted ==
    \A k \in Key : ends[k] = Never => count[k] <= abandons + Cardinality(Pending(k))
-----------------------------------------------------------------------------
(* The inductive invariant *)

Loaded == {"locked", "attempt", "destroy", "match", "consume", "fail", "failExpire", "take"}

(* A hash that names a user is the one create_challenge stored, and what a *)
(* request read from it is still what was stored.                          *)
BindInv ==
    /\ \A h \in Challenge : chal[h].user # Nobody =>
          /\ chal[h].user = issued[h].user /\ chal[h].jti = issued[h].jti
          /\ chal[h].ends = issued[h].ends
    /\ \A r \in Verifier :
          /\ req[r].pc = "load" => req[r].user \in User
          /\ req[r].pc \in Loaded => /\ req[r].user \in User
                                     /\ req[r].user = issued[req[r].h].user
                                     /\ req[r].jti = issued[req[r].h].jti
    /\ \A m \in minted : m.h \in Challenge /\ m.user \in User
    /\ TokenBoundToChallenge

(* A code is recorded at most one boundary after it matched, and its spent *)
(* mark outlives the steps in which it can be recorded again.              *)
CodeInv ==
    /\ \A r \in Verifier : req[r].pc = "consume" =>
          /\ req[r].code \in Counter
          /\ req[r].code <= step + 1 /\ step <= req[r].code + 2
          /\ r \notin slow => step <= req[r].code + 1
    /\ \A u \in User, c \in Counter : <<u, c>> \in spent =>
          used[u][c] >= c + 3 \/ step >= c + 3

(* Requests that may still evaluate a code against h; those that counted   *)
(* it already.                                                             *)
Guessing(h) == {r \in Verifier : req[r].h = h /\ req[r].pc \in {"locked", "attempt", "match"}}
Counted(h) == {r \in Verifier : req[r].h = h /\ req[r].pc = "match"}

GuessInv ==
    \A h \in Challenge :
        IF issued[h].user = Nobody
        THEN chal[h] = Absent /\ tries[h] = 0 /\ Guessing(h) = {}
        ELSE IF chal[h].user = Nobody
        THEN tries[h] + Cardinality(Guessing(h)) <=
                MaxAttempts + Cardinality(Verifier) - (IF issued[h].ends > step THEN 1 ELSE 0)
        ELSE /\ tries[h] + Cardinality(Counted(h)) <= chal[h].attempts
             /\ tries[h] + Cardinality(Counted(h)) <= MaxAttempts

(* Requests past the lock check of u, before and after the refusal.        *)
Unlocked(u) == {r \in Verifier : req[r].user = u /\ req[r].pc \in {"attempt", "match", "consume"}}
Failing(u) == {r \in Verifier : req[r].user = u /\ req[r].pc = "fail"}

FailInv ==
    \A u \in User :
        /\ failures[u] <= count[u] + Cardinality(Failing(u)) + abandons
        /\ failures[u] + Cardinality(Unlocked(u)) <=
              MaxUserFailures + Cardinality(Verifier) - 1 + abandons

StepUpIInv == StepUpTypeOK /\ BindInv /\ CodeInv /\ GuessInv /\ FailInv /\ OrphansAreAccounted
=============================================================================
