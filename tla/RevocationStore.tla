--------------------------- MODULE RevocationStore ---------------------------
(***************************************************************************)
(* The token revocations of the policy gateway                             *)
(* (services/gateway/revocation_store.py, the POST /v1/tokens/revoke       *)
(* handler of services/gateway/app.py, its startup and shutdown).          *)
(*                                                                         *)
(* A revocation is a row of the Postgres table token_revocations, the      *)
(* durable record, and a Redis key with a TTL, the fast path every policy  *)
(* decision reads.  The gateway runs as several uvicorn worker processes   *)
(* (Worker); each serves revoke calls on a thread pool and runs a resync   *)
(* thread that re-seeds missing Redis keys from the rows.  The steps of a  *)
(* revoke call and of a resync pass interleave with each other, with time, *)
(* and with the loss or the outage of Redis, of Postgres and of a worker.  *)
(*                                                                         *)
(* Time is in seconds.  `now' is the whole part of the clock; a read of    *)
(* time.time() falls anywhere in the second, so the int() of a difference  *)
(* may be one less than the difference of whole parts (ClockReads).        *)
(***************************************************************************)
EXTENDS Integers

CONSTANTS
    Token,       \* token_jti_hash values (the empty hash is refused by revoke)
    Caller,      \* request threads serving revoke calls
    Worker,      \* gateway worker processes (UVICORN_WORKERS)
    Host,        \* Host[c]: the worker whose pool thread c belongs to
    Exp,         \* Exp[t]: the `exp' claim of token t
    Leeway,      \* seconds past exp during which a relying party accepts t
    Grace,       \* REVOCATION_EXP_GRACE_SECONDS
    TTL,         \* REVOCATION_TTL_SECONDS
    UseDB,       \* AZTDP_DB_URL is set
    NoExp,       \* an absent expires_at (None, SQL NULL)
    NoRow,       \* no row for the token
    NoToken,     \* no token: of an idle thread, or of a resync between rows
    MaxTime,     \* bound: the clock stops here
    MaxFaults    \* bound: faults injected in a behaviour

(* The configuration the code is deployed with satisfies these: the grace  *)
(* exceeds the leeway of the relying parties by more than the second that  *)
(* int() may drop (300 against 60), and a token's whole life, at most      *)
(* Exp[t] from the start of the clock, is shorter than the default TTL     *)
(* (300 against 3600).                                                     *)
ASSUME ClockAssumption ==
    /\ Grace \in Nat /\ TTL \in Nat /\ Leeway \in Nat
    /\ MaxTime \in Nat /\ MaxFaults \in Nat
    /\ Exp \in [Token -> Nat]
    /\ Leeway + 2 <= Grace
    /\ \A t \in Token : Exp[t] + Leeway + 2 <= TTL

ASSUME NameAssumption ==
    /\ UseDB \in BOOLEAN
    /\ NoExp \notin Int /\ NoRow \notin Int /\ NoExp # NoRow
    /\ NoToken \notin Token
    /\ Host \in [Caller -> Worker]

VARIABLES
    now,         \* whole seconds of the clock every host shares
    rowExp,      \* rowExp[t]: expires_at of t's row, NoExp, or NoRow
    revokedAt,   \* revokedAt[t]: revoked_at of t's row (0 without a row)
    cache,       \* cache[t]: the second t's Redis key expires, 0 without a key
    dbUp,        \* Postgres accepts connections
    redisUp,     \* Redis answers
    serving,     \* serving[w]: the worker finished its startup handler
    pc,          \* pc[c]: where the revoke call stands
    tok,         \* tok[c]: the token it revokes
    arg,         \* arg[c]: its expires_at argument
    rpc,         \* rpc[w]: where the resync of the worker stands
    left,        \* left[w][t]: `remaining' of t's row in this pass, 0 if none
    cur,         \* cur[w]: the row found missing and not yet written
    acked,       \* tokens some caller got {"status": "revoked"} for
    missed,      \* tokens whose key was lost or not written, and not restored
    faults       \* faults so far

dbVars     == <<rowExp, revokedAt>>
callVars   == <<pc, tok, arg>>
resyncVars == <<rpc, left, cur>>
linkVars   == <<dbUp, redisUp>>
vars == <<now, dbVars, cache, linkVars, serving, callVars, resyncVars,
          acked, missed, faults>>

CallStates   == {"idle", "insert", "cache", "reply", "failed"}
ResyncStates == {"off", "wait", "active", "rows"}

TypeOK ==
    /\ now \in Nat
    /\ rowExp \in [Token -> Nat \cup {NoExp, NoRow}]
    /\ revokedAt \in [Token -> Nat]
    /\ cache \in [Token -> Nat]
    /\ dbUp \in BOOLEAN /\ redisUp \in BOOLEAN
    /\ serving \in [Worker -> BOOLEAN]
    /\ pc \in [Caller -> CallStates]
    /\ tok \in [Caller -> Token \cup {NoToken}]
    /\ arg \in [Caller -> Nat \cup {NoExp}]
    /\ \A c \in Caller : pc[c] = "idle" <=> tok[c] = NoToken
    /\ rpc \in [Worker -> ResyncStates]
    /\ left \in [Worker -> [Token -> Nat]]
    /\ cur \in [Worker -> Token \cup {NoToken}]
    /\ acked \subseteq Token
    /\ missed \subseteq Token
    /\ faults \in Nat

Init ==
    /\ now = 0
    /\ rowExp = [t \in Token |-> NoRow]
    /\ revokedAt = [t \in Token |-> 0]
    /\ cache = [t \in Token |-> 0]
    /\ dbUp = TRUE /\ redisUp = TRUE
    /\ serving = [w \in Worker |-> FALSE]
    /\ pc = [c \in Caller |-> "idle"]
    /\ tok = [c \in Caller |-> NoToken]
    /\ arg = [c \in Caller |-> NoExp]
    /\ rpc = [w \in Worker |-> "off"]
    /\ left = [w \in Worker |-> [t \in Token |-> 0]]
    /\ cur = [w \in Worker |-> NoToken]
    /\ acked = {} /\ missed = {}
    /\ faults = 0

-----------------------------------------------------------------------------
(* Times and TTLs *)

(* What time.time() can return in second `now', rounded up: the fraction   *)
(* matters only through int().                                             *)
ClockReads == {now, now + 1}

(* Broken variant: the TTL ends with the token, without the grace. *)
TtlForWithoutGrace(exp, clk) ==
    IF exp = NoExp THEN TTL ELSE IF exp - clk >= 1 THEN exp - clk ELSE 1

(* _ttl_for, at a clock read of clk. *)
TtlFor(exp, clk) ==
    IF exp = NoExp THEN TTL
    ELSE IF exp + Grace - clk >= 1 THEN exp + Grace - clk ELSE 1

HasRow(t) == rowExp[t] # NoRow
Cached(t) == cache[t] # 0

(* Broken variant: rows without expires_at are forgotten. *)
ActiveWithExpOnly(t) == HasRow(t) /\ rowExp[t] # NoExp /\ rowExp[t] > now - Grace

(* The predicate of active(): the row is still in force. *)
Active(t) ==
    /\ HasRow(t)
    /\ \/ rowExp[t] # NoExp /\ rowExp[t] > now - Grace
       \/ rowExp[t] = NoExp /\ revokedAt[t] > now - TTL

(* The exp that active() reports: a NULL expires_at becomes revoked_at +   *)
(* ttl - grace, which ::bigint rounds to a second (round is 0 or 1).       *)
ReportedExp(t, round) ==
    IF rowExp[t] = NoExp THEN revokedAt[t] + TTL - Grace + round ELSE rowExp[t]

(* Broken variant: the grace is not added to a restored key. *)
RemainingWithoutGrace(exp, clk) == IF exp - clk > 0 THEN exp - clk ELSE 0

(* `remaining' of a row of the pass, or 0 when resync() skips the row. *)
Remaining(exp, clk) ==
    IF exp + Grace - clk > 0 THEN exp + Grace - clk ELSE 0

(* A relying party still honours token t. *)
Accepted(t) == now <= Exp[t] + Leeway

-----------------------------------------------------------------------------
(* RevocationStore.revoke, called by the revoke_token handler *)

(* Broken variant: the key is written before the row. *)
CacheFirst == "cache"

(* revoke() writes the row first; without a database there is none. *)
FirstStep == IF UseDB THEN "insert" ELSE "cache"

(* POST /v1/tokens/revoke reaches a worker that serves.  Callers pass the  *)
(* token's exp, or nothing.                                                *)
Call(c, t, exp) ==
    /\ pc[c] = "idle"
    /\ serving[Host[c]]
    /\ pc' = [pc EXCEPT ![c] = FirstStep]
    /\ tok' = [tok EXCEPT ![c] = t]
    /\ arg' = [arg EXCEPT ![c] = exp]
    /\ UNCHANGED <<now, dbVars, cache, linkVars, serving, resyncVars, acked, missed, faults>>

(* INSERT ... ON CONFLICT (token_jti_hash) DO NOTHING *)
InsertRow(t, exp) ==
    IF HasRow(t) THEN UNCHANGED dbVars
    ELSE /\ rowExp' = [rowExp EXCEPT ![t] = exp]
         /\ revokedAt' = [revokedAt EXCEPT ![t] = now]

InsertDone(c) ==
    /\ pc[c] = "insert"
    /\ dbUp
    /\ InsertRow(tok[c], arg[c])
    /\ pc' = [pc EXCEPT ![c] = "cache"]
    /\ UNCHANGED <<now, cache, linkVars, serving, tok, arg, resyncVars, acked, missed, faults>>

(* Broken variant: the failed insert is swallowed. *)
InsertSwallowed(c) ==
    /\ pc[c] = "insert"
    /\ ~dbUp
    /\ pc' = [pc EXCEPT ![c] = "cache"]
    /\ UNCHANGED <<now, dbVars, cache, linkVars, serving, tok, arg, resyncVars, acked, missed, faults>>

(* The insert raises: RevocationPersistError, and nothing is cached. *)
InsertRefused(c) ==
    /\ pc[c] = "insert"
    /\ ~dbUp
    /\ pc' = [pc EXCEPT ![c] = "failed"]
    /\ UNCHANGED <<now, dbVars, cache, linkVars, serving, tok, arg, resyncVars, acked, missed, faults>>

(* The connection breaks at the commit: the same error, but the row is in. *)
InsertInDoubt(c) ==
    /\ pc[c] = "insert"
    /\ dbUp
    /\ faults < MaxFaults
    /\ InsertRow(tok[c], arg[c])
    /\ pc' = [pc EXCEPT ![c] = "failed"]
    /\ faults' = faults + 1
    /\ UNCHANGED <<now, cache, linkVars, serving, tok, arg, resyncVars, acked, missed>>

(* SETEX: overwrites the key and its TTL. *)
SetKey(t, ttl) ==
    /\ cache' = [cache EXCEPT ![t] = now + ttl]
    /\ missed' = missed \ {t}

CacheDone(c) ==
    /\ pc[c] = "cache"
    /\ redisUp
    /\ \E clk \in ClockReads : SetKey(tok[c], TtlFor(arg[c], clk))
    /\ pc' = [pc EXCEPT ![c] = "reply"]
    /\ UNCHANGED <<now, dbVars, linkVars, serving, tok, arg, resyncVars, acked, faults>>

(* The cache write raises: only logged when the row exists. *)
CacheRefused(c) ==
    /\ pc[c] = "cache"
    /\ ~redisUp
    /\ pc' = [pc EXCEPT ![c] = IF UseDB THEN "reply" ELSE "failed"]
    /\ missed' = IF UseDB /\ ~Cached(tok[c]) THEN missed \cup {tok[c]} ELSE missed
    /\ UNCHANGED <<now, dbVars, cache, linkVars, serving, tok, arg, resyncVars, acked, faults>>

(* The threads of C are idle again. *)
Release(C) ==
    /\ pc' = [c \in Caller |-> IF c \in C THEN "idle" ELSE pc[c]]
    /\ tok' = [c \in Caller |-> IF c \in C THEN NoToken ELSE tok[c]]
    /\ arg' = [c \in Caller |-> IF c \in C THEN NoExp ELSE arg[c]]

(* 200 {"status": "revoked"} *)
ReplyRevoked(c) ==
    /\ pc[c] = "reply"
    /\ Release({c})
    /\ acked' = acked \cup {tok[c]}
    /\ UNCHANGED <<now, dbVars, cache, linkVars, serving, resyncVars, missed, faults>>

(* 503 revocation_not_persisted *)
ReplyNotPersisted(c) ==
    /\ pc[c] = "failed"
    /\ Release({c})
    /\ UNCHANGED <<now, dbVars, cache, linkVars, serving, resyncVars, acked, missed, faults>>

-----------------------------------------------------------------------------
(* RevocationStore.resync, at startup and in the thread of each worker *)

(* The process starts: _on_startup calls cold_start_recovery() before the  *)
(* worker serves.                                                          *)
Start(w) ==
    /\ rpc[w] = "off"
    /\ rpc' = [rpc EXCEPT ![w] = "active"]
    /\ UNCHANGED <<now, dbVars, cache, linkVars, serving, callVars, left, cur, acked, missed, faults>>

(* _resync_stop.wait(interval) times out. *)
ResyncWake(w) ==
    /\ rpc[w] = "wait"
    /\ rpc' = [rpc EXCEPT ![w] = "active"]
    /\ UNCHANGED <<now, dbVars, cache, linkVars, serving, callVars, left, cur, acked, missed, faults>>

(* The pass ends, after its last row or on an error; at startup the worker *)
(* then starts the thread and serves.                                      *)
EndPass(w) ==
    /\ rpc' = [rpc EXCEPT ![w] = "wait"]
    /\ left' = [left EXCEPT ![w] = [t \in Token |-> 0]]
    /\ cur' = [cur EXCEPT ![w] = NoToken]
    /\ serving' = [serving EXCEPT ![w] = TRUE]

(* rows = active(), now = time.time(): the clock is read once per pass. *)
ResyncRead(w) ==
    /\ rpc[w] = "active"
    /\ UseDB
    /\ dbUp
    /\ \E clk \in ClockReads, round \in [Token -> 0..1] :
          left' = [left EXCEPT ![w] =
                     [t \in Token |-> IF Active(t) THEN Remaining(ReportedExp(t, round[t]), clk)
                                      ELSE 0]]
    /\ rpc' = [rpc EXCEPT ![w] = "rows"]
    /\ UNCHANGED <<now, dbVars, cache, linkVars, serving, callVars, cur, acked, missed, faults>>

(* Without a database, or when active() raises, the pass does nothing. *)
ResyncNoRows(w) ==
    /\ rpc[w] = "active"
    /\ ~(UseDB /\ dbUp)
    /\ EndPass(w)
    /\ UNCHANGED <<now, dbVars, cache, linkVars, callVars, acked, missed, faults>>

(* is_revoked(t) finds the key: the row needs nothing. *)
ResyncPresent(w, t) ==
    /\ rpc[w] = "rows" /\ cur[w] = NoToken /\ left[w][t] # 0
    /\ redisUp
    /\ Cached(t)
    /\ left' = [left EXCEPT ![w][t] = 0]
    /\ UNCHANGED <<now, dbVars, cache, linkVars, serving, callVars, rpc, cur, acked, missed, faults>>

(* is_revoked(t) finds no key: the write is a separate round trip. *)
ResyncMissing(w, t) ==
    /\ rpc[w] = "rows" /\ cur[w] = NoToken /\ left[w][t] # 0
    /\ redisUp
    /\ ~Cached(t)
    /\ cur' = [cur EXCEPT ![w] = t]
    /\ UNCHANGED <<now, dbVars, cache, linkVars, serving, callVars, rpc, left, acked, missed, faults>>

ResyncSet(w) ==
    /\ rpc[w] = "rows" /\ cur[w] # NoToken
    /\ redisUp
    /\ SetKey(cur[w], left[w][cur[w]])
    /\ left' = [left EXCEPT ![w][cur[w]] = 0]
    /\ cur' = [cur EXCEPT ![w] = NoToken]
    /\ UNCHANGED <<now, dbVars, linkVars, serving, callVars, rpc, acked, faults>>

(* Redis raises at the check or at the write: the rest of the pass is lost. *)
ResyncAbort(w) ==
    /\ rpc[w] = "rows"
    /\ \E t \in Token : left[w][t] # 0
    /\ ~redisUp
    /\ EndPass(w)
    /\ UNCHANGED <<now, dbVars, cache, linkVars, callVars, acked, missed, faults>>

ResyncEnd(w) ==
    /\ rpc[w] = "rows"
    /\ \A t \in Token : left[w][t] = 0
    /\ EndPass(w)
    /\ UNCHANGED <<now, dbVars, cache, linkVars, callVars, acked, missed, faults>>

-----------------------------------------------------------------------------
(* Time and faults *)

(* A second passes; Redis drops the keys whose TTL ends. *)
Tick ==
    /\ now < MaxTime
    /\ now' = now + 1
    /\ cache' = [t \in Token |-> IF cache[t] <= now + 1 THEN 0 ELSE cache[t]]
    /\ UNCHANGED <<dbVars, linkVars, serving, callVars, resyncVars, acked, missed, faults>>

DbDown ==
    /\ dbUp /\ UseDB /\ faults < MaxFaults
    /\ dbUp' = FALSE
    /\ faults' = faults + 1
    /\ UNCHANGED <<now, dbVars, cache, redisUp, serving, callVars, resyncVars, acked, missed>>

DbRecover ==
    /\ ~dbUp
    /\ dbUp' = TRUE
    /\ UNCHANGED <<now, dbVars, cache, redisUp, serving, callVars, resyncVars, acked, missed, faults>>

RedisDown ==
    /\ redisUp /\ faults < MaxFaults
    /\ redisUp' = FALSE
    /\ faults' = faults + 1
    /\ UNCHANGED <<now, dbVars, cache, dbUp, serving, callVars, resyncVars, acked, missed>>

RedisRecover ==
    /\ ~redisUp
    /\ redisUp' = TRUE
    /\ UNCHANGED <<now, dbVars, cache, dbUp, serving, callVars, resyncVars, acked, missed, faults>>

(* Redis loses keys: all of them (a flush, a lost volume) or those of the  *)
(* second its append-only file had not synced (appendfsync everysec).      *)
RedisLoss(lost) ==
    /\ faults < MaxFaults
    /\ \E t \in lost : Cached(t)
    /\ cache' = [t \in Token |-> IF t \in lost THEN 0 ELSE cache[t]]
    /\ missed' = missed \cup lost
    /\ faults' = faults + 1
    /\ UNCHANGED <<now, dbVars, linkVars, serving, callVars, resyncVars, acked>>

(* The process ends, by a crash or by a deploy: its calls get no answer    *)
(* and its resync stops where it is.                                       *)
WorkerStop(w) ==
    /\ rpc[w] # "off"
    /\ faults < MaxFaults
    /\ serving' = [serving EXCEPT ![w] = FALSE]
    /\ Release({c \in Caller : Host[c] = w})
    /\ rpc' = [rpc EXCEPT ![w] = "off"]
    /\ left' = [left EXCEPT ![w] = [t \in Token |-> 0]]
    /\ cur' = [cur EXCEPT ![w] = NoToken]
    /\ faults' = faults + 1
    /\ UNCHANGED <<now, dbVars, cache, linkVars, acked, missed>>

-----------------------------------------------------------------------------
CallStep(c) ==
    \/ \E t \in Token : Call(c, t, NoExp) \/ Call(c, t, Exp[t])
    \/ InsertDone(c) \/ InsertRefused(c) \/ InsertInDoubt(c)
    \/ CacheDone(c) \/ CacheRefused(c)
    \/ ReplyRevoked(c) \/ ReplyNotPersisted(c)

ResyncStep(w) ==
    \/ Start(w) \/ ResyncWake(w) \/ ResyncRead(w) \/ ResyncNoRows(w)
    \/ \E t \in Token : ResyncPresent(w, t) \/ ResyncMissing(w, t)
    \/ ResyncSet(w) \/ ResyncAbort(w) \/ ResyncEnd(w)

Fault ==
    \/ DbDown \/ RedisDown
    \/ \E lost \in SUBSET Token : RedisLoss(lost)
    \/ \E w \in Worker : WorkerStop(w)

Recovery == DbRecover \/ RedisRecover

Next ==
    \/ \E c \in Caller : CallStep(c)
    \/ \E w \in Worker : ResyncStep(w)
    \/ Tick \/ Fault \/ Recovery

Spec == Init /\ [][Next]_vars

(* The operating system schedules the resync threads, the workers are      *)
(* restarted and the two servers come back (restart: unless-stopped).      *)
FairSpec ==
    /\ Spec
    /\ \A w \in Worker : WF_vars(ResyncStep(w))
    /\ WF_vars(DbRecover) /\ WF_vars(RedisRecover)
=============================================================================
