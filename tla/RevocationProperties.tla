------------------------ MODULE RevocationProperties ------------------------
(***************************************************************************)
(* What is required of the revocation store, apart from the machine.       *)
(***************************************************************************)
EXTENDS RevocationStore

(* revoke() raises before anything is acknowledged or cached when the row  *)
(* is not written (revocation_store.py:172-177): a caller told "revoked",  *)
(* and a decision that reads a token as revoked, both rest on a durable    *)
(* row, whatever fails or stops between the insert and the answer.         *)
AckedIsDurable ==
    UseDB => \A t \in Token : t \in acked \/ Cached(t) => HasRow(t)

(* No path ends a revocation while a relying party still honours the       *)
(* token: _ttl_for and resync add the grace (revocation_store.py:221-230,  *)
(* 272-282), setex overwrites whatever TTL stands, and active() selects    *)
(* the row long enough to restore a lost key.                              *)
RevocationOutlivesToken ==
    \A t \in Token :
        /\ Cached(t) => cache[t] > Exp[t] + Leeway
        /\ HasRow(t) /\ Accepted(t) => Active(t)

(* An acknowledged revocation of a token still honoured is missing from    *)
(* the fast path only if Redis lost it or refused the write and no resync  *)
(* restored it since: no interleaving of calls, passes and the clock loses *)
(* it.                                                                     *)
AckedIsVisible ==
    \A t \in acked : Accepted(t) /\ t \notin missed => Cached(t)

(* A key Redis lost comes back while the row is in force: periodic_resync  *)
(* (revocation_store.py:241-247) heals it once the two servers stay up,    *)
(* or the token is no longer honoured.                                     *)
LostKeyIsRestored ==
    UseDB => \A t \in Token :
        (HasRow(t) /\ Accepted(t) /\ ~Cached(t)) ~> (Cached(t) \/ ~Accepted(t))

(* "Only set if missing: never shorten a TTL another writer set"           *)
(* (revocation_store.py:227): a resync step never lowers the expiry of a   *)
(* key that is present.                                                    *)
ResyncNeverShortens ==
    [][\A w \in Worker : ResyncSet(w) =>
          \A t \in Token : Cached(t) => cache'[t] >= cache[t]]_vars

(* The store implements the ledger: a row is the record, acked the answers *)
(* and the Redis keys the visible copy.                                    *)
Ledger == INSTANCE RevocationLedger WITH
    recorded <- {t \in Token : HasRow(t)},
    answered <- acked,
    visible  <- {t \in Token : Cached(t)}

LedgerSpec == Ledger!Spec
-----------------------------------------------------------------------------
(* The inductive invariant behind the safety properties *)

(* A row carries the token's own exp, or none. *)
RowsInv == \A t \in Token : rowExp[t] \in {NoRow, NoExp, Exp[t]}

(* A call past its insert has its row; one past its cache write left the   *)
(* key behind, or the token in `missed'.                                   *)
CallsInv ==
    \A c \in Caller : pc[c] # "idle" =>
        /\ arg[c] \in {NoExp, Exp[tok[c]]}
        /\ UseDB /\ pc[c] \in {"cache", "reply"} => HasRow(tok[c])
        /\ pc[c] = "reply" /\ Accepted(tok[c]) /\ tok[c] \notin missed => Cached(tok[c])

(* Every row of a pass exists, and writing it now, or at any later second, *)
(* outlives its token.                                                     *)
PassInv ==
    \A w \in Worker :
        /\ \A t \in Token : left[w][t] # 0 =>
               HasRow(t) /\ now + left[w][t] > Exp[t] + Leeway
        /\ cur[w] # NoToken => rpc[w] = "rows" /\ left[w][cur[w]] # 0

KeysInv == \A t \in Token : Cached(t) => cache[t] > Exp[t] + Leeway

IInv == TypeOK /\ RowsInv /\ CallsInv /\ PassInv /\ KeysInv /\ AckedIsDurable /\ AckedIsVisible
=============================================================================
