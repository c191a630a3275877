-------------------------- MODULE RevocationLedger --------------------------
(***************************************************************************)
(* What the revocation store promises (docstring of class RevocationStore  *)
(* in services/gateway/revocation_store.py): a ledger of revoked tokens    *)
(* that only grows, answers given only for tokens it holds, and a view for *)
(* fast reads that shows only tokens of the ledger and may lose any of     *)
(* them.                                                                   *)
(***************************************************************************)
CONSTANT Token

VARIABLES
    recorded,    \* tokens durably revoked
    answered,    \* tokens some caller was told are revoked
    visible      \* tokens a read finds revoked

lvars == <<recorded, answered, visible>>

Init == recorded = {} /\ answered = {} /\ visible = {}

Record(t) ==
    /\ t \notin recorded
    /\ recorded' = recorded \cup {t}
    /\ UNCHANGED <<answered, visible>>

Answer(t) ==
    /\ t \in recorded
    /\ answered' = answered \cup {t}
    /\ UNCHANGED <<recorded, visible>>

Show(t) ==
    /\ t \in recorded
    /\ visible' = visible \cup {t}
    /\ UNCHANGED <<recorded, answered>>

(* A read copy ends with its TTL or is lost; the ledger keeps the token.   *)
Hide ==
    /\ visible' \in SUBSET visible
    /\ UNCHANGED <<recorded, answered>>

Next == Hide \/ \E t \in Token : Record(t) \/ Answer(t) \/ Show(t)

Spec == Init /\ [][Next]_lvars
=============================================================================
