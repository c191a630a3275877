-------------------------- MODULE TelemetryPipeline --------------------------
(* The audit trail: the policy gateway hands every event to a pool of threads   *)
(* (src/services/gateway/telemetry.py), which posts it to the ingest service    *)
(* (src/services/telemetry-ingest/app.py) up to ATTEMPTS times.  Ingest writes  *)
(* three tables on an autocommit connection, statement by statement.  The      *)
(* client waits half a second at most: a request it has given up may go on.    *)
EXTENDS Integers, Sequences, FiniteSets

CONSTANTS
    Events,
    ATTEMPTS,       \* len(_BACKOFF_SECONDS) + 1, 4 in the code
    WORKERS,        \* max_workers, 4 in the code
    Type,           \* event_type of each event
    InSession       \* the events that carry a session id and a user id

TYPES_SENT == {"policy_decision", "token_revocation", "risk_eval"}

ASSUME TelemetryConstants ==
    /\ ATTEMPTS \in Nat \ {0} /\ WORKERS \in Nat \ {0}
    /\ IsFiniteSet(Events)
    /\ Type \in [Events -> TYPES_SENT] /\ InSession \subseteq Events

VARIABLES
    queue,          \* events submitted to the executor, not yet taken by a thread
    post,           \* per event: how far its _post has come
    attempt,        \* per event: requests made so far
    request,        \* per event and attempt: how far ingest has come with it
    auditRows, detailRows, sessionCount,  \* per event: its rows, and its share of request_count
    exiting,        \* shutdown_executor has been called
    tokenOk         \* both services are configured with the same internal token

tables == <<auditRows, detailRows, sessionCount>>
telVars == <<queue, post, attempt, request, tables, exiting, tokenOk>>

Phases == {"new", "queued", "posting", "backoff", "delivered", "dropped", "notAccepted", "killed"}
Stages == {"none", "sent", "audited", "detailed", "stored", "failed", "rejected"}
Tries == 1 .. ATTEMPTS
InThread == {e \in Events : post[e] \in {"posting", "backoff"}}
Current(e) == request[e][attempt[e]]

(* The gateway writes the row of a revocation itself before it emits the event, *)
(* when it has a database.                                                    *)
TelInit ==
    /\ queue = << >> /\ post = [e \in Events |-> "new"] /\ attempt = [e \in Events |-> 0]
    /\ request = [e \in Events |-> [k \in Tries |-> "none"]]
    /\ auditRows = [e \in Events |-> 0] /\ sessionCount = [e \in Events |-> 0]
    /\ detailRows \in [Events -> {0, 1}]
    /\ \A e \in Events : Type[e] # "token_revocation" => detailRows[e] = 0
    /\ exiting = FALSE /\ tokenOk \in BOOLEAN

(* The gateway ****************************************************************)
(* submit raises once the executor is shut down; its queue has no bound. *)
emit_async(e) ==
    /\ post[e] = "new"
    /\ IF exiting
       THEN post' = [post EXCEPT ![e] = "notAccepted"] /\ UNCHANGED queue
       ELSE post' = [post EXCEPT ![e] = "queued"] /\ queue' = Append(queue, e)
    /\ UNCHANGED <<attempt, request, tables, exiting, tokenOk>>

Send(e) ==
    /\ post' = [post EXCEPT ![e] = "posting"]
    /\ attempt' = [attempt EXCEPT ![e] = @ + 1]
    /\ request' = [request EXCEPT ![e][attempt[e] + 1] = "sent"]

(* Broken variant: shutting down cancels what is queued. *)
ThreadTakesUntilExit ==
    /\ queue # << >> /\ Cardinality(InThread) < WORKERS /\ ~exiting
    /\ Send(Head(queue))
    /\ queue' = Tail(queue)
    /\ UNCHANGED <<tables, exiting, tokenOk>>

(* Shutting down neither stops the threads nor cancels what is queued. *)
ThreadTakes ==
    /\ queue # << >> /\ Cardinality(InThread) < WORKERS
    /\ Send(Head(queue))
    /\ queue' = Tail(queue)
    /\ UNCHANGED <<tables, exiting, tokenOk>>

(* A 5xx answer or an exception: sleep and try again, or give up. *)
NextTry(e) ==
    post' = [post EXCEPT ![e] = IF attempt[e] < ATTEMPTS THEN "backoff" ELSE "dropped"]

AnsweredOk(e) ==
    /\ post[e] = "posting" /\ Current(e) = "stored"
    /\ post' = [post EXCEPT ![e] = "delivered"]
    /\ UNCHANGED <<queue, attempt, request, tables, exiting, tokenOk>>

AnsweredRejected(e) ==
    /\ post[e] = "posting" /\ Current(e) = "rejected"
    /\ post' = [post EXCEPT ![e] = "dropped"]
    /\ UNCHANGED <<queue, attempt, request, tables, exiting, tokenOk>>

AnsweredFailed(e) ==
    /\ post[e] = "posting" /\ Current(e) = "failed"
    /\ NextTry(e)
    /\ UNCHANGED <<queue, attempt, request, tables, exiting, tokenOk>>

(* The wait is over, wherever the request is and whether it has arrived or not. *)
TimesOut(e) ==
    /\ post[e] = "posting"
    /\ NextTry(e)
    /\ UNCHANGED <<queue, attempt, request, tables, exiting, tokenOk>>

Retry(e) ==
    /\ post[e] = "backoff"
    /\ Send(e)
    /\ UNCHANGED <<queue, tables, exiting, tokenOk>>

shutdown_executor ==
    /\ ~exiting
    /\ exiting' = TRUE
    /\ UNCHANGED <<queue, post, attempt, request, tables, tokenOk>>

(* The process is killed: what it held is gone, what it sent is not. *)
GatewayKilled ==
    /\ exiting' = TRUE
    /\ post' = [e \in Events |-> IF post[e] \in {"queued", "posting", "backoff"} THEN "killed" ELSE post[e]]
    /\ queue' = << >>
    /\ UNCHANGED <<attempt, request, tables, tokenOk>>

(* Ingest *********************************************************************)
Reached(e, k, stage) == request' = [request EXCEPT ![e][k] = stage]

insert_audit(e, k) ==
    /\ request[e][k] = "sent" /\ tokenOk
    /\ auditRows' = [auditRows EXCEPT ![e] = @ + 1]
    /\ Reached(e, k, "audited")
    /\ UNCHANGED <<queue, post, attempt, detailRows, sessionCount, exiting, tokenOk>>

(* Broken variant: no ON CONFLICT clause. *)
denormalizeEveryTime(e, k) ==
    /\ request[e][k] = "audited"
    /\ detailRows' = [detailRows EXCEPT ![e] = @ + 1]
    /\ Reached(e, k, "detailed")
    /\ UNCHANGED <<queue, post, attempt, auditRows, sessionCount, exiting, tokenOk>>

(* One table per type; a revocation is inserted ON CONFLICT DO NOTHING. *)
denormalize(e, k) ==
    /\ request[e][k] = "audited"
    /\ detailRows' = [detailRows EXCEPT ![e] =
                         IF Type[e] = "token_revocation" THEN 1 ELSE @ + 1]
    /\ Reached(e, k, "detailed")
    /\ UNCHANGED <<queue, post, attempt, auditRows, sessionCount, exiting, tokenOk>>

update_session(e, k) ==
    /\ request[e][k] = "detailed"
    /\ sessionCount' = IF e \in InSession THEN [sessionCount EXCEPT ![e] = @ + 1] ELSE sessionCount
    /\ Reached(e, k, "stored")
    /\ UNCHANGED <<queue, post, attempt, auditRows, detailRows, exiting, tokenOk>>

(* Broken variant: the exception is logged and 202 answered. *)
IngestSwallows(e, k) ==
    /\ request[e][k] \in {"sent", "audited", "detailed"}
    /\ Reached(e, k, "stored")
    /\ UNCHANGED <<queue, post, attempt, tables, exiting, tokenOk>>

(* No connection, or a statement that fails: 500, and the ones before stay.    *)
(* A request that never arrives fails before the first.                        *)
IngestFails(e, k) ==
    /\ request[e][k] \in {"sent", "audited", "detailed"}
    /\ Reached(e, k, "failed")
    /\ UNCHANGED <<queue, post, attempt, tables, exiting, tokenOk>>

IngestRejects(e, k) ==
    /\ request[e][k] = "sent" /\ ~tokenOk
    /\ Reached(e, k, "rejected")
    /\ UNCHANGED <<queue, post, attempt, tables, exiting, tokenOk>>

ingest(e, k) ==
    \/ insert_audit(e, k) \/ denormalize(e, k) \/ update_session(e, k)
    \/ IngestFails(e, k) \/ IngestRejects(e, k)

ThreadStep(e) ==
    \/ AnsweredOk(e) \/ AnsweredRejected(e) \/ AnsweredFailed(e)
    \/ TimesOut(e) \/ Retry(e)

TelNext ==
    \/ \E e \in Events : emit_async(e) \/ ThreadStep(e)
    \/ \E e \in Events, k \in Tries : ingest(e, k)
    \/ ThreadTakes \/ shutdown_executor \/ GatewayKilled

(* Every wait of a thread is bounded, so it goes on; a free thread takes work. *)
TelFairness ==
    /\ WF_telVars(ThreadTakes)
    /\ \A e \in Events : WF_telVars(ThreadStep(e))

TelSpec == TelInit /\ [][TelNext]_telVars /\ TelFairness

-----------------------------------------------------------------------------
(* Every variable of the pipeline keeps its type. *)
TelTypeOK ==
    /\ queue \in Seq(Events)
    /\ post \in [Events -> Phases] /\ attempt \in [Events -> 0 .. ATTEMPTS]
    /\ request \in [Events -> [Tries -> Stages]]
    /\ auditRows \in [Events -> Nat] /\ detailRows \in [Events -> Nat]
    /\ sessionCount \in [Events -> Nat]
    /\ exiting \in BOOLEAN /\ tokenOk \in BOOLEAN

(* An event that counts as delivered is in the audit trail, in the table of its *)
(* type and in its session: no failure between the statements, and no answer   *)
(* to another attempt, passes for a success.                                  *)
DeliveredIsComplete ==
    \A e \in Events : post[e] = "delivered" =>
        /\ auditRows[e] >= 1 /\ detailRows[e] >= 1
        /\ e \in InSession => sessionCount[e] >= 1

(* "One row per enforcement event" (V1__initial_schema.sql:55).  False of the   *)
(* code: an attempt that timed out, or failed after the first statement, has    *)
(* left its row, the retry adds another under an id of its own.                *)
OneRowPerEvent == \A e \in Events : auditRows[e] <= 1

(* How far it is exceeded:                                                    *)
(* an attempt leaves one row at most in each table, and never a later one       *)
(* without the earlier: an event that was posted once is there once, one that  *)
(* was retried as often as it was tried, a revocation once in its own table.   *)
RowsAreBounded ==
    \A e \in Events :
        /\ auditRows[e] <= attempt[e]
        /\ sessionCount[e] <= auditRows[e]
        /\ IF Type[e] = "token_revocation" THEN detailRows[e] <= 1
           ELSE sessionCount[e] <= detailRows[e] \/ e \notin InSession
        /\ Type[e] # "token_revocation" => detailRows[e] <= auditRows[e]

(* What the executor has accepted is delivered or counted as dropped, also when *)
(* the service is shutting down; only a killed process forgets it silently.    *)
AcceptedIsSettled ==
    \A e \in Events : post[e] = "queued" ~> post[e] \in {"delivered", "dropped", "killed"}
-----------------------------------------------------------------------------
(* The inductive invariant behind the two *)

(* A queued event is in the queue once, so it is posted by one thread. *)
QueueInv ==
    /\ \A i \in DOMAIN queue : post[queue[i]] = "queued"
    /\ \A i, j \in DOMAIN queue : i # j => queue[i] # queue[j]

(* Attempts are made in order, and only by a thread. *)
AttemptInv ==
    \A e \in Events :
        /\ post[e] \in {"new", "queued"} => attempt[e] = 0
        /\ post[e] = "posting" => attempt[e] >= 1
        /\ post[e] = "backoff" => attempt[e] < ATTEMPTS
        /\ \A k \in Tries : k > attempt[e] => request[e][k] = "none"

(* What a request has come past is in the tables, whatever has become of the    *)
(* others: rows are never taken away.                                         *)
StageInv ==
    \A e \in Events : \A k \in Tries :
        /\ request[e][k] \in {"audited", "detailed", "stored"} => auditRows[e] >= 1
        /\ request[e][k] \in {"detailed", "stored"} => detailRows[e] >= 1
        /\ request[e][k] = "stored" /\ e \in InSession => sessionCount[e] >= 1

(* A request that has still to write a row has room for it below the bound. *)
Waits(e, stage) == Cardinality({k \in Tries : request[e][k] = stage})

RoomInv ==
    \A e \in Events :
        /\ Waits(e, "sent") + auditRows[e] <= attempt[e]
        /\ Waits(e, "audited") + Waits(e, "detailed") + sessionCount[e] <= auditRows[e]
        /\ IF Type[e] = "token_revocation" THEN detailRows[e] <= 1
           ELSE /\ Waits(e, "audited") + detailRows[e] <= auditRows[e]
                /\ Waits(e, "detailed") + sessionCount[e] <= detailRows[e]

TelIInv ==
    TelTypeOK /\ QueueInv /\ AttemptInv /\ StageInv /\ RoomInv /\ DeliveredIsComplete
=============================================================================
