-------------------------- MODULE BackgroundProofs --------------------------
(* Proofs about what the services do beside the requests: the audit trail and   *)
(* the anomaly service's model.                                               *)
EXTENDS TelemetryPipeline, AnomalyModel, FiniteSetTheorems, SequenceTheorems, TLAPS

(* The audit trail for every set of events of every type, any number of threads *)
(* and attempts, and failures anywhere.  The rows of an event are bounded by    *)
(* counting: a request that has still to write a row is room left for it.      *)

LEMMA WaitsType ==
  \A e \in Events, s \in Stages : Waits(e, s) \in Nat
<1> SUFFICES ASSUME NEW e \in Events, NEW s \in Stages
             PROVE  Waits(e, s) \in Nat
  OBVIOUS
<1>1. IsFiniteSet(Tries)
  BY TelemetryConstants, FS_Interval DEF Tries, TelemetryConstants
<1>2. IsFiniteSet({k \in Tries : request[e][k] = s})
  BY <1>1, FS_Subset
<1>3. QED
  BY <1>2, FS_CardinalityType DEF Waits

(* A request that moves leaves one stage and enters another. *)
LEMMA MoveCounts ==
  ASSUME TelTypeOK, NEW e \in Events, NEW k \in Tries, NEW new \in Stages,
         request[e][k] # new, Reached(e, k, new)
  PROVE  \A f \in Events, s \in Stages :
            Waits(f, s)' = IF f # e THEN Waits(f, s)
                           ELSE IF s = new THEN Waits(f, s) + 1
                           ELSE IF s = request[e][k] THEN Waits(f, s) - 1
                           ELSE Waits(f, s)
<1> SUFFICES ASSUME NEW f \in Events, NEW s \in Stages
             PROVE  Waits(f, s)' = IF f # e THEN Waits(f, s)
                                   ELSE IF s = new THEN Waits(f, s) + 1
                                   ELSE IF s = request[e][k] THEN Waits(f, s) - 1
                                   ELSE Waits(f, s)
  OBVIOUS
<1> DEFINE before == {i \in Tries : request[f][i] = s}
<1> DEFINE after == {i \in Tries : request'[f][i] = s}
<1>1. Waits(f, s) = Cardinality(before) /\ Waits(f, s)' = Cardinality(after)
  BY DEF Waits
<1>2. IsFiniteSet(before)
  <2>1. IsFiniteSet(Tries)
    BY TelemetryConstants, FS_Interval DEF Tries, TelemetryConstants
  <2>2. QED
    BY <2>1, FS_Subset
<1>3. after = IF f # e THEN before
            ELSE IF s = new THEN before \cup {k}
            ELSE IF s = request[e][k] THEN before \ {k} ELSE before
  BY DEF TelTypeOK, Reached
<1>4. f = e => (k \in before <=> s = request[e][k])
  OBVIOUS
<1>5. /\ Cardinality(before \cup {k}) = IF k \in before THEN Cardinality(before) ELSE Cardinality(before) + 1
      /\ Cardinality(before \ {k}) = IF k \in before THEN Cardinality(before) - 1 ELSE Cardinality(before)
  BY <1>2, FS_AddElement, FS_RemoveElement
<1> HIDE DEF before, after
<1>6. CASE f # e
  BY <1>1, <1>3, <1>6
<1>7. CASE f = e /\ s = new
  BY <1>1, <1>3, <1>4, <1>5, <1>7
<1>8. CASE f = e /\ s # new
  BY <1>1, <1>3, <1>4, <1>5, <1>8
<1>9. QED
  BY <1>6, <1>7, <1>8

LEMMA MoveType ==
  ASSUME TelTypeOK, NEW e \in Events, NEW k \in Tries, NEW new \in Stages, Reached(e, k, new)
  PROVE  request' \in [Events -> [Tries -> Stages]]
<1> DEFINE row == [request[e] EXCEPT ![k] = new]
<1>1. request \in [Events -> [Tries -> Stages]] /\ request' = [request EXCEPT ![e] = row]
  BY DEF TelTypeOK, Reached
<1>2. row \in [Tries -> Stages]
  BY <1>1
<1> HIDE DEF row
<1>3. QED
  BY <1>1, <1>2

LEMMA TelInitInv == TelInit => TelIInv
<1> SUFFICES ASSUME TelInit PROVE TelIInv
  OBVIOUS
<1> USE TelemetryConstants DEF TelemetryConstants, Tries
<1>1. TelTypeOK
  <2>1. queue \in Seq(Events)
    BY EmptySeq DEF TelInit
  <2>2. post \in [Events -> Phases]
    BY DEF TelInit, Phases
  <2>3. exiting \in BOOLEAN /\ tokenOk \in BOOLEAN
    BY DEF TelInit
  <2>4. attempt \in [Events -> 0 .. ATTEMPTS]
    BY DEF TelInit
  <2>5. request \in [Events -> [Tries -> Stages]]
    BY DEF TelInit, Stages
  <2>6. /\ auditRows \in [Events -> Nat] /\ detailRows \in [Events -> Nat]
        /\ sessionCount \in [Events -> Nat]
    BY DEF TelInit
  <2>7. QED
    BY <2>1, <2>2, <2>3, <2>4, <2>5, <2>6 DEF TelTypeOK
<1>2. QueueInv /\ AttemptInv /\ StageInv /\ DeliveredIsComplete
  BY DEF TelInit, QueueInv, AttemptInv, StageInv, DeliveredIsComplete
<1>3. \A e \in Events, s \in {"sent", "audited", "detailed"} : Waits(e, s) = 0
  <2> SUFFICES ASSUME NEW e \in Events, NEW s \in {"sent", "audited", "detailed"}
               PROVE  Waits(e, s) = 0
    OBVIOUS
  <2>1. {k \in Tries : request[e][k] = s} = {}
    BY DEF TelInit
  <2>2. QED
    BY <2>1, FS_EmptySet DEF Waits
<1>4. RoomInv
  BY <1>3 DEF TelInit, RoomInv
<1>5. QED
  BY <1>1, <1>2, <1>4 DEF TelIInv

(* What is queued leaves it from its head, the rest is still there once. *)
LEMMA TailIsQueued ==
  ASSUME TelTypeOK, QueueInv, queue # << >>, queue' = Tail(queue),
         \A e \in Events : e # Head(queue) => post'[e] = post[e]
  PROVE  /\ Head(queue) \in Events /\ post[Head(queue)] = "queued"
         /\ queue' \in Seq(Events) /\ QueueInv'
<1>1. queue \in Seq(Events)
  BY DEF TelTypeOK
<1>2. /\ Len(queue) \in Nat \ {0} /\ DOMAIN queue = 1 .. Len(queue)
      /\ Head(queue) = queue[1] /\ Head(queue) \in Events
      /\ Tail(queue) \in Seq(Events)
      /\ Len(Tail(queue)) = Len(queue) - 1
      /\ \A i \in 1 .. Len(Tail(queue)) : Tail(queue)[i] = queue[i + 1]
  BY <1>1, EmptySeq, HeadTailProperties, LenProperties
<1>3. DOMAIN queue' = 1 .. (Len(queue) - 1)
  BY <1>2, LenProperties
<1>4. \A i \in DOMAIN queue' : /\ i + 1 \in DOMAIN queue /\ i + 1 # 1
                               /\ queue'[i] = queue[i + 1]
  BY <1>2, <1>3
<1>5. \A i \in DOMAIN queue : queue[i] \in Events
  BY <1>1, <1>2, ElementOfSeq
<1>6. \A i \in DOMAIN queue' : queue'[i] # Head(queue) /\ post'[queue'[i]] = "queued"
  BY <1>2, <1>4, <1>5 DEF QueueInv
<1>7. \A i, j \in DOMAIN queue' : i # j => queue'[i] # queue'[j]
  BY <1>2, <1>3, <1>4 DEF QueueInv
<1>8. QED
  BY <1>2, <1>6, <1>7 DEF QueueInv

(* The next request of an event is made. *)
LEMMA SendPreserves ==
  ASSUME TelIInv, NEW e \in Events, Send(e), post[e] \in {"queued", "backoff"},
         UNCHANGED <<tables, exiting, tokenOk>>, queue' \in Seq(Events), QueueInv'
  PROVE  TelIInv'
<1> USE TelemetryConstants DEF TelemetryConstants
<1> DEFINE k == attempt[e] + 1
<1>1. /\ attempt[e] \in Nat /\ attempt[e] < ATTEMPTS /\ k \in Tries
      /\ request[e][k] = "none"
  BY DEF TelIInv, TelTypeOK, AttemptInv, Tries
<1>2. Reached(e, k, "sent")
  BY DEF Send, Reached
<1>3. TelTypeOK'
  <2>1. request' \in [Events -> [Tries -> Stages]]
    BY <1>1, <1>2, MoveType DEF TelIInv, Stages
  <2>2. post' \in [Events -> Phases]
    BY DEF Send, TelIInv, TelTypeOK, Phases
  <2>3. attempt' \in [Events -> 0 .. ATTEMPTS]
    <3>1. k \in 0 .. ATTEMPTS
      BY <1>1
    <3>2. QED
      BY <3>1 DEF Send, TelIInv, TelTypeOK
  <2>4. QED
    BY <2>1, <2>2, <2>3 DEF TelIInv, TelTypeOK, tables
<1>4. AttemptInv'
  <2> SUFFICES ASSUME NEW f \in Events
               PROVE  /\ post'[f] \in {"new", "queued"} => attempt'[f] = 0
                      /\ post'[f] = "posting" => attempt'[f] >= 1
                      /\ post'[f] = "backoff" => attempt'[f] < ATTEMPTS
                      /\ \A i \in Tries : i > attempt'[f] => request'[f][i] = "none"
    BY DEF AttemptInv
  <2>1. CASE f # e
    BY <2>1 DEF Send, TelIInv, TelTypeOK, AttemptInv
  <2>2. CASE f = e
    BY <1>1, <2>2 DEF Send, TelIInv, TelTypeOK, AttemptInv, Tries
  <2>3. QED
    BY <2>1, <2>2
<1>5. StageInv'
  BY <1>1, <1>2 DEF Reached, TelIInv, TelTypeOK, StageInv, tables
<1>6. RoomInv'
  <2>1. \A f \in Events :
           /\ Waits(f, "sent")' = IF f = e THEN Waits(f, "sent") + 1 ELSE Waits(f, "sent")
           /\ Waits(f, "audited")' = Waits(f, "audited")
           /\ Waits(f, "detailed")' = Waits(f, "detailed")
    BY <1>1, <1>2, MoveCounts DEF TelIInv, Stages
  <2>2. \A f \in Events : attempt'[f] = IF f = e THEN attempt[f] + 1 ELSE attempt[f]
    BY DEF Send, TelIInv, TelTypeOK
  <2>3. \A f \in Events : /\ Waits(f, "sent") \in Nat /\ attempt[f] \in Nat
                          /\ auditRows[f] \in Nat
    BY WaitsType DEF Stages, TelIInv, TelTypeOK
  <2>4. QED
    BY <2>1, <2>2, <2>3 DEF TelIInv, RoomInv, tables
<1>7. DeliveredIsComplete'
  BY DEF Send, TelIInv, TelTypeOK, DeliveredIsComplete, tables
<1>8. QED
  BY <1>3, <1>4, <1>5, <1>6, <1>7 DEF TelIInv

LEMMA TakePreserves ==
  ASSUME TelIInv, ThreadTakes
  PROVE  TelIInv'
<1>1. \A e \in Events : e # Head(queue) => post'[e] = post[e]
  BY DEF ThreadTakes, Send, TelIInv, TelTypeOK
<1>2. /\ Head(queue) \in Events /\ post[Head(queue)] = "queued"
      /\ queue' \in Seq(Events) /\ QueueInv'
  BY <1>1, TailIsQueued DEF ThreadTakes, TelIInv
<1>3. QED
  BY <1>2, SendPreserves DEF ThreadTakes

LEMMA RetryPreserves ==
  ASSUME TelIInv, NEW e \in Events, Retry(e)
  PROVE  TelIInv'
<1>1. post'[e] = "posting" /\ \A f \in Events : f # e => post'[f] = post[f]
  BY DEF Retry, Send, TelIInv, TelTypeOK
<1>2. queue' = queue /\ queue \in Seq(Events)
  BY DEF Retry, TelIInv, TelTypeOK
<1>3. \A i \in DOMAIN queue : queue[i] \in Events
  BY <1>2, LenProperties, ElementOfSeq
<1>4. QueueInv'
  BY <1>1, <1>2, <1>3 DEF Retry, TelIInv, QueueInv
<1>5. QED
  BY <1>2, <1>4, SendPreserves DEF Retry

LEMMA EmitPreserves ==
  ASSUME TelIInv, NEW e \in Events, emit_async(e)
  PROVE  TelIInv'
<1>1. queue \in Seq(Events) /\ post[e] = "new"
  BY DEF emit_async, TelIInv, TelTypeOK
<1>2. \A i \in DOMAIN queue : queue[i] \in Events /\ queue[i] # e
  BY <1>1, LenProperties, ElementOfSeq DEF TelIInv, QueueInv
<1>3. queue' \in Seq(Events) /\ QueueInv'
  <2>1. CASE exiting
    BY <1>1, <1>2, <2>1 DEF emit_async, TelIInv, TelTypeOK, QueueInv
  <2>2. CASE ~exiting
    <3>1. /\ queue' \in Seq(Events) /\ Len(queue) \in Nat /\ Len(queue') = Len(queue) + 1
          /\ \A i \in 1 .. Len(queue) : queue'[i] = queue[i]
          /\ queue'[Len(queue) + 1] = e
      BY <1>1, <2>2, AppendProperties, LenProperties DEF emit_async
    <3>2. DOMAIN queue = 1 .. Len(queue) /\ DOMAIN queue' = 1 .. (Len(queue) + 1)
      BY <1>1, <3>1, LenProperties
    <3>3. \A i \in DOMAIN queue' : i \in DOMAIN queue \/ i = Len(queue) + 1
      BY <3>1, <3>2
    <3>4. \A f \in Events : post'[f] = IF f = e THEN "queued" ELSE post[f]
      BY <2>2 DEF emit_async, TelIInv, TelTypeOK
    <3>5. QED
      BY <1>2, <3>1, <3>2, <3>3, <3>4 DEF TelIInv, QueueInv
  <2>3. QED
    BY <2>1, <2>2
<1>4. TelTypeOK'
  BY <1>3 DEF emit_async, TelIInv, TelTypeOK, Phases, tables
<1>5. AttemptInv' /\ DeliveredIsComplete'
  BY DEF emit_async, TelIInv, TelTypeOK, AttemptInv, DeliveredIsComplete, tables
<1>6. StageInv' /\ RoomInv'
  BY DEF emit_async, TelIInv, StageInv, RoomInv, Waits, tables
<1>7. QED
  BY <1>3, <1>4, <1>5, <1>6 DEF TelIInv

(* A thread hears of its request, or stops waiting for it. *)
LEMMA HearPreserves ==
  ASSUME TelIInv, NEW e \in Events,
         AnsweredOk(e) \/ AnsweredRejected(e) \/ AnsweredFailed(e) \/ TimesOut(e)
  PROVE  TelIInv'
<1> DEFINE p == post'[e]
<1>1. /\ post[e] = "posting" /\ UNCHANGED <<queue, attempt, request, tables, exiting, tokenOk>>
      /\ post' = [post EXCEPT ![e] = p]
      /\ p \in {"delivered", "dropped", "backoff"}
      /\ p = "backoff" => attempt[e] < ATTEMPTS
      /\ p = "delivered" => Current(e) = "stored"
  BY DEF AnsweredOk, AnsweredRejected, AnsweredFailed, TimesOut, NextTry, TelIInv, TelTypeOK
<1> HIDE DEF p
<1>2. queue \in Seq(Events) /\ \A i \in DOMAIN queue : queue[i] \in Events
  BY LenProperties, ElementOfSeq DEF TelIInv, TelTypeOK
<1>3. QueueInv'
  BY <1>1, <1>2 DEF TelIInv, TelTypeOK, QueueInv
<1>4. TelTypeOK'
  BY <1>1 DEF TelIInv, TelTypeOK, Phases, tables
<1>5. AttemptInv'
  BY <1>1 DEF TelIInv, TelTypeOK, AttemptInv
<1>6. StageInv' /\ RoomInv'
  BY <1>1 DEF TelIInv, StageInv, RoomInv, Waits, tables
<1>7. DeliveredIsComplete'
  <2>1. attempt[e] \in Tries
    BY <1>1, TelemetryConstants DEF TelIInv, TelTypeOK, AttemptInv, Tries, TelemetryConstants
  <2>2. Current(e) = "stored" => /\ auditRows[e] >= 1 /\ detailRows[e] >= 1
                                 /\ e \in InSession => sessionCount[e] >= 1
    BY <2>1 DEF TelIInv, StageInv, Current
  <2>3. QED
    BY <1>1, <2>2 DEF TelIInv, TelTypeOK, DeliveredIsComplete, tables
<1>8. QED
  BY <1>3, <1>4, <1>5, <1>6, <1>7 DEF TelIInv

LEMMA StopPreserves ==
  ASSUME TelIInv, shutdown_executor \/ GatewayKilled
  PROVE  TelIInv'
<1>1. TelTypeOK' /\ QueueInv'
  <2>1. CASE shutdown_executor
    BY <2>1 DEF shutdown_executor, TelIInv, TelTypeOK, QueueInv, tables
  <2>2. CASE GatewayKilled
    BY <2>2, EmptySeq DEF GatewayKilled, TelIInv, TelTypeOK, QueueInv, Phases, tables
  <2>3. QED
    BY <2>1, <2>2
<1>2. \A e \in Events : post'[e] \in {post[e], "killed"}
  BY DEF shutdown_executor, GatewayKilled, TelIInv, TelTypeOK
<1>3. UNCHANGED <<attempt, request, tables>>
  BY DEF shutdown_executor, GatewayKilled
<1>4. AttemptInv' /\ StageInv' /\ RoomInv' /\ DeliveredIsComplete'
  BY <1>2, <1>3 DEF TelIInv, AttemptInv, StageInv, RoomInv, Waits, DeliveredIsComplete, tables
<1>5. QED
  BY <1>1, <1>4 DEF TelIInv

(* One statement of ingest, or its failure: the sender is not touched. *)
LEMMA IngestPreserves ==
  ASSUME TelIInv, NEW e \in Events, NEW k \in Tries, ingest(e, k)
  PROVE  TelIInv'
<1> DEFINE old == request[e][k]
           new == request'[e][k]
<1>1. /\ UNCHANGED <<queue, post, attempt, exiting, tokenOk>>
      /\ new \in Stages /\ new \notin {"none", "sent"} /\ old \notin {"none", new}
      /\ Reached(e, k, new)
  BY DEF ingest, insert_audit, denormalize, update_session, IngestFails, IngestRejects,
         Reached, TelIInv, TelTypeOK, Stages
<1>2. \A f \in Events, i \in Tries :
         request'[f][i] = IF f = e /\ i = k THEN new ELSE request[f][i]
  BY <1>1 DEF Reached, TelIInv, TelTypeOK
<1>3. \A f \in Events : /\ f # e => /\ auditRows'[f] = auditRows[f]
                                    /\ detailRows'[f] = detailRows[f]
                                    /\ sessionCount'[f] = sessionCount[f]
  BY DEF ingest, insert_audit, denormalize, update_session, IngestFails, IngestRejects,
         TelIInv, TelTypeOK, tables
<1>4. \A f \in Events : auditRows[f] \in Nat /\ detailRows[f] \in Nat /\ sessionCount[f] \in Nat
  BY DEF TelIInv, TelTypeOK
<1>5. TelTypeOK'
  <2>1. request' \in [Events -> [Tries -> Stages]]
    BY <1>1, MoveType DEF TelIInv
  <2>2. /\ auditRows' \in [Events -> Nat] /\ detailRows' \in [Events -> Nat]
        /\ sessionCount' \in [Events -> Nat]
    <3> USE <1>4 DEF TelIInv, TelTypeOK, tables
    <3>1. CASE insert_audit(e, k)
      BY <3>1 DEF insert_audit
    <3>2. CASE denormalize(e, k)
      BY <3>2 DEF denormalize
    <3>3. CASE update_session(e, k)
      BY <3>3 DEF update_session
    <3>4. CASE IngestFails(e, k) \/ IngestRejects(e, k)
      BY <3>4 DEF IngestFails, IngestRejects
    <3>5. QED
      BY <3>1, <3>2, <3>3, <3>4 DEF ingest
  <2>3. QED
    BY <1>1, <2>1, <2>2 DEF TelIInv, TelTypeOK
(* What the request does to the tables, by the stage it was at. *)
<1>6. \/ /\ old = "sent" /\ new = "audited"
         /\ auditRows'[e] = auditRows[e] + 1
         /\ detailRows'[e] = detailRows[e] /\ sessionCount'[e] = sessionCount[e]
      \/ /\ old = "audited" /\ new = "detailed"
         /\ auditRows'[e] = auditRows[e] /\ sessionCount'[e] = sessionCount[e]
         /\ detailRows'[e] = IF Type[e] = "token_revocation" THEN 1 ELSE detailRows[e] + 1
      \/ /\ old = "detailed" /\ new = "stored"
         /\ auditRows'[e] = auditRows[e] /\ detailRows'[e] = detailRows[e]
         /\ sessionCount'[e] = IF e \in InSession THEN sessionCount[e] + 1 ELSE sessionCount[e]
      \/ /\ old \in {"sent", "audited", "detailed"} /\ new \in {"failed", "rejected"}
         /\ auditRows'[e] = auditRows[e] /\ detailRows'[e] = detailRows[e]
         /\ sessionCount'[e] = sessionCount[e]
  BY DEF ingest, insert_audit, denormalize, update_session, IngestFails, IngestRejects,
         Reached, TelIInv, TelTypeOK, tables
<1> HIDE DEF old, new
<1>7. QueueInv' /\ AttemptInv'
  <2>1. \A f \in Events, i \in Tries : request[f][i] = "none" => request'[f][i] = "none"
    BY <1>1, <1>2 DEF old
  <2>2. QED
    BY <1>1, <2>1 DEF TelIInv, QueueInv, AttemptInv
<1>8. StageInv' /\ DeliveredIsComplete'
  <2>1. \A f \in Events : /\ auditRows[f] >= 1 => auditRows'[f] >= 1
                          /\ detailRows[f] >= 1 => detailRows'[f] >= 1
                          /\ sessionCount[f] >= 1 => sessionCount'[f] >= 1
    BY <1>3, <1>4, <1>6
  <2>2. DeliveredIsComplete'
    BY <1>1, <2>1 DEF TelIInv, DeliveredIsComplete
  <2>3. /\ old \in {"audited", "detailed", "stored"} => auditRows[e] >= 1
        /\ old \in {"detailed", "stored"} => detailRows[e] >= 1
    BY DEF TelIInv, StageInv, old
  <2>4. /\ new \in {"audited", "detailed", "stored"} => auditRows'[e] >= 1
        /\ new \in {"detailed", "stored"} => detailRows'[e] >= 1
        /\ new = "stored" /\ e \in InSession => sessionCount'[e] >= 1
    BY <1>4, <1>6, <2>3
  <2>5. StageInv'
    BY <1>2, <2>1, <2>4 DEF TelIInv, StageInv
  <2>6. QED
    BY <2>2, <2>5
<1>9. RoomInv'
  <2>1. \A f \in Events, s \in Stages :
           Waits(f, s)' = IF f # e THEN Waits(f, s)
                          ELSE IF s = new THEN Waits(f, s) + 1
                          ELSE IF s = old THEN Waits(f, s) - 1
                          ELSE Waits(f, s)
    BY <1>1, MoveCounts DEF old, TelIInv
  <2>2. \A f \in Events : /\ Waits(f, "sent") \in Nat /\ Waits(f, "audited") \in Nat
                          /\ Waits(f, "detailed") \in Nat /\ attempt[f] \in Nat
    BY WaitsType DEF Stages, TelIInv, TelTypeOK
  <2> SUFFICES ASSUME NEW f \in Events
               PROVE  /\ Waits(f, "sent")' + auditRows'[f] <= attempt'[f]
                      /\ Waits(f, "audited")' + Waits(f, "detailed")' + sessionCount'[f] <= auditRows'[f]
                      /\ IF Type[f] = "token_revocation" THEN detailRows'[f] <= 1
                         ELSE /\ Waits(f, "audited")' + detailRows'[f] <= auditRows'[f]
                              /\ Waits(f, "detailed")' + sessionCount'[f] <= detailRows'[f]
    BY DEF RoomInv
  <2>3. /\ Waits(f, "sent") + auditRows[f] <= attempt[f]
        /\ Waits(f, "audited") + Waits(f, "detailed") + sessionCount[f] <= auditRows[f]
        /\ IF Type[f] = "token_revocation" THEN detailRows[f] <= 1
           ELSE /\ Waits(f, "audited") + detailRows[f] <= auditRows[f]
                /\ Waits(f, "detailed") + sessionCount[f] <= detailRows[f]
    BY DEF TelIInv, RoomInv
  <2>4. CASE f # e
    BY <1>1, <1>3, <2>1, <2>3, <2>4 DEF Stages
  <2>5. CASE f = e
    <3>1. /\ Waits(f, "sent")' = IF old = "sent" THEN Waits(f, "sent") - 1 ELSE Waits(f, "sent")
          /\ Waits(f, "audited")' = IF new = "audited" THEN Waits(f, "audited") + 1
                                    ELSE IF old = "audited" THEN Waits(f, "audited") - 1
                                    ELSE Waits(f, "audited")
          /\ Waits(f, "detailed")' = IF new = "detailed" THEN Waits(f, "detailed") + 1
                                     ELSE IF old = "detailed" THEN Waits(f, "detailed") - 1
                                     ELSE Waits(f, "detailed")
      BY <1>1, <2>1, <2>5 DEF Stages
    <3>2. attempt'[f] = attempt[f]
      BY <1>1
    <3>3. QED
      BY <1>4, <1>6, <2>2, <2>3, <2>5, <3>1, <3>2
  <2>6. QED
    BY <2>4, <2>5
<1>10. QED
  BY <1>5, <1>7, <1>8, <1>9 DEF TelIInv

LEMMA InvNext == TelIInv /\ [TelNext]_telVars => TelIInv'
<1> SUFFICES ASSUME TelIInv, [TelNext]_telVars PROVE TelIInv'
  OBVIOUS
<1>1. CASE UNCHANGED telVars
  <2> USE <1>1 DEF telVars, tables, TelIInv
  <2>1. TelTypeOK' /\ QueueInv' /\ AttemptInv'
    BY DEF TelTypeOK, QueueInv, AttemptInv
  <2>2. StageInv' /\ RoomInv' /\ DeliveredIsComplete'
    BY DEF StageInv, RoomInv, Waits, DeliveredIsComplete
  <2>3. QED
    BY <2>1, <2>2
<1>2. ASSUME NEW e \in Events, emit_async(e)
      PROVE  TelIInv'
  BY <1>2, EmitPreserves
<1>3. ASSUME NEW e \in Events, ThreadStep(e)
      PROVE  TelIInv'
  BY <1>3, HearPreserves, RetryPreserves DEF ThreadStep
<1>4. ASSUME NEW e \in Events, NEW k \in Tries, ingest(e, k)
      PROVE  TelIInv'
  BY <1>4, IngestPreserves
<1>5. QED
  BY <1>1, <1>2, <1>3, <1>4, TakePreserves, StopPreserves DEF TelNext

(* Every variable of the pipeline keeps its type, in particular no event is     *)
(* tried more than ATTEMPTS times.                                            *)
THEOREM TelemetryTypeCorrect == TelSpec => []TelTypeOK
<1>1. TelIInv => TelTypeOK
  BY DEF TelIInv
<1>2. QED
  BY <1>1, TelInitInv, InvNext, PTL DEF TelSpec

(* A delivered event is in every table it belongs to (telemetry.py:42-45,       *)
(* app.py:78-89).                                                             *)
THEOREM DeliveredComplete == TelSpec => []DeliveredIsComplete
<1>1. TelIInv => DeliveredIsComplete
  BY DEF TelIInv
<1>2. QED
  BY <1>1, TelInitInv, InvNext, PTL DEF TelSpec

(* However many attempts are under way at once and wherever they fail, an event *)
(* has at most one row per attempt, and a revocation one (app.py:92-238).      *)
THEOREM RowsBounded == TelSpec => []RowsAreBounded
<1>1. TelIInv => RowsAreBounded
  <2> SUFFICES ASSUME TelIInv, NEW e \in Events
               PROVE  /\ auditRows[e] <= attempt[e]
                      /\ sessionCount[e] <= auditRows[e]
                      /\ IF Type[e] = "token_revocation" THEN detailRows[e] <= 1
                         ELSE sessionCount[e] <= detailRows[e] \/ e \notin InSession
                      /\ Type[e] # "token_revocation" => detailRows[e] <= auditRows[e]
    BY DEF RowsAreBounded
  <2>1. /\ Waits(e, "sent") \in Nat /\ Waits(e, "audited") \in Nat /\ Waits(e, "detailed") \in Nat
        /\ auditRows[e] \in Nat /\ detailRows[e] \in Nat /\ sessionCount[e] \in Nat
        /\ attempt[e] \in Nat
    BY WaitsType DEF Stages, TelIInv, TelTypeOK
  <2>2. QED
    BY <2>1 DEF TelIInv, RoomInv
<1>2. QED
  BY <1>1, TelInitInv, InvNext, PTL DEF TelSpec
-----------------------------------------------------------------------------
(* Proofs about the anomaly service's model, for any number of trainers, any    *)
(* clock and any number of mishaps.                                           *)

(* Bundles that hold the same model, whatever their bytes; one of version v that *)
(* comes from one fit; a version that load accepts and finds whole, and one     *)
(* that it refuses only between the two writes of a save over a signed file.    *)
Same(b, c) == b.estimator = c.estimator /\ b.version = c.version /\ b.scale = c.scale
Whole(b, v) == b.version = v /\ b.estimator = b.scale /\ b.estimator # 0
Good(v) == pkl[v] = sig[v] /\ Whole(pkl[v], v)
Sound(v) == Whole(pkl[v], v) /\ (resaved[v] # "unsigned" => pkl[v] = sig[v])

Bundle == [estimator : Nat, version : {Unset} \cup Versions, scale : Nat, copy : Nat]
Loading == {"data", "signature", "install"}
Dumping == {"estimator", "version", "scale", "model", "sign"}
Fitting == {"fit", "path", "label", "set"} \cup Dumping
Place == {"off", "target", "serving", "sleeping", "compare", "idle"} \cup Loading \cup Fitting
Job == [at : Place,
        want : {Unset} \cup Versions, name : {Unset} \cup Versions, held : Bundle]

DataTypes ==
    /\ pkl \in [Versions -> Bundle] /\ sig \in [Versions -> Bundle] /\ memory \in Bundle
    /\ memory.copy = 0
    /\ resaved \in [Versions -> {"no", "unsigned", "signed"}]
    /\ published \in {Unset} \cup Versions
    /\ undone \subseteq Trainers
    /\ clock \in 1 .. MaxClock /\ mishaps \in Nat /\ fits \in Nat

FlagTypes == connected \in BOOLEAN /\ contended \in BOOLEAN
JobTypes == job \in [Threads -> Job]

PlaceTypes ==
    /\ job["main"].at \in {"off", "target", "serving"} \cup Loading \cup Fitting
    /\ job["reload"].at \in {"off", "sleeping", "compare"} \cup Loading
    /\ \A t \in Trainers : job[t].at \in {"off", "idle"} \cup Fitting
    /\ \A a \in Threads : job[a].at \in {"compare"} \cup Loading => job[a].want \in Versions

AnTypes == DataTypes /\ FlagTypes /\ JobTypes /\ PlaceTypes

(* Nothing else runs until startup is over. *)
MainFirst == \A a \in Threads : a = "main" \/ Is(a, "off") \/ Is("main", "serving")

(* What is in Redis is sound, and so is the v1.0 that startup falls back to. *)
PublishedInv ==
    /\ published < clock
    /\ published # Unset => Sound(published) /\ Sound(V1)
    /\ pkl[V1] = Nothing \/ Whole(pkl[V1], V1)

(* What a thread has copied of the memory it saves. *)
Copied(a) ==
    /\ job[a].at \in {"version", "scale", "model", "sign"} => job[a].held.estimator = memory.estimator
    /\ job[a].at \in {"scale", "model", "sign"} => job[a].held.version = memory.version
    /\ job[a].at \in {"model", "sign"} => Same(job[a].held, memory)
    /\ Is(a, "sign") => pkl[job[a].name] = job[a].held

(* Startup trains while nothing is published, or anew a version that was saved   *)
(* over and not signed.                                                       *)
MainInv ==
    LET j == job["main"]
    IN  /\ j.at \in Loading =>
              /\ j.want = V1 \/ (j.want = published /\ published # Unset)
              /\ j.at # "data" => j.held = pkl[j.want] /\ j.held # Nothing
              /\ j.at = "install" => pkl[j.want] = sig[j.want]
        /\ j.at \in Fitting => \/ published = Unset /\ j.want = V1
                              \/ /\ published # Unset /\ j.want \in {V1, published}
                                 /\ resaved[j.want] # "no"
        /\ j.at \in Fitting \ {"fit"} => Whole(memory, j.want)
        /\ j.at \in Dumping => j.name = j.want /\ Copied("main")
        /\ j.at \in {"label", "set"} => Good(j.want)
        /\ j.at = "set" => j.name = j.want
        /\ j.at = "serving" => Sound(V1)

(* Hot reload works on the published version or on an older one. *)
ReloadInv ==
    LET j == job["reload"]
    IN  /\ j.at \in {"off", "sleeping"} <=> j.want = Unset
        /\ j.want <= published
        /\ j.at \in {"signature", "install"} /\ j.want = published => Same(j.held, pkl[published])

(* A training is alone and newer than what is published; memory holds its own   *)
(* fit or, again, the published one, and what it saves under the name of either *)
(* is that one.                                                               *)
TrainerInv(t) ==
    LET j == job[t]
    IN  /\ Training(t) => /\ \A u \in Trainers : Training(u) => u = t
                          /\ j.want \in 1 .. clock /\ published < j.want
        /\ Fitted(t) => /\ job["reload"].want \in {Unset, published}
                        /\ \/ Whole(memory, j.want)
                           \/ t \in undone /\ published # Unset /\ Same(memory, pkl[published])
        /\ j.at \in Dumping => /\ j.name = j.want \/ j.name = memory.version
                               /\ j.name = memory.version => Copied(t)
        /\ Is(t, "label") /\ memory.version = j.want => Good(j.want)
        /\ Is(t, "set") => /\ j.want < clock
                           /\ \/ j.name = j.want /\ Good(j.want)
                              \/ j.name = published /\ t \in undone /\ published # Unset

Quiet == PublishedInv /\ MainInv /\ ReloadInv /\ \A t \in Trainers : TrainerInv(t)
AnIInv == AnTypes /\ MainFirst /\ (~contended => Quiet)
-----------------------------------------------------------------------------
LEMMA ThreadFacts ==
  /\ "main" \notin Trainers /\ "reload" \notin Trainers /\ Trainers \subseteq Threads
  /\ "main" \in Threads /\ "reload" \in Threads
  /\ \A a \in Threads : a = "main" \/ a = "reload" \/ a \in Trainers
BY AnomalyConstants DEF AnomalyConstants, Threads

LEMMA VersionFacts ==
  /\ MaxClock \in Nat \ {0} /\ MaxMishaps \in Nat
  /\ V1 \in Versions /\ Unset \notin Versions /\ Unset = -1 /\ V1 = 0
  /\ Versions \subseteq Int /\ 1 .. MaxClock \subseteq Versions /\ Nothing \in Bundle
  /\ Nothing.copy = 0 /\ Copies \subseteq Nat
BY AnomalyConstants DEF AnomalyConstants, Versions, V1, Unset, Nothing, Bundle, Copies

(* What the actions write into the table of threads keeps it a table of jobs. *)
LEMMA JobUpdates ==
  ASSUME NEW f \in [Threads -> Job], NEW a \in Threads, NEW p \in Place
  PROVE  /\ [f EXCEPT ![a].at = p] \in [Threads -> Job]
         /\ \A w \in {Unset} \cup Versions :
               /\ [f EXCEPT ![a].at = p, ![a].want = w] \in [Threads -> Job]
               /\ [f EXCEPT ![a].at = p, ![a].name = w] \in [Threads -> Job]
         /\ \A b \in Bundle : [f EXCEPT ![a].at = p, ![a].held = b] \in [Threads -> Job]
BY DEF Job

LEMMA FreshJob ==
  \A p \in Place : Fresh(p) \in Job
BY VersionFacts DEF Fresh, Job

(* What a write of the model leaves: a file of the model that was copied, and    *)
(* the thread with its bytes in hand.                                         *)
LEMMA ModelWritten ==
  ASSUME AnTypes, NEW a \in Threads, WriteModel(a)
  PROVE  \E data \in Bundle :
            /\ Same(data, job[a].held)
            /\ pkl' = [pkl EXCEPT ![job[a].name] = data]
            /\ resaved' = [resaved EXCEPT ![job[a].name] =
                  IF pkl[job[a].name] = sig[job[a].name] /\ pkl[job[a].name] \notin {Nothing, data}
                  THEN "unsigned" ELSE @]
            /\ job' = [job EXCEPT ![a].at = "sign", ![a].held = data]
            /\ Is(a, "model")
            /\ UNCHANGED <<sig, published, memory, connected, clock, mishaps, fits, contended, undone>>
<1>1. PICK copy \in Copies :
            /\ pkl' = [pkl EXCEPT ![job[a].name] = [job[a].held EXCEPT !.copy = copy]]
            /\ resaved' = [resaved EXCEPT ![job[a].name] =
                  IF /\ pkl[job[a].name] = sig[job[a].name]
                     /\ pkl[job[a].name] \notin {Nothing, [job[a].held EXCEPT !.copy = copy]}
                  THEN "unsigned" ELSE @]
            /\ job' = [job EXCEPT ![a].at = "sign", ![a].held = [job[a].held EXCEPT !.copy = copy]]
  BY Zenon DEF WriteModel
<1>2. /\ [job[a].held EXCEPT !.copy = copy] \in Bundle
      /\ Same([job[a].held EXCEPT !.copy = copy], job[a].held)
  BY VersionFacts DEF AnTypes, JobTypes, Job, Bundle, Same
<1>3. /\ Is(a, "model")
      /\ UNCHANGED <<sig, published, memory, connected, clock, mishaps, fits, contended, undone>>
  BY DEF WriteModel
<1>4. QED
  BY <1>1, <1>2, <1>3

LEMMA InitInv == AnInit => AnIInv
<1> SUFFICES ASSUME AnInit PROVE AnIInv
  OBVIOUS
<1> USE ThreadFacts, VersionFacts
<1>1. AnTypes
  <2>1. DataTypes
    BY DEF AnInit, DataTypes
  <2>0. FlagTypes
    BY DEF AnInit, FlagTypes
  <2>2. JobTypes
    <3>1. Fresh("off") \in Job
      BY DEF Fresh, Job, Place
    <3>2. QED
      BY <3>1 DEF AnInit, JobTypes
  <2>3. PlaceTypes
    BY DEF AnInit, PlaceTypes, Fresh, Loading
  <2>4. QED
    BY <2>0, <2>1, <2>2, <2>3 DEF AnTypes
<1>2. MainFirst
  BY DEF AnInit, MainFirst, Is, Fresh
<1>3. PublishedInv
  BY DEF AnInit, PublishedInv
<1>4. MainInv /\ ReloadInv
  BY DEF AnInit, MainInv, ReloadInv, Fresh, Loading, Fitting, Dumping
<1>5. \A t \in Trainers : TrainerInv(t)
  BY DEF AnInit, TrainerInv, Training, Fitted, Is, Fresh, Dumping
<1>6. QED
  BY <1>1, <1>2, <1>3, <1>4, <1>5 DEF AnIInv, Quiet

(* Types: the files and the memory, the flags, the table of threads, the places. *)
LEMMA DataTypesStep ==
  ASSUME AnTypes, [AnNext]_anVars
  PROVE  DataTypes'
<1> USE ThreadFacts, VersionFacts DEF AnTypes, DataTypes, JobTypes, Job, Bundle, Is, Goto,
        Mishap, disk, Fresh, Done, NotLoaded, Stopped
<1>1. CASE UNCHANGED anVars
  BY <1>1 DEF anVars
<1>2. CASE Connect
  BY <1>2 DEF Connect
<1>3. CASE ConnectFails
  BY <1>3 DEF ConnectFails
<1>4. CASE ReadTarget
  BY <1>4 DEF ReadTarget
<1>5. CASE ReadTargetFails
  BY <1>5 DEF ReadTargetFails
<1>6. CASE ReadModel("main")
  BY <1>6 DEF ReadModel
<1>7. CASE CheckSignature("main")
  BY <1>7 DEF CheckSignature
<1>8. CASE Install("main")
  BY <1>8 DEF Install, InMemory
<1>9. CASE Poll
  BY <1>9 DEF Poll
<1>10. CASE Compare
  BY <1>10 DEF Compare
<1>11. CASE ReadModel("reload")
  BY <1>11 DEF ReadModel
<1>12. CASE CheckSignature("reload")
  BY <1>12 DEF CheckSignature
<1>13. CASE Install("reload")
  BY <1>13 DEF Install, InMemory
<1>14. ASSUME NEW a \in Threads, Fit(a) PROVE DataTypes'
  BY <1>14 DEF Fit
<1>15. ASSUME NEW a \in Threads, NameFile(a) PROVE DataTypes'
  BY <1>15 DEF NameFile
<1>16. ASSUME NEW a \in Threads, ReadEntry(a) PROVE DataTypes'
  BY <1>16 DEF ReadEntry, NextEntry
<1>17. ASSUME NEW a \in Threads, WriteModel(a) PROVE DataTypes'
  <2>1. PICK data \in Bundle : pkl' = [pkl EXCEPT ![job[a].name] = data]
    BY <1>17, ModelWritten
  <2>2. UNCHANGED <<sig, published, memory, clock, mishaps, fits, undone>>
    BY <1>17 DEF WriteModel
  <2>3. \/ UNCHANGED resaved
        \/ \E v : resaved' = [resaved EXCEPT ![v] = "unsigned"]
        \/ \E v : resaved' = [resaved EXCEPT ![v] = @]
    BY <1>17, Zenon DEF WriteModel
  <2>4. pkl' \in [Versions -> Bundle]
    BY <2>1
  <2>5. resaved' \in [Versions -> {"no", "unsigned", "signed"}]
    BY <2>3
  <2>6. QED
    BY <2>2, <2>4, <2>5
<1>18. ASSUME NEW a \in Threads, WriteSignature(a) PROVE DataTypes'
  BY <1>18 DEF WriteSignature
<1>19. ASSUME NEW a \in Threads, ReadVersion(a) PROVE DataTypes'
  BY <1>19 DEF ReadVersion
<1>20. ASSUME NEW a \in Threads, SetVersion(a) PROVE DataTypes'
  BY <1>20 DEF SetVersion
<1>21. ASSUME NEW a \in Threads, SaveFails(a) PROVE DataTypes'
  BY <1>21 DEF SaveFails
<1>22. ASSUME NEW a \in Threads, SetFails(a) PROVE DataTypes'
  BY <1>22 DEF SetFails
<1>23. ASSUME NEW a \in Trainers, Begin(a) PROVE DataTypes'
  BY <1>23 DEF Begin
<1>24. ASSUME NEW a \in Trainers, TooFewRows(a) PROVE DataTypes'
  BY <1>24 DEF TooFewRows
<1>25. CASE Tick
  BY <1>25 DEF Tick
<1>26. CASE Kill
  BY <1>26 DEF Kill
<1>27. QED
  BY <1>1, <1>2, <1>3, <1>4, <1>5, <1>6, <1>7, <1>8, <1>9, <1>10, <1>11, <1>12, <1>13, <1>14,
     <1>15, <1>16, <1>17, <1>18, <1>19, <1>20, <1>21, <1>22, <1>23, <1>24, <1>25, <1>26 DEF
     AnNext, StartupStep, LoadStep, TrainStep, ReloadStep, Failure

LEMMA FlagTypesStep ==
  ASSUME AnTypes, [AnNext]_anVars
  PROVE  FlagTypes'
<1> USE ThreadFacts, VersionFacts DEF AnTypes, FlagTypes, Is, Goto, Mishap, disk, Fresh, Done,
        NotLoaded, Stopped
<1>1. CASE UNCHANGED anVars
  BY <1>1 DEF anVars
<1>2. CASE Connect
  BY <1>2 DEF Connect
<1>3. CASE ConnectFails
  BY <1>3 DEF ConnectFails
<1>4. CASE ReadTarget
  BY <1>4 DEF ReadTarget
<1>5. CASE ReadTargetFails
  BY <1>5 DEF ReadTargetFails
<1>6. CASE ReadModel("main")
  BY <1>6 DEF ReadModel
<1>7. CASE CheckSignature("main")
  BY <1>7 DEF CheckSignature
<1>8. CASE Install("main")
  BY <1>8 DEF Install, InMemory
<1>9. CASE Poll
  BY <1>9 DEF Poll
<1>10. CASE Compare
  BY <1>10 DEF Compare
<1>11. CASE ReadModel("reload")
  BY <1>11 DEF ReadModel
<1>12. CASE CheckSignature("reload")
  BY <1>12 DEF CheckSignature
<1>13. CASE Install("reload")
  BY <1>13 DEF Install, InMemory
<1>14. ASSUME NEW a \in Threads, Fit(a) PROVE FlagTypes'
  BY <1>14 DEF Fit
<1>15. ASSUME NEW a \in Threads, NameFile(a) PROVE FlagTypes'
  BY <1>15 DEF NameFile
<1>16. ASSUME NEW a \in Threads, ReadEntry(a) PROVE FlagTypes'
  BY <1>16 DEF ReadEntry, NextEntry
<1>17. ASSUME NEW a \in Threads, WriteModel(a) PROVE FlagTypes'
  BY <1>17 DEF WriteModel
<1>18. ASSUME NEW a \in Threads, WriteSignature(a) PROVE FlagTypes'
  BY <1>18 DEF WriteSignature
<1>19. ASSUME NEW a \in Threads, ReadVersion(a) PROVE FlagTypes'
  BY <1>19 DEF ReadVersion
<1>20. ASSUME NEW a \in Threads, SetVersion(a) PROVE FlagTypes'
  BY <1>20 DEF SetVersion
<1>21. ASSUME NEW a \in Threads, SaveFails(a) PROVE FlagTypes'
  BY <1>21 DEF SaveFails
<1>22. ASSUME NEW a \in Threads, SetFails(a) PROVE FlagTypes'
  BY <1>22 DEF SetFails
<1>23. ASSUME NEW a \in Trainers, Begin(a) PROVE FlagTypes'
  BY <1>23 DEF Begin
<1>24. ASSUME NEW a \in Trainers, TooFewRows(a) PROVE FlagTypes'
  BY <1>24 DEF TooFewRows
<1>25. CASE Tick
  BY <1>25 DEF Tick
<1>26. CASE Kill
  BY <1>26 DEF Kill
<1>27. QED
  BY <1>1, <1>2, <1>3, <1>4, <1>5, <1>6, <1>7, <1>8, <1>9, <1>10, <1>11, <1>12, <1>13, <1>14,
     <1>15, <1>16, <1>17, <1>18, <1>19, <1>20, <1>21, <1>22, <1>23, <1>24, <1>25, <1>26 DEF
     AnNext, StartupStep, LoadStep, TrainStep, ReloadStep, Failure

LEMMA DoneTypes ==
  ASSUME JobTypes, NEW a \in Threads, Done(a) \/ NotLoaded(a)
  PROVE  JobTypes'
<1> USE JobUpdates, FreshJob, ThreadFacts DEF JobTypes, Place, Fitting
<1>1. CASE Done(a)
  <2>1. CASE a = "main"
    BY <1>1, <2>1 DEF Done
  <2>2. CASE a # "main"
    <3>1. PICK p \in Place : job' = [job EXCEPT ![a] = Fresh(p)]
      BY <1>1, <2>2 DEF Done
    <3>2. QED
      BY <3>1
  <2>3. QED
    BY <2>1, <2>2
<1>2. CASE Goto(a, "fit")
  BY <1>2 DEF Goto
<1>3. QED
  BY <1>1, <1>2 DEF NotLoaded

LEMMA JobTypesStep ==
  ASSUME AnTypes, [AnNext]_anVars
  PROVE  JobTypes'
<1> USE ThreadFacts, VersionFacts DEF AnTypes, DataTypes, JobTypes, Place, Fitting, Loading,
        Dumping, Is, Goto, Mishap, disk, Stopped
<1>1. CASE UNCHANGED anVars
  BY <1>1, DoneTypes, JobUpdates, FreshJob DEF anVars
<1>2. CASE Connect
  BY <1>2, DoneTypes, JobUpdates, FreshJob DEF Connect
<1>3. CASE ConnectFails
  BY <1>3, DoneTypes, JobUpdates, FreshJob DEF ConnectFails
<1>4. CASE ReadTarget
  BY <1>4, DoneTypes, JobUpdates, FreshJob DEF ReadTarget
<1>5. CASE ReadTargetFails
  BY <1>5, DoneTypes, JobUpdates, FreshJob DEF ReadTargetFails
<1>6. CASE ReadModel("main")
  <2>1. /\ pkl[job["main"].want] \in Bundle
        /\ \/ NotLoaded("main")
           \/ job' = [job EXCEPT !["main"].at = "signature", !["main"].held = pkl[job["main"].want]]
    BY <1>6 DEF ReadModel, PlaceTypes
  <2>2. CASE NotLoaded("main")
    BY <2>2, DoneTypes
  <2>3. CASE job' = [job EXCEPT !["main"].at = "signature", !["main"].held = pkl[job["main"].want]]
    <3> DEFINE data == pkl[job["main"].want]
    <3>1. /\ data \in Bundle /\ "signature" \in Place
          /\ job' = [job EXCEPT !["main"].at = "signature", !["main"].held = data]
      BY <2>1, <2>3
    <3> HIDE DEF data
    <3>2. QED
      BY <3>1, JobUpdates
  <2>4. QED
    BY <2>1, <2>2, <2>3
<1>7. CASE CheckSignature("main")
  <2>1. Goto("main", "install") \/ NotLoaded("main")
    BY <1>7 DEF CheckSignature
  <2>2. CASE NotLoaded("main")
    BY <2>2, DoneTypes
  <2>3. CASE Goto("main", "install")
    BY <2>3, JobUpdates
  <2>4. QED
    BY <2>1, <2>2, <2>3
<1>8. CASE Install("main")
  BY <1>8, DoneTypes, JobUpdates, FreshJob DEF Install
<1>9. CASE Poll
  BY <1>9, DoneTypes, JobUpdates, FreshJob DEF Poll
<1>10. CASE Compare
  <2>1. Goto("reload", "data") \/ Done("reload")
    BY <1>10 DEF Compare
  <2>2. CASE Done("reload")
    BY <2>2, DoneTypes
  <2>3. CASE Goto("reload", "data")
    BY <2>3, JobUpdates
  <2>4. QED
    BY <2>1, <2>2, <2>3
<1>11. CASE ReadModel("reload")
  <2>1. /\ pkl[job["reload"].want] \in Bundle
        /\ \/ NotLoaded("reload")
           \/ job' = [job EXCEPT !["reload"].at = "signature", !["reload"].held = pkl[job["reload"].want]]
    BY <1>11 DEF ReadModel, PlaceTypes
  <2>2. CASE NotLoaded("reload")
    BY <2>2, DoneTypes
  <2>3. CASE job' = [job EXCEPT !["reload"].at = "signature", !["reload"].held = pkl[job["reload"].want]]
    <3> DEFINE data == pkl[job["reload"].want]
    <3>1. /\ data \in Bundle /\ "signature" \in Place
          /\ job' = [job EXCEPT !["reload"].at = "signature", !["reload"].held = data]
      BY <2>1, <2>3
    <3> HIDE DEF data
    <3>2. QED
      BY <3>1, JobUpdates
  <2>4. QED
    BY <2>1, <2>2, <2>3
<1>12. CASE CheckSignature("reload")
  <2>1. Goto("reload", "install") \/ NotLoaded("reload")
    BY <1>12 DEF CheckSignature
  <2>2. CASE NotLoaded("reload")
    BY <2>2, DoneTypes
  <2>3. CASE Goto("reload", "install")
    BY <2>3, JobUpdates
  <2>4. QED
    BY <2>1, <2>2, <2>3
<1>13. CASE Install("reload")
  BY <1>13, DoneTypes, JobUpdates, FreshJob DEF Install
<1>14. ASSUME NEW a \in Threads, Fit(a) PROVE JobTypes'
  BY <1>14, DoneTypes, JobUpdates, FreshJob DEF Fit
<1>15. ASSUME NEW a \in Threads, NameFile(a) PROVE JobTypes'
  <2>1. memory.version \in {Unset} \cup Versions
    BY DEF Bundle
  <2>2. QED
    BY <1>15, <2>1, JobUpdates DEF NameFile
<1>16. ASSUME NEW a \in Threads, ReadEntry(a) PROVE JobTypes'
  <2>1. /\ job[a].at \in {"estimator", "version", "scale"}
        /\ job' = [job EXCEPT ![a].at = NextEntry[job[a].at],
                              ![a].held[job[a].at] = memory[job[a].at]]
    BY <1>16 DEF ReadEntry, NextEntry
  <2>2. NextEntry[job[a].at] \in Place
    BY <2>1 DEF NextEntry, Dumping
  <2>3. job[a].held \in Bundle /\ memory \in Bundle
    BY DEF Job
  <2>4. [job[a].held EXCEPT ![job[a].at] = memory[job[a].at]] \in Bundle
    BY <2>1, <2>3 DEF Bundle
  <2>5. job' = [job EXCEPT ![a].at = NextEntry[job[a].at],
                           ![a].held = [job[a].held EXCEPT ![job[a].at] = memory[job[a].at]]]
    BY <2>1, <2>3 DEF Job, Bundle
  <2> DEFINE b == [job[a].held EXCEPT ![job[a].at] = memory[job[a].at]]
              p == NextEntry[job[a].at]
  <2>6. b \in Bundle /\ p \in Place /\ job' = [job EXCEPT ![a].at = p, ![a].held = b]
    BY <2>2, <2>4, <2>5
  <2> HIDE DEF b, p
  <2>7. QED
    BY <2>6, JobUpdates
<1>17. ASSUME NEW a \in Threads, WriteModel(a) PROVE JobTypes'
  <2>1. PICK data \in Bundle : job' = [job EXCEPT ![a].at = "sign", ![a].held = data]
    BY <1>17, ModelWritten
  <2>2. QED
    BY <2>1, JobUpdates
<1>18. ASSUME NEW a \in Threads, WriteSignature(a) PROVE JobTypes'
  BY <1>18, DoneTypes, JobUpdates, FreshJob DEF WriteSignature
<1>19. ASSUME NEW a \in Threads, ReadVersion(a) PROVE JobTypes'
  <2>1. memory.version \in {Unset} \cup Versions
    BY DEF Bundle
  <2>2. QED
    <3>1. Done(a) \/ job' = [job EXCEPT ![a].at = "set", ![a].name = memory.version]
      BY <1>19 DEF ReadVersion
    <3>2. CASE Done(a)
      BY <3>2, DoneTypes
    <3>3. CASE job' = [job EXCEPT ![a].at = "set", ![a].name = memory.version]
      BY <2>1, <3>3, JobUpdates
    <3>4. QED
      BY <3>1, <3>2, <3>3
<1>20. ASSUME NEW a \in Threads, SetVersion(a) PROVE JobTypes'
  BY <1>20, DoneTypes, JobUpdates, FreshJob DEF SetVersion
<1>21. ASSUME NEW a \in Threads, SaveFails(a) PROVE JobTypes'
  <2>1. Done(a) \/ job' = [b \in Threads |-> Fresh("off")]
    BY <1>21 DEF SaveFails
  <2>2. QED
    BY <2>1, DoneTypes, FreshJob
<1>22. ASSUME NEW a \in Threads, SetFails(a) PROVE JobTypes'
  BY <1>22, DoneTypes, JobUpdates, FreshJob DEF SetFails
<1>23. ASSUME NEW a \in Trainers, Begin(a) PROVE JobTypes'
  BY <1>23, DoneTypes, JobUpdates, FreshJob DEF Begin
<1>24. ASSUME NEW a \in Trainers, TooFewRows(a) PROVE JobTypes'
  BY <1>24, DoneTypes, JobUpdates, FreshJob DEF TooFewRows
<1>25. CASE Tick
  BY <1>25, DoneTypes, JobUpdates, FreshJob DEF Tick
<1>26. CASE Kill
  BY <1>26, DoneTypes, JobUpdates, FreshJob DEF Kill
<1>27. QED
  BY <1>1, <1>2, <1>3, <1>4, <1>5, <1>6, <1>7, <1>8, <1>9, <1>10, <1>11, <1>12, <1>13, <1>14,
     <1>15, <1>16, <1>17, <1>18, <1>19, <1>20, <1>21, <1>22, <1>23, <1>24, <1>25, <1>26 DEF
     AnNext, StartupStep, LoadStep, TrainStep, ReloadStep, Failure

LEMMA PlaceTypesStep ==
  ASSUME AnTypes, [AnNext]_anVars
  PROVE  PlaceTypes'
<1> USE ThreadFacts, VersionFacts DEF AnTypes, DataTypes, JobTypes, Job, PlaceTypes, Fitting,
        Loading, Dumping, Is, Goto, Mishap, disk, Fresh, Done, NotLoaded, Stopped
<1>1. CASE UNCHANGED anVars
  BY <1>1 DEF anVars
<1>2. CASE Connect
  BY <1>2 DEF Connect
<1>3. CASE ConnectFails
  BY <1>3 DEF ConnectFails
<1>4. CASE ReadTarget
  BY <1>4 DEF ReadTarget
<1>5. CASE ReadTargetFails
  BY <1>5 DEF ReadTargetFails
<1>6. CASE ReadModel("main")
  BY <1>6 DEF ReadModel
<1>7. CASE CheckSignature("main")
  BY <1>7 DEF CheckSignature
<1>8. CASE Install("main")
  BY <1>8 DEF Install, InMemory
<1>9. CASE Poll
  BY <1>9 DEF Poll
<1>10. CASE Compare
  BY <1>10 DEF Compare
<1>11. CASE ReadModel("reload")
  <2>1. \A b \in Threads : b # "reload" => job'[b] = job[b]
    BY <1>11 DEF ReadModel
  <2>2. \/ job'["reload"].at = "sleeping"
        \/ job'["reload"].at = "signature" /\ job'["reload"].want = job["reload"].want
    BY <1>11 DEF ReadModel
  <2>3. job["reload"].want \in Versions
    BY <1>11 DEF ReadModel
  <2>4. QED
    BY <2>1, <2>2, <2>3
<1>12. CASE CheckSignature("reload")
  BY <1>12 DEF CheckSignature
<1>13. CASE Install("reload")
  BY <1>13 DEF Install, InMemory
<1>14. ASSUME NEW a \in Threads, Fit(a) PROVE PlaceTypes'
  BY <1>14 DEF Fit
<1>15. ASSUME NEW a \in Threads, NameFile(a) PROVE PlaceTypes'
  BY <1>15 DEF NameFile
<1>16. ASSUME NEW a \in Threads, ReadEntry(a) PROVE PlaceTypes'
  BY <1>16 DEF ReadEntry, NextEntry
<1>17. ASSUME NEW a \in Threads, WriteModel(a) PROVE PlaceTypes'
  BY <1>17 DEF WriteModel
<1>18. ASSUME NEW a \in Threads, WriteSignature(a) PROVE PlaceTypes'
  BY <1>18 DEF WriteSignature
<1>19. ASSUME NEW a \in Threads, ReadVersion(a) PROVE PlaceTypes'
  BY <1>19 DEF ReadVersion
<1>20. ASSUME NEW a \in Threads, SetVersion(a) PROVE PlaceTypes'
  BY <1>20 DEF SetVersion
<1>21. ASSUME NEW a \in Threads, SaveFails(a) PROVE PlaceTypes'
  BY <1>21 DEF SaveFails
<1>22. ASSUME NEW a \in Threads, SetFails(a) PROVE PlaceTypes'
  BY <1>22 DEF SetFails
<1>23. ASSUME NEW a \in Trainers, Begin(a) PROVE PlaceTypes'
  BY <1>23 DEF Begin
<1>24. ASSUME NEW a \in Trainers, TooFewRows(a) PROVE PlaceTypes'
  BY <1>24 DEF TooFewRows
<1>25. CASE Tick
  BY <1>25 DEF Tick
<1>26. CASE Kill
  BY <1>26 DEF Kill
<1>27. QED
  BY <1>1, <1>2, <1>3, <1>4, <1>5, <1>6, <1>7, <1>8, <1>9, <1>10, <1>11, <1>12, <1>13, <1>14,
     <1>15, <1>16, <1>17, <1>18, <1>19, <1>20, <1>21, <1>22, <1>23, <1>24, <1>25, <1>26 DEF
     AnNext, StartupStep, LoadStep, TrainStep, ReloadStep, Failure

(* Only startup ends "off" for the other threads. *)
LEMMA MainFirstStep ==
  ASSUME AnTypes, MainFirst, [AnNext]_anVars
  PROVE  MainFirst'
<1> USE ThreadFacts, VersionFacts DEF AnTypes, PlaceTypes, JobTypes, Job, MainFirst, Fitting,
        Loading, Dumping, Is, Goto, Mishap, disk, Fresh, Done, NotLoaded, Stopped
<1>1. CASE UNCHANGED anVars
  BY <1>1 DEF anVars
<1>2. CASE Connect
  BY <1>2 DEF Connect
<1>3. CASE ConnectFails
  BY <1>3 DEF ConnectFails
<1>4. CASE ReadTarget
  BY <1>4 DEF ReadTarget
<1>5. CASE ReadTargetFails
  BY <1>5 DEF ReadTargetFails
<1>6. CASE ReadModel("main")
  BY <1>6 DEF ReadModel
<1>7. CASE CheckSignature("main")
  BY <1>7 DEF CheckSignature
<1>8. CASE Install("main")
  BY <1>8 DEF Install, InMemory
<1>9. CASE Poll
  BY <1>9 DEF Poll
<1>10. CASE Compare
  BY <1>10 DEF Compare
<1>11. CASE ReadModel("reload")
  BY <1>11 DEF ReadModel
<1>12. CASE CheckSignature("reload")
  BY <1>12 DEF CheckSignature
<1>13. CASE Install("reload")
  BY <1>13 DEF Install, InMemory
<1>14. ASSUME NEW a \in Threads, Fit(a) PROVE MainFirst'
  BY <1>14 DEF Fit
<1>15. ASSUME NEW a \in Threads, NameFile(a) PROVE MainFirst'
  BY <1>15 DEF NameFile
<1>16. ASSUME NEW a \in Threads, ReadEntry(a) PROVE MainFirst'
  BY <1>16 DEF ReadEntry, NextEntry
<1>17. ASSUME NEW a \in Threads, WriteModel(a) PROVE MainFirst'
  BY <1>17 DEF WriteModel
<1>18. ASSUME NEW a \in Threads, WriteSignature(a) PROVE MainFirst'
  BY <1>18 DEF WriteSignature
<1>19. ASSUME NEW a \in Threads, ReadVersion(a) PROVE MainFirst'
  BY <1>19 DEF ReadVersion
<1>20. ASSUME NEW a \in Threads, SetVersion(a) PROVE MainFirst'
  BY <1>20 DEF SetVersion
<1>21. ASSUME NEW a \in Threads, SaveFails(a) PROVE MainFirst'
  BY <1>21 DEF SaveFails
<1>22. ASSUME NEW a \in Threads, SetFails(a) PROVE MainFirst'
  BY <1>22 DEF SetFails
<1>23. ASSUME NEW a \in Trainers, Begin(a) PROVE MainFirst'
  BY <1>23 DEF Begin
<1>24. ASSUME NEW a \in Trainers, TooFewRows(a) PROVE MainFirst'
  BY <1>24 DEF TooFewRows
<1>25. CASE Tick
  BY <1>25 DEF Tick
<1>26. CASE Kill
  BY <1>26 DEF Kill
<1>27. QED
  BY <1>1, <1>2, <1>3, <1>4, <1>5, <1>6, <1>7, <1>8, <1>9, <1>10, <1>11, <1>12, <1>13, <1>14,
     <1>15, <1>16, <1>17, <1>18, <1>19, <1>20, <1>21, <1>22, <1>23, <1>24, <1>25, <1>26 DEF
     AnNext, StartupStep, LoadStep, TrainStep, ReloadStep, Failure

LEMMA TypesStep ==
  ASSUME AnTypes, [AnNext]_anVars
  PROVE  AnTypes'
BY DataTypesStep, FlagTypesStep, JobTypesStep, PlaceTypesStep DEF AnTypes

(* What is saved under the published name or as v1.0 is that model, and it is    *)
(* the file that is signed; so what is sound stays sound.                      *)
LEMMA WritesWhole ==
  ASSUME AnTypes, Quiet, NEW a \in Threads, Is(a, "model"), job[a].name \in {V1, published}
  PROVE  Whole(job[a].held, job[a].name)
<1>1. CASE a = "main"
  BY <1>1 DEF Quiet, MainInv, Copied, Is, Fitting, Dumping, Whole, Same
<1>2. CASE a \in Trainers
  <2>1. /\ TrainerInv(a) /\ Training(a) /\ Fitted(a)
        /\ job[a].want # V1 /\ published < job[a].want
    BY <1>2, VersionFacts DEF Quiet, TrainerInv, Training, Fitted, Is
  <2>2. job[a].name = memory.version /\ Same(job[a].held, memory)
    BY <1>2, <2>1, VersionFacts DEF TrainerInv, Copied, Is, Dumping, AnTypes, DataTypes
  <2>3. Whole(memory, job[a].want) \/ (published # Unset /\ Same(memory, pkl[published]))
    BY <2>1 DEF TrainerInv
  <2>4. CASE Whole(memory, job[a].want)
    BY <2>1, <2>2, <2>4, VersionFacts DEF Whole, AnTypes, DataTypes
  <2>5. CASE published # Unset /\ Same(memory, pkl[published])
    BY <2>2, <2>5 DEF Whole, Same, Quiet, PublishedInv, Sound
  <2>6. QED
    BY <2>3, <2>4, <2>5
<1>3. a # "reload"
  BY DEF AnTypes, PlaceTypes, Is, Loading
<1>4. QED
  BY <1>1, <1>2, <1>3, ThreadFacts

LEMMA SignsWritten ==
  ASSUME AnTypes, Quiet, NEW a \in Threads, Is(a, "sign"), job[a].name \in {V1, published}
  PROVE  pkl[job[a].name] = job[a].held
<1>1. CASE a = "main"
  BY <1>1 DEF Quiet, MainInv, Copied, Is, Dumping
<1>2. CASE a \in Trainers
  <2>1. TrainerInv(a) /\ Training(a) /\ job[a].want # V1 /\ published < job[a].want
    BY <1>2, VersionFacts DEF Quiet, TrainerInv, Training, Is
  <2>2. job[a].name = memory.version /\ Copied(a)
    BY <1>2, <2>1, VersionFacts DEF TrainerInv, Is, Dumping, AnTypes, DataTypes
  <2>3. QED
    BY <2>2 DEF Copied, Is
<1>3. a # "reload"
  BY DEF AnTypes, PlaceTypes, Is, Loading
<1>4. QED
  BY <1>1, <1>2, <1>3, ThreadFacts

LEMMA SoundKept ==
  ASSUME AnTypes, Quiet, NEW a \in Threads, WriteModel(a) \/ WriteSignature(a),
         NEW v \in {V1, published}, Sound(v), v # Unset
  PROVE  Sound(v)'
<1>0. v \in Versions /\ pkl[v] # Nothing
  BY VersionFacts DEF AnTypes, DataTypes, Sound, Whole, Nothing
<1>1. CASE WriteModel(a)
  <2>1. PICK data \in Bundle :
            /\ Same(data, job[a].held)
            /\ pkl' = [pkl EXCEPT ![job[a].name] = data]
            /\ resaved' = [resaved EXCEPT ![job[a].name] =
                  IF pkl[job[a].name] = sig[job[a].name] /\ pkl[job[a].name] \notin {Nothing, data}
                  THEN "unsigned" ELSE @]
            /\ Is(a, "model") /\ sig' = sig
    BY <1>1, ModelWritten
  <2>2. CASE job[a].name # v
    BY <1>0, <2>1, <2>2 DEF Sound, AnTypes, DataTypes
  <2>3. CASE job[a].name = v
    <3>1. pkl'[v] = data /\ Whole(data, v)
      BY <1>0, <2>1, <2>3, WritesWhole DEF Whole, Same, AnTypes, DataTypes
    <3>2. resaved'[v] = IF pkl[v] = sig[v] /\ pkl[v] # data THEN "unsigned" ELSE resaved[v]
      BY <1>0, <2>1, <2>3 DEF AnTypes, DataTypes
    <3>3. QED
      BY <2>1, <3>1, <3>2 DEF Sound
  <2>4. QED
    BY <2>2, <2>3
<1>2. CASE WriteSignature(a)
  <2>1. /\ Is(a, "sign") /\ UNCHANGED pkl
        /\ sig' = [sig EXCEPT ![job[a].name] = job[a].held]
        /\ resaved' = [resaved EXCEPT ![job[a].name] = IF @ = "unsigned" THEN "signed" ELSE @]
    BY <1>2 DEF WriteSignature
  <2>2. CASE job[a].name # v
    BY <1>0, <2>1, <2>2 DEF Sound, AnTypes, DataTypes
  <2>3. CASE job[a].name = v
    BY <1>0, <2>1, <2>3, SignsWritten DEF Sound, AnTypes, DataTypes
  <2>4. QED
    BY <2>2, <2>3
<1>3. QED
  BY <1>1, <1>2

LEMMA FirstKept ==
  ASSUME AnTypes, Quiet, NEW a \in Threads, WriteModel(a)
  PROVE  (pkl[V1] = Nothing \/ Whole(pkl[V1], V1))'
<1>1. PICK data \in Bundle :
         Same(data, job[a].held) /\ pkl' = [pkl EXCEPT ![job[a].name] = data] /\ Is(a, "model")
  BY ModelWritten
<1>2. CASE job[a].name = V1
  <2>1. pkl'[V1] = data /\ Whole(data, V1)
    BY <1>1, <1>2, WritesWhole, VersionFacts DEF Whole, Same, AnTypes, DataTypes
  <2>2. QED
    BY <2>1
<1>3. CASE job[a].name # V1
  BY <1>1, <1>3, VersionFacts DEF Quiet, PublishedInv, AnTypes, DataTypes, Whole
<1>4. QED
  BY <1>2, <1>3

(* While trainings do not overlap, each part of Quiet follows from all of it. *)
LEMMA PublishedStep ==
  ASSUME AnTypes, MainFirst, Quiet, [AnNext]_anVars, ~contended'
  PROVE  PublishedInv'
<1> USE ThreadFacts, VersionFacts DEF AnTypes, DataTypes, JobTypes, PlaceTypes, Job, Bundle,
        MainFirst, Quiet, Fitting, Loading, Dumping, PublishedInv, MainInv, TrainerInv,
        Training, Fitted, Good, Sound, Whole, Same, Copied, Is, Goto, Mishap, disk, Fresh, Done, NotLoaded,
        Stopped
<1>1. CASE UNCHANGED anVars
  BY <1>1 DEF anVars
<1>2. CASE Connect
  BY <1>2 DEF Connect
<1>3. CASE ConnectFails
  BY <1>3 DEF ConnectFails
<1>4. CASE ReadTarget
  BY <1>4 DEF ReadTarget
<1>5. CASE ReadTargetFails
  BY <1>5 DEF ReadTargetFails
<1>6. CASE ReadModel("main")
  BY <1>6 DEF ReadModel
<1>7. CASE CheckSignature("main")
  BY <1>7 DEF CheckSignature
<1>8. CASE Install("main")
  BY <1>8 DEF Install, InMemory
<1>9. CASE Poll
  BY <1>9 DEF Poll
<1>10. CASE Compare
  BY <1>10 DEF Compare
<1>11. CASE ReadModel("reload")
  BY <1>11 DEF ReadModel
<1>12. CASE CheckSignature("reload")
  BY <1>12 DEF CheckSignature
<1>13. CASE Install("reload")
  BY <1>13 DEF Install, InMemory
<1>14. ASSUME NEW a \in Threads, Fit(a) PROVE PublishedInv'
  BY <1>14 DEF Fit
<1>15. ASSUME NEW a \in Threads, NameFile(a) PROVE PublishedInv'
  BY <1>15 DEF NameFile
<1>16. ASSUME NEW a \in Threads, ReadEntry(a) PROVE PublishedInv'
  BY <1>16 DEF ReadEntry, NextEntry
<1>17. ASSUME NEW a \in Threads, WriteModel(a) PROVE PublishedInv'
  <2>1. UNCHANGED <<published, clock>> /\ Is(a, "model")
    BY <1>17, ModelWritten
  <2>2. ASSUME published # Unset PROVE Sound(published)' /\ Sound(V1)'
    <3>1. Sound(published) /\ Sound(V1) /\ V1 # Unset
      BY <2>2
    <3>2. \A v \in {V1, published} : Sound(v)'
      BY <1>17, <2>2, <3>1, SoundKept
    <3>3. QED
      BY <2>1, <3>2
  <2>3. (pkl[V1] = Nothing \/ Whole(pkl[V1], V1))'
    BY <1>17, FirstKept
  <2>4. QED
    BY <2>1, <2>2, <2>3
<1>18. ASSUME NEW a \in Threads, WriteSignature(a) PROVE PublishedInv'
  <2>1. UNCHANGED <<published, clock, pkl>>
    BY <1>18 DEF WriteSignature
  <2>2. ASSUME published # Unset PROVE Sound(published)' /\ Sound(V1)'
    <3>1. Sound(published) /\ Sound(V1) /\ V1 # Unset
      BY <2>2
    <3>2. \A v \in {V1, published} : Sound(v)'
      BY <1>18, <2>2, <3>1, SoundKept
    <3>3. QED
      BY <2>1, <3>2
  <2>3. QED
    BY <2>1, <2>2
<1>19. ASSUME NEW a \in Threads, ReadVersion(a) PROVE PublishedInv'
  BY <1>19 DEF ReadVersion
<1>20. ASSUME NEW a \in Threads, SetVersion(a) PROVE PublishedInv'
  <2>1. CASE a = "main"
    BY <1>20, <2>1 DEF SetVersion
  <2>2. CASE a \in Trainers
    <3>1. /\ TrainerInv(a) /\ Sound(V1)
          /\ published' = job[a].name /\ UNCHANGED <<pkl, sig, resaved, clock>>
      BY <1>20, <2>2 DEF SetVersion
    <3>2. /\ job[a].want < clock
          /\ (job[a].name = job[a].want /\ Good(job[a].want)) \/ job[a].name = published
      BY <1>20, <2>2, <3>1 DEF SetVersion
    <3>3. QED
      BY <3>1, <3>2
  <2>3. QED
    BY <1>20, <2>1, <2>2 DEF SetVersion
<1>21. ASSUME NEW a \in Threads, SaveFails(a) PROVE PublishedInv'
  BY <1>21 DEF SaveFails
<1>22. ASSUME NEW a \in Threads, SetFails(a) PROVE PublishedInv'
  BY <1>22 DEF SetFails
<1>23. ASSUME NEW a \in Trainers, Begin(a) PROVE PublishedInv'
  BY <1>23 DEF Begin
<1>24. ASSUME NEW a \in Trainers, TooFewRows(a) PROVE PublishedInv'
  BY <1>24 DEF TooFewRows
<1>25. CASE Tick
  BY <1>25 DEF Tick
<1>26. CASE Kill
  BY <1>26 DEF Kill
<1>27. QED
  BY <1>1, <1>2, <1>3, <1>4, <1>5, <1>6, <1>7, <1>8, <1>9, <1>10, <1>11, <1>12, <1>13, <1>14,
     <1>15, <1>16, <1>17, <1>18, <1>19, <1>20, <1>21, <1>22, <1>23, <1>24, <1>25, <1>26 DEF
     AnNext, StartupStep, LoadStep, TrainStep, ReloadStep, Failure

LEMMA MainStep ==
  ASSUME AnTypes, MainFirst, Quiet, [AnNext]_anVars, ~contended'
  PROVE  MainInv'
<1> USE ThreadFacts, VersionFacts DEF AnTypes, DataTypes, JobTypes, PlaceTypes, Job, Bundle,
        MainFirst, Quiet, Fitting, Loading, Dumping, PublishedInv, MainInv, TrainerInv,
        Training, Fitted, Good, Sound, Whole, Same, Copied, Is, Goto, Mishap, disk, Fresh, Done, NotLoaded,
        Stopped
<1>1. CASE UNCHANGED anVars
  BY <1>1 DEF anVars
<1>2. CASE Connect
  BY <1>2 DEF Connect
<1>3. CASE ConnectFails
  BY <1>3 DEF ConnectFails
<1>4. CASE ReadTarget
  BY <1>4 DEF ReadTarget
<1>5. CASE ReadTargetFails
  BY <1>5 DEF ReadTargetFails
<1>6. CASE ReadModel("main")
  <2>1. CASE pkl[job["main"].want] = Nothing
    <3>1. job["main"].want = V1 /\ published = Unset
      BY <1>6, <2>1 DEF ReadModel, Nothing
    <3>2. /\ job'["main"].at = "fit" /\ job'["main"].want = V1 /\ published' = Unset
      BY <1>6, <2>1, <3>1 DEF ReadModel
    <3>3. QED
      BY <3>2
  <2>2. CASE pkl[job["main"].want] # Nothing
    BY <1>6, <2>2 DEF ReadModel
  <2>3. QED
    BY <2>1, <2>2
<1>7. CASE CheckSignature("main")
  BY <1>7 DEF CheckSignature
<1>8. CASE Install("main")
  BY <1>8 DEF Install, InMemory
<1>9. CASE Poll
  BY <1>9 DEF Poll
<1>10. CASE Compare
  BY <1>10 DEF Compare
<1>11. CASE ReadModel("reload")
  BY <1>11 DEF ReadModel
<1>12. CASE CheckSignature("reload")
  BY <1>12 DEF CheckSignature
<1>13. CASE Install("reload")
  BY <1>13 DEF Install, InMemory
<1>14. ASSUME NEW a \in Threads, Fit(a) PROVE MainInv'
  BY <1>14 DEF Fit
<1>15. ASSUME NEW a \in Threads, NameFile(a) PROVE MainInv'
  BY <1>15 DEF NameFile
<1>16. ASSUME NEW a \in Threads, ReadEntry(a) PROVE MainInv'
  <2>1. CASE a # "main"
    <3>1. job'["main"] = job["main"] /\ UNCHANGED <<pkl, sig, resaved, published, memory>>
      BY <1>16, <2>1 DEF ReadEntry
    <3>2. QED
      BY <3>1
  <2>2. CASE a = "main" /\ Is("main", "estimator")
    BY SMTT(60), <1>16, <2>2 DEF ReadEntry, NextEntry
  <2>3. CASE a = "main" /\ Is("main", "version")
    BY <1>16, <2>3 DEF ReadEntry, NextEntry
  <2>4. CASE a = "main" /\ Is("main", "scale")
    BY <1>16, <2>4 DEF ReadEntry, NextEntry
  <2>5. QED
    BY <1>16, <2>1, <2>2, <2>3, <2>4 DEF ReadEntry, NextEntry
<1>17. ASSUME NEW a \in Threads, WriteModel(a) PROVE MainInv'
  <2>1. PICK data \in Bundle :
            /\ Same(data, job[a].held)
            /\ pkl' = [pkl EXCEPT ![job[a].name] = data]
            /\ resaved' = [resaved EXCEPT ![job[a].name] =
                  IF pkl[job[a].name] = sig[job[a].name] /\ pkl[job[a].name] \notin {Nothing, data}
                  THEN "unsigned" ELSE @]
            /\ job' = [job EXCEPT ![a].at = "sign", ![a].held = data]
            /\ Is(a, "model")
            /\ UNCHANGED <<sig, published, memory, connected, clock, mishaps, fits, contended, undone>>
    BY <1>17, ModelWritten, Zenon
  <2>2. CASE a = "main"
    BY <2>1, <2>2
  <2>3. CASE a # "main"
    <3>1. job'["main"] = job["main"] /\ Is("main", "serving")
      BY <2>1, <2>3
    <3>2. Sound(V1)'
      BY <1>17, <3>1, SoundKept, Zenon DEF Quiet, MainInv, V1, Unset, Is
    <3>3. QED
      BY <3>1, <3>2
  <2>4. QED
    BY <2>2, <2>3
<1>18. ASSUME NEW a \in Threads, WriteSignature(a) PROVE MainInv'
  BY <1>18 DEF WriteSignature
<1>19. ASSUME NEW a \in Threads, ReadVersion(a) PROVE MainInv'
  BY <1>19 DEF ReadVersion
<1>20. ASSUME NEW a \in Threads, SetVersion(a) PROVE MainInv'
  BY <1>20 DEF SetVersion
<1>21. ASSUME NEW a \in Threads, SaveFails(a) PROVE MainInv'
  BY <1>21 DEF SaveFails
<1>22. ASSUME NEW a \in Threads, SetFails(a) PROVE MainInv'
  BY <1>22 DEF SetFails
<1>23. ASSUME NEW a \in Trainers, Begin(a) PROVE MainInv'
  <2>1. UNCHANGED <<pkl, sig, resaved, published, memory>> /\ job'["main"] = job["main"]
    BY <1>23 DEF Begin
  <2>2. QED
    BY <2>1
<1>24. ASSUME NEW a \in Trainers, TooFewRows(a) PROVE MainInv'
  BY <1>24 DEF TooFewRows
<1>25. CASE Tick
  BY <1>25 DEF Tick
<1>26. CASE Kill
  BY <1>26 DEF Kill
<1>27. QED
  BY <1>1, <1>2, <1>3, <1>4, <1>5, <1>6, <1>7, <1>8, <1>9, <1>10, <1>11, <1>12, <1>13, <1>14,
     <1>15, <1>16, <1>17, <1>18, <1>19, <1>20, <1>21, <1>22, <1>23, <1>24, <1>25, <1>26 DEF
     AnNext, StartupStep, LoadStep, TrainStep, ReloadStep, Failure

LEMMA ReloadInvStep ==
  ASSUME AnTypes, MainFirst, Quiet, [AnNext]_anVars, ~contended'
  PROVE  ReloadInv'
<1> USE ThreadFacts, VersionFacts DEF AnTypes, DataTypes, JobTypes, PlaceTypes, Job, Bundle,
        MainFirst, Quiet, Fitting, Loading, Dumping, PublishedInv, ReloadInv, MainInv,
        TrainerInv, Training, Fitted, Good, Sound, Whole, Same, Copied, Is, Goto, Mishap, disk, Fresh, Done,
        NotLoaded, Stopped
<1>0. Unset <= published
  BY DEF Versions
<1>1. CASE UNCHANGED anVars
  BY <1>1 DEF anVars
<1>2. CASE Connect
  BY <1>2 DEF Connect
<1>3. CASE ConnectFails
  BY <1>3 DEF ConnectFails
<1>4. CASE ReadTarget
  BY <1>4 DEF ReadTarget
<1>5. CASE ReadTargetFails
  BY <1>5 DEF ReadTargetFails
<1>6. CASE ReadModel("main")
  BY <1>6 DEF ReadModel
<1>7. CASE CheckSignature("main")
  BY <1>7 DEF CheckSignature
<1>8. CASE Install("main")
  BY <1>8 DEF Install, InMemory
<1>9. CASE Poll
  BY <1>9 DEF Poll
<1>10. CASE Compare
  <2>1. UNCHANGED <<pkl, published>>
    BY <1>10 DEF Compare
  <2>2. \/ job'["reload"].at = "sleeping" /\ job'["reload"].want = Unset
        \/ job'["reload"].at = "data" /\ job'["reload"].want = job["reload"].want
    BY <1>10 DEF Compare
  <2>3. Is("reload", "compare")
    BY <1>10 DEF Compare
  <2>4. QED
    BY <1>0, <2>1, <2>2, <2>3
<1>11. CASE ReadModel("reload")
  <2>1. UNCHANGED <<pkl, published>>
    BY <1>11 DEF ReadModel
  <2>2. \/ job'["reload"].at = "sleeping" /\ job'["reload"].want = Unset
        \/ /\ job'["reload"].at = "signature" /\ job'["reload"].want = job["reload"].want
              /\ job'["reload"].held = pkl[job["reload"].want]
    BY <1>11 DEF ReadModel
  <2>3. Is("reload", "data")
    BY <1>11 DEF ReadModel
  <2>4. QED
    BY <1>0, <2>1, <2>2, <2>3
<1>12. CASE CheckSignature("reload")
  <2>1. UNCHANGED <<pkl, published>>
    BY <1>12 DEF CheckSignature
  <2>2. \/ job'["reload"].at = "sleeping" /\ job'["reload"].want = Unset
        \/ /\ job'["reload"].at = "install" /\ job'["reload"].want = job["reload"].want
              /\ job'["reload"].held = job["reload"].held
    BY <1>12 DEF CheckSignature
  <2>3. Is("reload", "signature")
    BY <1>12 DEF CheckSignature
  <2>4. QED
    BY <1>0, <2>1, <2>2, <2>3
<1>13. CASE Install("reload")
  <2>1. UNCHANGED <<pkl, published>>
    BY <1>13 DEF Install, InMemory
  <2>2. \/ job'["reload"].at = "sleeping" /\ job'["reload"].want = Unset
    BY <1>13 DEF Install, InMemory
  <2>3. Is("reload", "install")
    BY <1>13 DEF Install, InMemory
  <2>4. QED
    BY <1>0, <2>1, <2>2, <2>3
<1>14. ASSUME NEW a \in Threads, Fit(a) PROVE ReloadInv'
  BY <1>14 DEF Fit
<1>15. ASSUME NEW a \in Threads, NameFile(a) PROVE ReloadInv'
  BY <1>15 DEF NameFile
<1>16. ASSUME NEW a \in Threads, ReadEntry(a) PROVE ReloadInv'
  BY SMTT(60), <1>16 DEF ReadEntry, NextEntry
<1>17. ASSUME NEW a \in Threads, WriteModel(a) PROVE ReloadInv'
  BY <1>17 DEF WriteModel
<1>18. ASSUME NEW a \in Threads, WriteSignature(a) PROVE ReloadInv'
  BY <1>18 DEF WriteSignature
<1>19. ASSUME NEW a \in Threads, ReadVersion(a) PROVE ReloadInv'
  BY <1>19 DEF ReadVersion
<1>20. ASSUME NEW a \in Threads, SetVersion(a) PROVE ReloadInv'
  BY <1>20 DEF SetVersion
<1>21. ASSUME NEW a \in Threads, SaveFails(a) PROVE ReloadInv'
  BY <1>21 DEF SaveFails
<1>22. ASSUME NEW a \in Threads, SetFails(a) PROVE ReloadInv'
  BY <1>22 DEF SetFails
<1>23. ASSUME NEW a \in Trainers, Begin(a) PROVE ReloadInv'
  BY <1>23 DEF Begin
<1>24. ASSUME NEW a \in Trainers, TooFewRows(a) PROVE ReloadInv'
  BY <1>24 DEF TooFewRows
<1>25. CASE Tick
  BY <1>25 DEF Tick
<1>26. CASE Kill
  <2>1. UNCHANGED published
    BY <1>26 DEF Kill
  <2>2. job'["reload"].at = "off" /\ job'["reload"].want = Unset
    BY <1>26 DEF Kill
  <2>3. QED
    BY <1>0, <2>1, <2>2
<1>27. CASE AnNext
  <2>1. CASE StartupStep \/ ConnectFails \/ ReadTargetFails
    BY <2>1, <1>2, <1>3, <1>4, <1>5 DEF StartupStep
  <2>2. CASE LoadStep("main") \/ ReloadStep
    BY <2>2, <1>6, <1>7, <1>8, <1>9, <1>10, <1>11, <1>12, <1>13 DEF LoadStep, ReloadStep
  <2>3. ASSUME NEW a \in Threads, TrainStep(a) \/ Failure(a) PROVE ReloadInv'
    BY <2>3, <1>14, <1>15, <1>16, <1>17, <1>18, <1>19, <1>20, <1>21, <1>22 DEF TrainStep, Failure
  <2>4. ASSUME NEW t \in Trainers, Begin(t) \/ TooFewRows(t) PROVE ReloadInv'
    BY <2>4, <1>23, <1>24
  <2>5. QED
    BY <1>27, <2>1, <2>2, <2>3, <2>4, <1>25, <1>26 DEF AnNext
<1>28. QED
  BY <1>1, <1>27, Zenon

LEMMA NotTraining ==
  ASSUME NEW t \in Trainers, job'[t].at \in {"off", "idle"}
  PROVE  TrainerInv(t)'
BY DEF TrainerInv, Training, Fitted, Is, Dumping

(* What another thread does without touching files, memory or version leaves a   *)
(* training as it was.                                                        *)
LEMMA TrainerKept ==
  ASSUME NEW t \in Trainers, TrainerInv(t),
         UNCHANGED <<pkl, sig, resaved, published, memory, clock, undone>>,
         job'[t] = job[t] \/ job'[t].at \in {"off", "idle"},
         job'["reload"].want \in {Unset, published, job["reload"].want},
         \A u \in Trainers : Training(u)' => Training(u)
  PROVE  TrainerInv(t)'
<1>1. CASE job'[t].at \in {"off", "idle"}
  BY <1>1, NotTraining
<1>2. CASE job'[t] = job[t]
  BY <1>2 DEF TrainerInv, Training, Fitted, Is, Good, Whole, Same, Copied
<1>3. QED
  BY <1>1, <1>2

(* The write of a model file: of the training's own, which keeps what it copied, *)
(* or of another thread's, beside which the training is not at work.           *)
LEMMA TrainerWrites ==
  ASSUME AnTypes, MainFirst, Quiet, NEW a \in Threads, WriteModel(a), NEW t \in Trainers
  PROVE  TrainerInv(t)'
<1>1. PICK data \in Bundle :
            /\ Same(data, job[a].held)
            /\ pkl' = [pkl EXCEPT ![job[a].name] = data]
            /\ job' = [job EXCEPT ![a].at = "sign", ![a].held = data]
            /\ Is(a, "model")
            /\ UNCHANGED <<published, memory, clock, undone>>
  BY ModelWritten
<1>2. /\ t \in Threads /\ t # "main" /\ "reload" \in Threads /\ a # "reload"
      /\ DOMAIN pkl = Versions /\ DOMAIN job = Threads
      /\ \A b \in Threads : DOMAIN job[b] = {"at", "want", "name", "held"}
  <2>1. t \in Threads /\ t # "main" /\ "reload" \in Threads
    BY ThreadFacts
  <2>2. a # "reload"
    BY <1>1 DEF AnTypes, PlaceTypes, Is, Loading
  <2>3. DOMAIN pkl = Versions /\ DOMAIN job = Threads
    BY DEF AnTypes, DataTypes, JobTypes
  <2>4. \A b \in Threads : DOMAIN job[b] = {"at", "want", "name", "held"}
    BY DEF AnTypes, JobTypes, Job
  <2>5. QED
    BY <2>1, <2>2, <2>3, <2>4
<1>3. \A b \in Threads \ {a} : job'[b] = job[b]
  BY <1>1, <1>2
<1>4. CASE a # t
  <2>1. job[t].at \in {"off", "idle"}
    BY <1>1, <1>2, <1>4, ThreadFacts DEF MainFirst, Quiet, TrainerInv, Training, Is
  <2>2. QED
    BY <2>1, <1>2, <1>3, <1>4, NotTraining
<1>5. CASE a = t
  <2>1. /\ job'[t].at = "sign" /\ job'[t].held = data
        /\ job'[t].want = job[t].want /\ job'[t].name = job[t].name
    BY <1>1, <1>2, <1>5
  <2>2. /\ Training(t) /\ Fitted(t) /\ TrainerInv(t) /\ job[t].at = "model"
        /\ job[t].name = memory.version => Same(job[t].held, memory)
    BY <1>1, <1>5 DEF Quiet, TrainerInv, Training, Fitted, Is, Copied, Dumping
  <2>3. job[t].name = memory.version => Same(data, memory)
    BY <1>1, <1>5, <2>2 DEF Same
  <2>4. job[t].name \in Versions
    <3>1. job[t].want \in Versions /\ published \in {Unset} \cup Versions
      BY <2>2, VersionFacts DEF TrainerInv, AnTypes, DataTypes
    <3>2. Whole(memory, job[t].want) \/ (published # Unset /\ Same(memory, pkl[published]))
      BY <2>2, Zenon DEF TrainerInv
    <3>3. published # Unset => pkl[published].version = published
      BY DEF Quiet, PublishedInv, Sound, Whole
    <3>4. memory.version \in {job[t].want, published} /\ memory.version \in Versions
      BY <3>1, <3>2, <3>3 DEF Whole, Same
    <3>5. QED
      BY <2>2, <3>1, <3>4 DEF TrainerInv, Dumping
  <2>5. pkl'[job[t].name] = data /\ \A v \in Versions : v # job[t].name => pkl'[v] = pkl[v]
    BY <1>1, <1>2, <1>5, <2>4
  <2>6. /\ \A u \in Trainers : Training(u)' => u = t
        /\ job'[t].want \in 1 .. clock' /\ published' < job'[t].want
    BY <1>1, <1>3, <1>5, <2>1, <2>2, ThreadFacts DEF TrainerInv, Training
  <2>7. job'["reload"].want \in {Unset, published'}
    BY <1>1, <1>2, <1>3, <1>5, <2>2 DEF TrainerInv
  <2>8. \/ Whole(memory', job'[t].want)
        \/ t \in undone' /\ published' # Unset /\ Same(memory', pkl'[published'])
    <3>1. published # Unset => published \in Versions
      BY DEF AnTypes, DataTypes
    <3>2. CASE job[t].name = published
      <4>1. job[t].name = memory.version
        BY <2>2, <3>2, VersionFacts DEF TrainerInv, Dumping, AnTypes, DataTypes
      <4>2. QED
        BY <1>1, <2>1, <2>2, <2>3, <2>5, <3>2, <4>1 DEF TrainerInv, Same
    <3>3. CASE job[t].name # published
      BY <1>1, <2>1, <2>2, <2>5, <3>1, <3>3 DEF TrainerInv
    <3>4. QED
      BY <3>2, <3>3
  <2>9. job[t].name = job[t].want \/ job[t].name = memory.version
    BY <2>2 DEF TrainerInv, Dumping
  <2>10. job[t].name = memory.version => Copied(t)'
    BY <1>1, <2>1, <2>3, <2>5 DEF Copied, Same, Is
  <2>11. QED
    BY <1>1, <2>1, <2>6, <2>7, <2>8, <2>9, <2>10 DEF TrainerInv, Is, Dumping
<1>6. QED
  BY <1>4, <1>5

LEMMA TrainerStep ==
  ASSUME AnTypes, MainFirst, Quiet, [AnNext]_anVars, ~contended', NEW t \in Trainers
  PROVE  TrainerInv(t)'
<1> USE ThreadFacts, VersionFacts DEF AnTypes, DataTypes, JobTypes, PlaceTypes, Job, Bundle,
        MainFirst, Quiet, Fitting, Loading, Dumping, PublishedInv, ReloadInv, MainInv,
        TrainerInv, Training, Fitted, Good, Sound, Whole, Same, Copied, Is, Goto, Mishap, disk, Fresh, Done,
        NotLoaded, Stopped
<1>1. CASE UNCHANGED anVars
  BY <1>1 DEF anVars
<1>2. CASE Connect
  <2>1. job'[t].at \in {"off", "idle"}
    BY <1>2 DEF Connect
  <2>2. QED
    BY <2>1, NotTraining
<1>3. CASE ConnectFails
  <2>1. job'[t].at \in {"off", "idle"}
    BY <1>3 DEF ConnectFails
  <2>2. QED
    BY <2>1, NotTraining
<1>4. CASE ReadTarget
  <2>1. job'[t].at \in {"off", "idle"}
    BY <1>4 DEF ReadTarget
  <2>2. QED
    BY <2>1, NotTraining
<1>5. CASE ReadTargetFails
  <2>1. job'[t].at \in {"off", "idle"}
    BY <1>5 DEF ReadTargetFails
  <2>2. QED
    BY <2>1, NotTraining
<1>6. CASE ReadModel("main")
  <2>1. job'[t].at \in {"off", "idle"}
    BY <1>6 DEF ReadModel
  <2>2. QED
    BY <2>1, NotTraining
<1>7. CASE CheckSignature("main")
  <2>1. job'[t].at \in {"off", "idle"}
    BY <1>7 DEF CheckSignature
  <2>2. QED
    BY <2>1, NotTraining
<1>8. CASE Install("main")
  <2>1. job'[t].at \in {"off", "idle"}
    BY <1>8 DEF Install, InMemory
  <2>2. QED
    BY <2>1, NotTraining
<1>9. CASE Poll
  <2>1. UNCHANGED <<pkl, sig, resaved, published, memory, clock, undone>>
    BY <1>9 DEF Poll
  <2>2. job'[t] = job[t] \/ job'[t].at \in {"off", "idle"}
    BY <1>9 DEF Poll
  <2>3. job'["reload"].want \in {Unset, published, job["reload"].want}
    BY <1>9 DEF Poll
  <2>4. \A u \in Trainers : Training(u)' => Training(u)
    BY <1>9 DEF Poll
  <2>5. QED
    BY <2>1, <2>2, <2>3, <2>4, TrainerKept
<1>10. CASE Compare
  <2>1. UNCHANGED <<pkl, sig, resaved, published, memory, clock, undone>>
    BY <1>10 DEF Compare
  <2>2. job'[t] = job[t] \/ job'[t].at \in {"off", "idle"}
    BY <1>10 DEF Compare
  <2>3. job'["reload"].want \in {Unset, published, job["reload"].want}
    BY <1>10 DEF Compare
  <2>4. \A u \in Trainers : Training(u)' => Training(u)
    <3>1. \A u \in Trainers : job'[u] = job[u]
      BY <1>10 DEF Compare
    <3>2. QED
      BY <3>1
  <2>5. QED
    BY <2>1, <2>2, <2>3, <2>4, TrainerKept
<1>11. CASE ReadModel("reload")
  <2>1. UNCHANGED <<pkl, sig, resaved, published, memory, clock, undone>>
    BY <1>11 DEF ReadModel
  <2>2. job'[t] = job[t] \/ job'[t].at \in {"off", "idle"}
    BY <1>11 DEF ReadModel
  <2>3. job'["reload"].want \in {Unset, published, job["reload"].want}
    BY <1>11 DEF ReadModel
  <2>4. \A u \in Trainers : Training(u)' => Training(u)
    <3>1. \A u \in Trainers : job'[u] = job[u]
      BY <1>11 DEF ReadModel
    <3>2. QED
      BY <3>1
  <2>5. QED
    BY <2>1, <2>2, <2>3, <2>4, TrainerKept
<1>12. CASE CheckSignature("reload")
  <2>1. UNCHANGED <<pkl, sig, resaved, published, memory, clock, undone>>
    BY <1>12 DEF CheckSignature
  <2>2. job'[t] = job[t] \/ job'[t].at \in {"off", "idle"}
    BY <1>12 DEF CheckSignature
  <2>3. job'["reload"].want \in {Unset, published, job["reload"].want}
    BY <1>12 DEF CheckSignature
  <2>4. \A u \in Trainers : Training(u)' => Training(u)
    <3>1. \A u \in Trainers : job'[u] = job[u]
      BY <1>12 DEF CheckSignature
    <3>2. QED
      BY <3>1
  <2>5. QED
    BY <2>1, <2>2, <2>3, <2>4, TrainerKept
<1>13. CASE Install("reload")
  BY <1>13 DEF Install, InMemory
<1>14. ASSUME NEW a \in Threads, Fit(a) PROVE TrainerInv(t)'
  <2>1. CASE a = t
    <3>1. /\ UNCHANGED <<pkl, sig, published, clock, undone>>
          /\ \A u \in Threads : u # t => job'[u] = job[u]
          /\ job'[t].at = "path" /\ job'[t].want = job[t].want
          /\ Whole(memory', job[t].want)
      BY <1>14, <2>1 DEF Fit
    <3>0. job["reload"].want \in {Unset, published}
      <4>1. contended' = (contended \/ (job["reload"].want \notin {Unset, published}))
        BY <1>14, <2>1 DEF Fit
      <4>2. QED
        BY <4>1, Zenon
    <3>2. Training(t)
      BY <1>14, <2>1 DEF Fit
    <3>3. QED
      BY <3>0, <3>1, <3>2
  <2>2. CASE a = "main"
    <3>1. job'[t].at \in {"off", "idle"}
      BY <1>14, <2>2 DEF Fit
    <3>2. QED
      BY <3>1, NotTraining
  <2>3. CASE a # t /\ a \in Trainers
    BY <1>14, <2>3 DEF Fit
  <2>4. QED
    BY <1>14, <2>1, <2>2, <2>3 DEF Fit
<1>15. ASSUME NEW a \in Threads, NameFile(a) PROVE TrainerInv(t)'
  <2>1. CASE a = t
    <3>1. /\ UNCHANGED <<pkl, sig, resaved, published, memory, clock, undone>>
          /\ \A u \in Threads : u # t => job'[u] = job[u]
          /\ job'[t].at = "estimator" /\ job'[t].want = job[t].want
          /\ job'[t].name = memory.version
      BY <1>15, <2>1 DEF NameFile
    <3>2. Is(t, "path")
      BY <1>15, <2>1 DEF NameFile
    <3>3. QED
      BY <3>1, <3>2
  <2>2. CASE a # t
    <3>1. UNCHANGED <<pkl, sig, resaved, published, memory, clock, undone>>
      BY <1>15, <2>2 DEF NameFile
    <3>2. job'[t] = job[t] \/ job'[t].at \in {"off", "idle"}
      BY <1>15, <2>2 DEF NameFile
    <3>3. job'["reload"].want \in {Unset, published, job["reload"].want}
      BY <1>15, <2>2 DEF NameFile
    <3>4. \A u \in Trainers : Training(u)' => Training(u)
      BY <1>15, <2>2 DEF NameFile
    <3>5. QED
      BY <3>1, <3>2, <3>3, <3>4, TrainerKept
  <2>3. QED
    BY <2>1, <2>2
<1>16. ASSUME NEW a \in Threads, ReadEntry(a) PROVE TrainerInv(t)'
  <2>1. CASE a # t
    <3>1. UNCHANGED <<pkl, sig, resaved, published, memory, clock, undone>>
      BY <1>16, <2>1 DEF ReadEntry, NextEntry
    <3>2. job'[t] = job[t] \/ job'[t].at \in {"off", "idle"}
      BY <1>16, <2>1 DEF ReadEntry, NextEntry
    <3>3. job'["reload"].want \in {Unset, published, job["reload"].want}
      BY <1>16, <2>1 DEF ReadEntry, NextEntry
    <3>4. \A u \in Trainers : Training(u)' => Training(u)
      BY <1>16, <2>1 DEF ReadEntry, NextEntry
    <3>5. QED
      BY <3>1, <3>2, <3>3, <3>4, TrainerKept
  <2>2. CASE a = t /\ Is(t, "estimator")
    BY SMTT(60), <1>16, <2>2 DEF ReadEntry, NextEntry
  <2>3. CASE a = t /\ Is(t, "version")
    BY SMTT(60), <1>16, <2>3 DEF ReadEntry, NextEntry
  <2>4. CASE a = t /\ Is(t, "scale")
    BY <1>16, <2>4 DEF ReadEntry, NextEntry
  <2>5. QED
    BY <1>16, <2>1, <2>2, <2>3, <2>4 DEF ReadEntry, NextEntry
<1>17. ASSUME NEW a \in Threads, WriteModel(a) PROVE TrainerInv(t)'
  BY <1>17, TrainerWrites, Zenon
<1>18. ASSUME NEW a \in Threads, WriteSignature(a) PROVE TrainerInv(t)'
  BY <1>18 DEF WriteSignature
<1>19. ASSUME NEW a \in Threads, ReadVersion(a) PROVE TrainerInv(t)'
  <2>1. CASE a = t
    <3>1. /\ UNCHANGED <<pkl, sig, resaved, published, memory, clock, undone>>
          /\ \A u \in Threads : u # t => job'[u] = job[u]
          /\ clock > job[t].want
          /\ \/ job'[t].at = "idle"
             \/ job'[t].at = "set" /\ job'[t].want = job[t].want /\ job'[t].name = memory.version
      BY <1>19, <2>1 DEF ReadVersion
    <3>2. Is(t, "label")
      BY <1>19, <2>1 DEF ReadVersion
    <3>3. QED
      BY <3>1, <3>2
  <2>2. CASE a # t
    <3>1. /\ UNCHANGED <<pkl, sig, resaved, published, memory, clock, undone>>
          /\ Training(t)' => Training(t) /\ job'[t] = job[t]
          /\ Training(t)' => a \in Trainers /\ Training(a)
      BY <1>19, <2>2 DEF ReadVersion
    <3>2. ~Training(t)'
      BY <2>2, <3>1
    <3>3. QED
      BY <3>2
  <2>3. QED
    BY <2>1, <2>2
<1>20. ASSUME NEW a \in Threads, SetVersion(a) PROVE TrainerInv(t)'
  <2>1. CASE a \in Trainers
    <3>1. Training(a) /\ job'[a].at = "idle" /\ (a # t => job'[t] = job[t])
      BY <1>20, <2>1 DEF SetVersion
    <3>2. ~Training(t)'
      BY <2>1, <3>1
    <3>3. QED
      BY <3>2, NotTraining
  <2>2. CASE a = "main"
    <3>1. job'[t].at \in {"off", "idle"}
      BY <1>20, <2>2 DEF SetVersion
    <3>2. QED
      BY <3>1, NotTraining
  <2>3. QED
    BY <1>20, <2>1, <2>2 DEF SetVersion
<1>21. ASSUME NEW a \in Threads, SaveFails(a) PROVE TrainerInv(t)'
  <2>1. CASE a = "main"
    <3>1. job'[t].at \in {"off", "idle"}
      BY <1>21, <2>1 DEF SaveFails
    <3>2. QED
      BY <3>1, NotTraining
  <2>2. CASE a # "main"
    <3>1. UNCHANGED <<pkl, sig, resaved, published, memory, clock, undone>>
      BY <1>21, <2>2 DEF SaveFails
    <3>2. job'[t] = job[t] \/ job'[t].at \in {"off", "idle"}
      BY <1>21, <2>2 DEF SaveFails
    <3>3. job'["reload"].want \in {Unset, published, job["reload"].want}
      BY <1>21, <2>2 DEF SaveFails
    <3>4. \A u \in Trainers : Training(u)' => Training(u)
      <4>1. \A u \in Trainers : job'[u] = job[u] \/ job'[u].at = "idle"
        BY <1>21, <2>2 DEF SaveFails
      <4>2. QED
        BY <4>1
    <3>5. QED
      BY <3>1, <3>2, <3>3, <3>4, TrainerKept
  <2>3. QED
    BY <2>1, <2>2
<1>22. ASSUME NEW a \in Threads, SetFails(a) PROVE TrainerInv(t)'
  <2>1. UNCHANGED <<pkl, sig, resaved, published, memory, clock, undone>>
    BY <1>22 DEF SetFails
  <2>2. job'[t] = job[t] \/ job'[t].at \in {"off", "idle"}
    BY <1>22 DEF SetFails
  <2>3. job'["reload"].want \in {Unset, published, job["reload"].want}
    BY <1>22 DEF SetFails
  <2>4. \A u \in Trainers : Training(u)' => Training(u)
    BY <1>22 DEF SetFails
  <2>5. QED
    BY <2>1, <2>2, <2>3, <2>4, TrainerKept
<1>23. ASSUME NEW a \in Trainers, Begin(a) PROVE TrainerInv(t)'
  <2>1. CASE a = t
    <3>1. \A u \in Trainers : ~Training(u)
      <4>1. contended' = (contended \/ \E u \in Trainers : Training(u))
        BY <1>23, <2>1 DEF Begin
      <4> HIDE DEF Training
      <4>2. QED
        BY <4>1, Zenon
    <3>2. /\ UNCHANGED <<published, clock>>
          /\ \A u \in Trainers : u # t => job'[u] = job[u]
          /\ job'[t].at = "fit" /\ job'[t].want = clock
      BY <1>23, <2>1 DEF Begin
    <3>3. QED
      BY <3>1, <3>2
  <2>2. CASE a # t
    BY <1>23, <2>2 DEF Begin
  <2>3. QED
    BY <2>1, <2>2
<1>24. ASSUME NEW a \in Trainers, TooFewRows(a) PROVE TrainerInv(t)'
  <2>1. UNCHANGED <<pkl, sig, resaved, published, memory, clock, undone>>
    BY <1>24 DEF TooFewRows
  <2>2. job'[t] = job[t] \/ job'[t].at \in {"off", "idle"}
    BY <1>24 DEF TooFewRows
  <2>3. job'["reload"].want \in {Unset, published, job["reload"].want}
    BY <1>24 DEF TooFewRows
  <2>4. \A u \in Trainers : Training(u)' => Training(u)
    BY <1>24 DEF TooFewRows
  <2>5. QED
    BY <2>1, <2>2, <2>3, <2>4, TrainerKept
<1>25. CASE Tick
  BY <1>25 DEF Tick
<1>26. CASE Kill
  <2>1. job'[t].at \in {"off", "idle"}
    BY <1>26 DEF Kill
  <2>2. QED
    BY <2>1, NotTraining
<1>27. QED
  BY <1>1, <1>2, <1>3, <1>4, <1>5, <1>6, <1>7, <1>8, <1>9, <1>10, <1>11, <1>12, <1>13, <1>14,
     <1>15, <1>16, <1>17, <1>18, <1>19, <1>20, <1>21, <1>22, <1>23, <1>24, <1>25, <1>26 DEF
     AnNext, StartupStep, LoadStep, TrainStep, ReloadStep, Failure

LEMMA NextInv ==
  ASSUME AnIInv, [AnNext]_anVars
  PROVE  AnIInv'
<1>1. AnTypes'
  BY TypesStep DEF AnIInv
<1>2. MainFirst'
  BY MainFirstStep DEF AnIInv
<1>3. ASSUME ~contended' PROVE Quiet'
  <2>1. ~contended
    <3>1. \/ UNCHANGED contended
          \/ \E t \in Trainers : Begin(t)
          \/ \E a \in Threads : Fit(a)
      BY DEF AnNext, anVars, StartupStep, LoadStep, TrainStep, ReloadStep, Failure,
             Connect, ConnectFails, ReadTarget, ReadTargetFails, ReadModel, CheckSignature, Install,
             NameFile, ReadEntry, WriteModel, WriteSignature, SaveFails, ReadVersion, SetVersion,
             SetFails, TooFewRows, Poll, Compare, Tick, Kill
    <3>2. ASSUME NEW t \in Trainers, Begin(t) PROVE ~contended
      BY <1>3, <3>2, Zenon DEF Begin
    <3>3. ASSUME NEW a \in Threads, Fit(a) PROVE ~contended
      BY <1>3, <3>3, Zenon DEF Fit
    <3>4. QED
      BY <1>3, <3>1, <3>2, <3>3
  <2>2. AnTypes /\ MainFirst /\ Quiet
    BY <2>1 DEF AnIInv
  <2>3. PublishedInv' /\ MainInv' /\ ReloadInv'
    BY <1>3, <2>2, PublishedStep, MainStep, ReloadInvStep
  <2>4. ASSUME NEW t \in Trainers PROVE TrainerInv(t)'
    BY <1>3, <2>2, TrainerStep
  <2>5. QED
    BY <2>3, <2>4 DEF Quiet
<1>4. QED
  BY <1>1, <1>2, <1>3 DEF AnIInv

LEMMA Invariance == AnSpec => []AnIInv
<1>1. AnInit => AnIInv
  BY InitInv
<1>2. AnIInv /\ [AnNext]_anVars => AnIInv'
  BY NextInv
<1>3. QED
  BY <1>1, <1>2, PTL DEF AnSpec

(* However startups, reloads, retrains, failed writes and kills interleave, the  *)
(* version Redis names has a file of that name and of one fit, and one that load *)
(* accepts unless it was saved over and is not signed again - until two          *)
(* trainings are at work at once, or one fits while hot reload works on an older *)
(* answer of Redis (model.py:91-120, app.py:142-153).                          *)
THEOREM PublishedLoads == AnSpec => []PublishedPairIsConsistent
<1>1. AnIInv => PublishedPairIsConsistent
  <2> SUFFICES ASSUME AnIInv, ~contended, published # Unset PROVE PublishedPairIsConsistent
    BY DEF PublishedPairIsConsistent
  <2>1. Sound(published)
    BY DEF AnIInv, Quiet, PublishedInv
  <2>2. QED
    BY <2>1 DEF PublishedPairIsConsistent, Sound, Whole, Nothing
<1>2. QED
  BY <1>1, Invariance, PTL

(* A retrain publishes its own version, or the one that is published already and *)
(* only if hot reload put it back over the retrain's fit.  It may publish a      *)
(* third where another training overlaps, or where it fitted while hot reload    *)
(* was at work on an older answer of Redis (app.py:142-153, model.py:195-209). *)
THEOREM RetrainHolds == AnSpec => []RetrainTakesHold
<1>1. AnIInv => RetrainTakesHold
  <2> SUFFICES ASSUME AnIInv, NEW t \in Trainers, Is(t, "set"), ~contended
               PROVE  \/ job[t].name = job[t].want
                      \/ t \in undone /\ job[t].name = published
    BY DEF RetrainTakesHold
  <2>1. TrainerInv(t)
    BY DEF AnIInv, Quiet
  <2>2. QED
    BY <2>1 DEF TrainerInv
<1>2. QED
  BY <1>1, Invariance, PTL

(* No step puts an older version into Redis, until two trainings are at work at  *)
(* once, one fits while hot reload works on an older answer of Redis, or v1.0 is *)
(* saved over: a startup that cannot read Redis trains it anew when it finds it  *)
(* not signed (app.py:60-82).                                                 *)
THEOREM NeverBackwards == AnSpec => NeverPublishedBackwards
<1>1. AnIInv /\ [AnNext]_anVars
         => [~contended /\ resaved[V1] = "no" => published' >= published]_anVars
  <2> SUFFICES ASSUME AnIInv, AnNext, ~contended, resaved[V1] = "no" PROVE published' >= published
    OBVIOUS
  <2>1. published \in Int
    BY VersionFacts DEF AnIInv, AnTypes, DataTypes
  <2>2. ASSUME NEW a \in Threads, SetVersion(a) PROVE published' >= published
    <3>1. published' = job[a].name /\ Is(a, "set")
      BY <2>2 DEF SetVersion
    <3>2. CASE a \in Trainers
      <4>1. TrainerInv(a)
        BY <3>2 DEF AnIInv, Quiet
      <4>2. QED
        BY <2>1, <3>1, <3>2, <4>1 DEF TrainerInv, Training, Is
    <3>3. CASE a = "main"
      <4>1. /\ job["main"].name = job["main"].want
            /\ (published = Unset /\ job["main"].want = V1) \/ job["main"].want = published
        BY <3>1, <3>3 DEF AnIInv, Quiet, MainInv, Fitting, Is
      <4>2. QED
        BY <2>1, <3>1, <3>3, <4>1, VersionFacts
    <3>4. a # "reload"
      BY <3>1 DEF AnIInv, AnTypes, PlaceTypes, Loading, Is
    <3>5. QED
      BY <3>2, <3>3, <3>4, ThreadFacts
  <2>3. UNCHANGED published \/ \E a \in Threads : SetVersion(a)
    BY DEF AnNext, StartupStep, LoadStep, TrainStep, ReloadStep, Failure,
           Connect, ConnectFails, ReadTarget, ReadTargetFails, ReadModel, CheckSignature, Install,
           Fit, NameFile, ReadEntry, WriteModel, WriteSignature, SaveFails, ReadVersion,
           SetFails, Begin, TooFewRows, Poll, Compare, Tick, Kill
  <2>4. QED
    BY <2>1, <2>2, <2>3
<1>2. QED
  BY <1>1, Invariance, PTL DEF AnSpec, NeverPublishedBackwards

(* The forests in the files, in memory and in the bundles being saved have all  *)
(* been fitted: their numbers are at most the counter of fits.                 *)
FitsInv ==
    /\ mishaps <= MaxMishaps
    /\ pkl \in [Versions -> Bundles] /\ sig \in [Versions -> Bundles] /\ memory \in Bundles
    /\ \A a \in Threads : job[a].held \in Bundles

(* What a thread holds: what it held, nothing, a file, or one more entry of     *)
(* what is in memory, or other bytes of the same.                              *)
SavedFrom(old, new) ==
    \/ new \in {old, Nothing} \cup {pkl[v] : v \in Versions}
    \/ \E copy \in Copies : new = [old EXCEPT !.copy = copy]
    \/ \E e \in {"estimator", "version", "scale"} : new = [old EXCEPT ![e] = memory[e]]
Held == \A b \in Threads : SavedFrom(job[b].held, job'[b].held)

LEMMA HeldOnly ==
  ASSUME JobTypes, NEW a \in Threads, NEW p, Done(a) \/ NotLoaded(a) \/ Goto(a, p)
  PROVE  \A b \in Threads : job'[b].held \in {job[b].held, Nothing}
<1>1. \A q : Fresh(q).held = Nothing
  BY DEF Fresh
<1>2. ASSUME NEW q, Goto(a, q) PROVE \A b \in Threads : job'[b].held = job[b].held
  BY <1>2 DEF Goto, JobTypes, Job
<1>3. ASSUME Done(a) PROVE \A b \in Threads : job'[b].held \in {job[b].held, Nothing}
  <2>1. CASE a = "main"
    <3>1. \E f : job' = [b \in Threads |-> Fresh(CASE b = "main"   -> "serving"
                                                   [] b = "reload" -> "sleeping"
                                                   [] OTHER        -> "idle")]
      BY <1>3, <2>1 DEF Done
    <3>2. QED
      BY <1>1, <3>1
  <2>2. CASE a # "main"
    <3>1. \E q : job' = [job EXCEPT ![a] = Fresh(q)]
      BY <1>3, <2>2 DEF Done
    <3>2. QED
      BY <1>1, <3>1 DEF JobTypes
  <2>3. QED
    BY <2>1, <2>2
<1>4. QED
  BY <1>2, <1>3 DEF NotLoaded

LEMMA HeldStep == ASSUME AnTypes, [AnNext]_anVars PROVE Held
<1> USE DEF AnTypes, JobTypes, Goto, Held, SavedFrom
<1>1. ASSUME \A b \in Threads : job'[b].held \in {job[b].held, Nothing} PROVE Held
  BY <1>1
<1>2. ASSUME NEW a \in Threads, NEW f, f.held = job[a].held, job' = [job EXCEPT ![a] = f] PROVE Held
  BY <1>2
<1>3. ASSUME job' = job \/ \E f : (f.held = Nothing /\ job' = [a \in Threads |-> f]) PROVE Held
  BY <1>3
<1>4. Fresh("off").held = Nothing
  BY DEF Fresh
<1>5. "main" \in Threads /\ "reload" \in Threads /\ Trainers \subseteq Threads
  BY ThreadFacts
<1>6. CASE Connect \/ Compare \/ \E a \in Threads : \/ CheckSignature(a) \/ Install(a) \/ Fit(a)
                                                     \/ WriteSignature(a) \/ SetVersion(a)
                                                     \/ SetFails(a)
  <2>1. \E a \in Threads : \E p : Done(a) \/ NotLoaded(a) \/ Goto(a, p)
    BY <1>5, <1>6, Zenon DEF Connect, Compare, CheckSignature, Install, Fit,
       WriteSignature, SetVersion, SetFails
  <2>2. QED
    BY <1>1, <2>1, HeldOnly
<1>7. CASE ConnectFails \/ ReadTarget \/ ReadTargetFails \/ Poll
  <2>1. PICK a, p, w : job' = [job EXCEPT ![a].at = p, ![a].want = w]
    BY <1>5, <1>7, Zenon DEF ConnectFails, ReadTarget, ReadTargetFails, Poll
  <2>2. \A b \in Threads : job'[b].held = job[b].held
    BY <2>1 DEF Job
  <2>3. QED
    BY <1>1, <2>2
<1>8. ASSUME NEW a \in Threads, ReadModel(a) PROVE Held
  <2>1. \/ NotLoaded(a)
        \/ job' = [job EXCEPT ![a].at = "signature", ![a].held = pkl[job[a].want]]
    BY <1>8 DEF ReadModel
  <2>2. CASE NotLoaded(a)
    BY <1>1, <2>2, HeldOnly
  <2>3. CASE job' = [job EXCEPT ![a].at = "signature", ![a].held = pkl[job[a].want]]
    <3>1. job[a].want \in Versions
      BY <1>8 DEF ReadModel, Is, PlaceTypes, Loading
    <3> DEFINE data == pkl[job[a].want]
    <3>2. job' = [job EXCEPT ![a].at = "signature", ![a].held = data]
      BY <2>3
    <3> HIDE DEF data
    <3>3. \A b \in Threads : job'[b].held \in {job[b].held, data}
      BY <3>2 DEF Job
    <3>4. QED
      BY <3>1, <3>3 DEF data
  <2>4. QED
    BY <2>1, <2>2, <2>3
<1>9. ASSUME NEW a \in Threads, NameFile(a) PROVE Held
  <2>1. PICK p, w : job' = [job EXCEPT ![a].at = p, ![a].name = w]
    BY <1>9, Zenon DEF NameFile
  <2>2. \A b \in Threads : job'[b].held = job[b].held
    BY <2>1 DEF Job
  <2>3. QED
    BY <1>1, <2>2
<1>10. ASSUME NEW a \in Threads, ReadEntry(a) PROVE Held
  <2>1. job[a].at \in {"estimator", "version", "scale"}
    BY <1>10 DEF ReadEntry, NextEntry
  <2>2. PICK e \in {"estimator", "version", "scale"} : \E p :
            job' = [job EXCEPT ![a].at = p, ![a].held[e] = memory[e]]
    BY <1>10, <2>1 DEF ReadEntry
  <2>3. \A b \in Threads : \/ job'[b].held = job[b].held
                           \/ job'[b].held = [job[b].held EXCEPT ![e] = memory[e]]
    BY <2>2 DEF Job
  <2>4. QED
    BY <2>3
<1>11. ASSUME NEW a \in Threads, SaveFails(a) PROVE Held
  <2>1. Done(a) \/ job' = [b \in Threads |-> Fresh("off")]
    BY <1>11 DEF SaveFails, Stopped
  <2>2. QED
    BY <1>1, <1>3, <1>4, <2>1, HeldOnly
<1>12. ASSUME NEW a \in Threads, ReadVersion(a) PROVE Held
  <2>1. Done(a) \/ \E p, w : job' = [job EXCEPT ![a].at = p, ![a].name = w]
    BY <1>12 DEF ReadVersion
  <2>2. CASE Done(a)
    BY <1>1, <2>2, HeldOnly
  <2>3. ASSUME NEW p, NEW w, job' = [job EXCEPT ![a].at = p, ![a].name = w] PROVE Held
    <3>1. \A b \in Threads : job'[b].held = job[b].held
      BY <2>3 DEF Job
    <3>2. QED
      BY <1>1, <3>1
  <2>4. QED
    BY <2>1, <2>2, <2>3
<1>13. ASSUME NEW t \in Trainers, Begin(t) PROVE Held
  <2>1. PICK p, w : job' = [job EXCEPT ![t].at = p, ![t].want = w]
    BY <1>13, Zenon DEF Begin
  <2>2. \A b \in Threads : job'[b].held = job[b].held
    BY <2>1 DEF Job
  <2>3. QED
    BY <1>1, <2>2
<1>14. ASSUME NEW t \in Trainers, TooFewRows(t) PROVE Held
  BY <1>1, <1>5, <1>14, HeldOnly DEF TooFewRows
<1>17. ASSUME NEW a \in Threads, WriteModel(a) PROVE Held
  <2>1. PICK copy \in Copies :
            job' = [job EXCEPT ![a].at = "sign", ![a].held = [job[a].held EXCEPT !.copy = copy]]
    BY <1>17, Zenon DEF WriteModel
  <2>2. \A b \in Threads : \/ job'[b].held = job[b].held
                           \/ job'[b].held = [job[b].held EXCEPT !.copy = copy]
    BY <2>1 DEF Job
  <2>3. QED
    BY <2>2
<1>15. CASE Tick \/ Kill \/ UNCHANGED anVars
  BY <1>3, <1>4, <1>15 DEF Tick, Kill, Stopped, anVars
<1> HIDE DEF Held
<1>16. QED
  BY <1>5, <1>6, <1>7, <1>8, <1>9, <1>10, <1>11, <1>12, <1>13, <1>14, <1>15, <1>17
  DEF AnNext, StartupStep, LoadStep, TrainStep, ReloadStep, Failure

(* The files take what a thread holds, the memory what one holds, nothing or a  *)
(* new fit.                                                                   *)
LEMMA FilesStep ==
  ASSUME AnTypes, [AnNext]_anVars
  PROVE  /\ mishaps' = mishaps \/ (mishaps < MaxMishaps /\ mishaps' = mishaps + 1)
         /\ \/ pkl' = pkl
            \/ \E a \in Threads : \E v : \E copy \in Copies :
                  pkl' = [pkl EXCEPT ![v] = [job[a].held EXCEPT !.copy = copy]]
         /\ sig' = sig \/ \E a \in Threads : \E v : sig' = [sig EXCEPT ![v] = job[a].held]
         /\ \/ fits' = fits /\ (memory' \in {memory, Nothing} \/ \E a \in Threads : memory' = InMemory(job[a].held))
            \/ /\ fits' = fits + 1
               /\ \E v \in {Unset} \cup Versions :
                     memory' = [estimator |-> fits + 1, version |-> v, scale |-> fits + 1, copy |-> 0]
<1>1. "main" \in Threads /\ "reload" \in Threads /\ Trainers \subseteq Threads
  BY ThreadFacts
<1>2. \A a \in Threads : job[a].want \in {Unset} \cup Versions
  BY DEF AnTypes, JobTypes, Job
<1>3. mishaps' = mishaps \/ (mishaps < MaxMishaps /\ mishaps' = mishaps + 1)
  <2>1. UNCHANGED mishaps \/ Mishap
    BY Zenon DEF AnNext, StartupStep, LoadStep, TrainStep, ReloadStep, Failure, anVars,
       Connect, ConnectFails, ReadTarget, ReadTargetFails, ReadModel, CheckSignature, Install,
       Fit, NameFile, ReadEntry, WriteModel, WriteSignature, SaveFails, ReadVersion,
       SetVersion, SetFails, Begin, TooFewRows, Poll, Compare, Tick, Kill
  <2>2. QED
    BY <2>1 DEF Mishap
<1>4. UNCHANGED disk \/ (\E a \in Threads : WriteModel(a) \/ WriteSignature(a))
  BY <1>1, Zenon DEF AnNext, StartupStep, LoadStep, TrainStep, ReloadStep, Failure, anVars,
     Connect, ConnectFails, ReadTarget, ReadTargetFails, ReadModel, CheckSignature, Install,
     Fit, NameFile, ReadEntry, SaveFails, ReadVersion,
     SetVersion, SetFails, Begin, TooFewRows, Poll, Compare, Tick, Kill
<1>10. ASSUME NEW a \in Threads, WriteModel(a)
       PROVE  /\ \E v : \E copy \in Copies : pkl' = [pkl EXCEPT ![v] = [job[a].held EXCEPT !.copy = copy]]
              /\ sig' = sig
  BY <1>10, Zenon DEF WriteModel
<1>11. ASSUME NEW a \in Threads, WriteSignature(a)
       PROVE  pkl' = pkl /\ \E v : sig' = [sig EXCEPT ![v] = job[a].held]
  BY <1>11, Zenon DEF WriteSignature
<1>5. /\ \/ pkl' = pkl
         \/ \E a \in Threads : \E v : \E copy \in Copies :
               pkl' = [pkl EXCEPT ![v] = [job[a].held EXCEPT !.copy = copy]]
      /\ sig' = sig \/ \E a \in Threads : \E v : sig' = [sig EXCEPT ![v] = job[a].held]
  BY <1>4, <1>10, <1>11, Zenon DEF disk
<1>6. \/ fits' = fits /\ memory' \in {memory, Nothing}
      \/ \E a \in Threads : Install(a) \/ Fit(a)
  BY <1>1, Zenon DEF AnNext, StartupStep, LoadStep, TrainStep, ReloadStep, Failure, anVars,
     Connect, ConnectFails, ReadTarget, ReadTargetFails, ReadModel, CheckSignature, Stopped,
     NameFile, ReadEntry, SaveFails, ReadVersion, WriteModel, WriteSignature,
     SetVersion, SetFails, Begin, TooFewRows, Poll, Compare, Tick, Kill
<1>7. ASSUME NEW a \in Threads, Install(a) PROVE fits' = fits /\ memory' = InMemory(job[a].held)
  BY <1>7, Zenon DEF Install
<1>8. ASSUME NEW a \in Threads, Fit(a)
      PROVE  /\ fits' = fits + 1
             /\ memory' = [estimator |-> fits + 1, version |-> job[a].want, scale |-> fits + 1,
                           copy |-> 0]
  BY <1>8, Zenon DEF Fit
<1>9. QED
  BY <1>2, <1>3, <1>5, <1>6, <1>7, <1>8

LEMMA FitsStep == ASSUME AnTypes, FitsInv, [AnNext]_anVars PROVE FitsInv'
<1>1. fits \in Nat /\ mishaps \in Nat /\ MaxMishaps \in Nat
  BY VersionFacts DEF AnTypes, DataTypes
<1>2. fits' = fits \/ fits' = fits + 1
  BY FilesStep
<1>3. Bundles \subseteq Bundles'
  BY <1>1, <1>2 DEF Bundles
<1>4. Nothing \in Bundles
  BY <1>1 DEF Nothing, Bundles
<1>5. \A a \in Threads : job'[a].held \in Bundles
  <2>1. \A b, m \in Bundles : \A e \in {"estimator", "version", "scale"} : [b EXCEPT ![e] = m[e]] \in Bundles
    BY DEF Bundles
  <2>2. memory \in Bundles /\ \A v \in Versions : pkl[v] \in Bundles
    BY DEF FitsInv
  <2>3. ASSUME NEW old \in Bundles, NEW new, SavedFrom(old, new) PROVE new \in Bundles
    <3>1. new = old \/ new = Nothing \/ (\E v \in Versions : new = pkl[v]) \/
              (\E copy \in Copies : new = [old EXCEPT !.copy = copy]) \/
              (\E e \in {"estimator", "version", "scale"} : new = [old EXCEPT ![e] = memory[e]])
      BY <2>3, Zenon DEF SavedFrom
    <3>2. \A e \in {"estimator", "version", "scale"} : [old EXCEPT ![e] = memory[e]] \in Bundles
      BY <2>1, <2>2, Zenon
    <3>4. \A copy \in Copies : [old EXCEPT !.copy = copy] \in Bundles
      BY DEF Bundles
    <3>3. QED
      BY <1>4, <2>2, <3>1, <3>2, <3>4, Zenon
  <2>4. QED
    BY <2>3, HeldStep DEF Held, FitsInv
<1>6. pkl' \in [Versions -> Bundles] /\ sig' \in [Versions -> Bundles]
  <2>1. \A a \in Threads : \A copy \in Copies : [job[a].held EXCEPT !.copy = copy] \in Bundles
    BY DEF FitsInv, Bundles
  <2>2. QED
    BY <2>1, FilesStep DEF FitsInv
<1>7. memory' \in Bundles'
  <2>1. CASE memory' \in {memory, Nothing} \/ \E a \in Threads : memory' = InMemory(job[a].held)
    <3>1. \A b \in Bundles : InMemory(b) \in Bundles
      BY DEF Bundles, InMemory
    <3>2. QED
      BY <1>3, <1>4, <2>1, <3>1 DEF FitsInv
  <2>2. ASSUME fits' = fits + 1, NEW v \in {Unset} \cup Versions,
               memory' = [estimator |-> fits + 1, version |-> v, scale |-> fits + 1, copy |-> 0]
        PROVE  memory' \in Bundles'
    BY <1>1, <2>2 DEF Bundles
  <2>3. QED
    BY <2>1, <2>2, FilesStep
<1>8. mishaps' <= MaxMishaps
  BY <1>1, FilesStep DEF FitsInv
<1>9. QED
  BY <1>3, <1>5, <1>6, <1>7, <1>8 DEF FitsInv

(* The types of the anomaly service: a thread is where its function has a line, *)
(* and no file, no bundle and no memory names a fit that was not made          *)
(* (train.py:56-222, app.py:94-187).                                          *)
THEOREM AnTypeCorrect == AnSpec => []AnTypeOK
<1>1. AnInit => FitsInv
  BY VersionFacts DEF AnInit, FitsInv, Bundles, Nothing, Fresh
<1>2. AnIInv /\ FitsInv /\ [AnNext]_anVars => FitsInv'
  BY FitsStep DEF AnIInv
<1>3. AnIInv /\ FitsInv => AnTypeOK
  <2> SUFFICES ASSUME AnIInv, FitsInv PROVE AnTypeOK
    OBVIOUS
  <2>1. {pkl[v] : v \in Versions} \cup {sig[v] : v \in Versions} \cup {memory} \subseteq Bundles
    BY DEF FitsInv
  <2>2. published \in {Unset} \cup Versions /\ undone \subseteq Trainers
    BY DEF AnIInv, AnTypes, DataTypes
  <2>7. resaved \in [Versions -> {"no", "unsigned", "signed"}]
    BY DEF AnIInv, AnTypes, DataTypes
  <2>3. clock \in 1 .. MaxClock /\ mishaps \in 0 .. MaxMishaps /\ fits \in Nat
    BY VersionFacts DEF AnIInv, AnTypes, DataTypes, FitsInv
  <2>4. {connected, contended} \subseteq BOOLEAN
    BY Zenon DEF AnIInv, AnTypes, FlagTypes
  <2>5. job \in [Threads -> [at : Places, want : {Unset} \cup Versions,
                             name : {Unset} \cup Versions, held : Bundles]]
    <3>1. Place \subseteq Places
      BY DEF Place, Places, Loading, Fitting, Dumping
    <3>2. \A a \in Threads : job[a] \in [at : Places, want : {Unset} \cup Versions,
                                         name : {Unset} \cup Versions, held : Bundles]
      BY <3>1 DEF AnIInv, AnTypes, JobTypes, Job, FitsInv
    <3>3. QED
      BY <3>2 DEF AnIInv, AnTypes, JobTypes
  <2>6. QED
    BY <2>1, <2>2, <2>3, <2>4, <2>5, <2>7 DEF AnTypeOK
<1>4. QED
  BY <1>1, <1>2, <1>3, Invariance, PTL DEF AnSpec
=============================================================================
