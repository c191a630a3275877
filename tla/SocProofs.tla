------------------------------ MODULE SocProofs ------------------------------
(* Proofs about the SOC dashboard: its polling loop, for any number of polls,   *)
(* events, points and rows; its workspace, for any listed events, sessions and  *)
(* replays; its inspector, for any recorded events and searches; and, last, its *)
(* simulator panel and the attack simulator behind it.                         *)
EXTENDS SocPolling, SocWorkspace, SocInspector, SocSimulator, ListProofs

LegStages == {"idle", "sent", "body", "done"}
(* The events the views are computed from: what the database records, and what  *)
(* the workspace lists.                                                        *)
StoredEvents ==
    {Stored(row[1], row[2], row[3]) : row \in EventKinds \X Nat \X Nat}
        \cup {Listed[i] : i \in DOMAIN Listed}

(* The first n elements of a list. *)
LEMMA FirstIs ==
    ASSUME NEW S, NEW s \in Seq(S), NEW n \in Nat
    PROVE  /\ First(s, n) \in Seq(S) /\ Len(First(s, n)) = AtMost(Len(s), n)
           /\ Len(First(s, n)) <= Len(s)
           /\ \A i \in 1 .. Len(First(s, n)) : First(s, n)[i] = s[i]
<1> DEFINE m == Min({n, Len(s)})
<1>1. Len(s) \in Nat
    OBVIOUS
<1>2. m \in 0 .. Len(s) /\ AtMost(Len(s), n) = m
    <2>1. {n, Len(s)} = {Len(s), n}
        OBVIOUS
    <2>2. m = IF n <= Len(s) THEN n ELSE Len(s)
        <3>1. Len(s) \in Int /\ n \in Int
            BY <1>1
        <3> QED
            BY <3>1, SmallerOfTwo, Zenon
    <2> HIDE DEF m
    <2>3. m \in 0 .. Len(s)
        BY <1>1, <2>2
    <2> QED
        BY <2>1, <2>3, Zenon DEF AtMost, m
<1>3. First(s, n) = SubSeq(s, 1, m)
    BY Zenon DEF First
<1> HIDE DEF m
<1>4. SubSeq(s, 1, m) \in Seq(S) /\ Len(SubSeq(s, 1, m)) = m
          /\ \A i \in 1 .. m : SubSeq(s, 1, m)[i] = s[i]
    <2>1. 1 \in 1 .. Len(s) + 1 /\ (m - 1) + 1 = m /\ (~ (1 <= m) => m = 0)
              /\ \A i \in 1 .. m : (1 + i) - 1 = i
        BY <1>1, <1>2
    <2> QED
        BY <1>2, <2>1, SubSeqProperties
<1> QED
    BY <1>1, <1>2, <1>3, <1>4

(* Events ********************************************************************)

LEMMA StoredFields ==
    ASSUME NEW ev \in StoredEvents
    PROVE  /\ ev.type \in EVENT_TYPES /\ ev.risk \in Scores /\ ev.anomaly \in Scores
           /\ ev.at \in Nat
<1>1. CASE ev \in {Listed[i] : i \in DOMAIN Listed}
    BY <1>1, ListedEvents
<1>2. CASE \E row \in EventKinds \X Nat \X Nat : ev = Stored(row[1], row[2], row[3])
    <2>1. PICK row \in EventKinds \X Nat \X Nat : ev = Stored(row[1], row[2], row[3])
        BY <1>2
    <2> DEFINE kind == row[1]
               n == row[2]
               t == row[3]
    <2>2. kind \in EventKinds /\ t \in Nat /\ ev = Stored(kind, n, t)
        BY <2>1
    <2> HIDE DEF kind, n, t
    <2>3. {"type", "risk", "anomaly"} \subseteq DOMAIN kind
              /\ kind.type \in EVENT_TYPES /\ kind.risk \in Scores /\ kind.anomaly \in Scores
        BY <2>2, RecordedKinds
    <2>4. ev["type"] = kind["type"] /\ ev["risk"] = kind["risk"]
              /\ ev["anomaly"] = kind["anomaly"]
              /\ ev["at"] = t
        BY <2>2, <2>3 DEF Stored
    <2> QED
        BY <2>2, <2>3, <2>4
<1> QED
    BY <1>1, <1>2 DEF StoredEvents

(* The decision chart ********************************************************)

LEMMA ChartCountsBadges ==
    ASSUME NEW es \in Seq(StoredEvents), NEW c \in CLASSES
    PROVE  decisionCounts(es)[c] =
               Cardinality({i \in DOMAIN FeedRows(es) : FeedRows(es)[i].badge = c})
<1> DEFINE feed == feedEvents(es)
<1>1. /\ feed \in Seq(StoredEvents) /\ \A i \in 1 .. Len(feed) : feed[i] = es[i]
      /\ DOMAIN feed = 1 .. Len(feed)
    <2>1. FEED_MAX \in Nat
        BY Caps
    <2>2. First(es, FEED_MAX) \in Seq(StoredEvents)
              /\ \A i \in 1 .. Len(First(es, FEED_MAX)) : First(es, FEED_MAX)[i] = es[i]
        BY <2>1, FirstIs
    <2> QED
        BY <2>2 DEF feedEvents
<1>2. decisionCounts(es)[c] =
          Cardinality({i \in DOMAIN feed : decisionClass(decisionOf(feed[i])) = c})
    BY DEF decisionCounts
<1>3. FeedRows(es) = [i \in DOMAIN feed |-> FeedRow(es[i])]
    BY Zenon DEF FeedRows
<1> HIDE DEF feed
<1>4. ASSUME NEW i \in DOMAIN feed
      PROVE  decisionClass(decisionOf(feed[i])) = c <=> FeedRows(es)[i].badge = c
    <2>1. feed[i] = es[i] /\ es[i] \in StoredEvents
        BY <1>1, <1>4
    <2>2. es[i].type \in EVENT_TYPES
        BY <2>1, StoredFields
    <2>3. es[i].type \notin CLASSES /\ None \notin CLASSES
        BY <2>2 DEF EVENT_TYPES, CLASSES, None
    <2> DEFINE cls == decisionClass(decisionOf(es[i]))
    <2>4. FeedRows(es)[i].badge = IF cls = None THEN es[i].type ELSE cls
        BY <1>3, <1>4 DEF FeedRow
    <2> HIDE DEF cls
    <2>5. cls = c <=> FeedRows(es)[i].badge = c
        BY <2>3, <2>4
    <2> QED
        BY <2>1, <2>5 DEF cls
<1>5. DOMAIN FeedRows(es) = DOMAIN feed
    BY <1>3
<1>6. {i \in DOMAIN feed : decisionClass(decisionOf(feed[i])) = c} =
          {i \in DOMAIN FeedRows(es) : FeedRows(es)[i].badge = c}
    BY <1>4, <1>5
<1> QED
    BY <1>2, <1>6

(* The heatmap ***************************************************************)

(* The columns are the last HOURS hours, and the last one the current hour. *)
LEMMA ColumnIs ==
    ASSUME NEW d \in Int, NEW c, c = HOURS - (d \div HOUR)
    PROVE  /\ c \in 1 .. HOURS <=> d \in 0 .. HOURS * HOUR - 1
           /\ d \in 0 .. HOUR - 1 => c = HOURS
           /\ c \in Int
<1> DEFINE q == d \div HOUR
           r == d % HOUR
<1>1. q \in Int /\ r \in 0 .. HOUR - 1 /\ d = HOUR * q + r /\ HOUR \in Nat \ {0}
          /\ HOURS \in Nat \ {0}
    BY SpansOfTime, Division
<1>2. c = HOURS - q
    OBVIOUS
<1> HIDE DEF q, r
<1>3. HOUR * q \in Int /\ HOUR * HOURS \in Int /\ HOURS * HOUR = HOUR * HOURS
    BY <1>1
<1>4. q >= HOURS => HOUR * HOURS <= HOUR * q
    BY <1>1, Monotone
<1>5. q <= HOURS - 1 => HOUR * q <= HOUR * HOURS - HOUR
    <2>1. q <= HOURS - 1 => HOUR * q <= HOUR * (HOURS - 1)
        BY <1>1, Monotone
    <2>2. HOUR * (HOURS - 1) = HOUR * HOURS - HOUR
        BY <1>1
    <2> QED
        BY <2>1, <2>2
<1>6. q <= -1 => HOUR * q <= 0 - HOUR
    <2>1. q <= -1 => HOUR * q <= HOUR * (-1)
        BY <1>1, Monotone
    <2>2. HOUR * (-1) = 0 - HOUR
        BY <1>1
    <2> QED
        BY <2>1, <2>2
<1>7. q >= 0 => 0 <= HOUR * q
    <2>1. q >= 0 => HOUR * 0 <= HOUR * q
        BY <1>1, Monotone
    <2>2. HOUR * 0 = 0
        BY <1>1
    <2> QED
        BY <2>1, <2>2
<1>8. q >= 1 => HOUR <= HOUR * q
    <2>1. q >= 1 => HOUR * 1 <= HOUR * q
        BY <1>1, Monotone
    <2>2. HOUR * 1 = HOUR
        BY <1>1
    <2> QED
        BY <2>1, <2>2
<1> DEFINE m == HOUR * q
           M == HOUR * HOURS
<1> HIDE DEF m, M
<1>9. /\ m \in Int /\ M \in Int /\ d = m + r /\ HOURS * HOUR = M
      /\ (q >= HOURS => M <= m) /\ (q <= HOURS - 1 => m <= M - HOUR)
      /\ (q <= -1 => m <= 0 - HOUR) /\ (q >= 0 => 0 <= m) /\ (q >= 1 => HOUR <= m)
    BY <1>1, <1>3, <1>4, <1>5, <1>6, <1>7, <1>8 DEF m, M
<1>10. c \in 1 .. HOURS <=> d \in 0 .. M - 1
    <2>1. c \in 1 .. HOURS <=> q >= 0 /\ q <= HOURS - 1
        BY <1>1, <1>2
    <2> QED
        BY <1>1, <1>9, <2>1
<1>11. d \in 0 .. HOUR - 1 => q = 0
    BY <1>1, <1>9
<1> QED
    BY <1>1, <1>2, <1>9, <1>10, <1>11

Recently(es, t0) == {i \in DOMAIN es : t0 - es[i].at \in 0 .. HOURS * HOUR - 1}

LEMMA HeatmapRow ==
    ASSUME NEW es \in Seq(StoredEvents), NEW t0 \in Nat, NEW t \in EVENT_TYPES
    PROVE  /\ heatmap(es, t0)[t] \in Seq(Int) /\ Len(heatmap(es, t0)[t]) = HOURS
           /\ \A c \in 1 .. HOURS :
                 /\ heatmap(es, t0)[t][c] = Cardinality({i \in 1 .. Len(es) :
                                                es[i].type = t /\ Column(es[i].at, t0) = c})
                 /\ heatmap(es, t0)[t][c] \in 0 .. Len(es)
<1> DEFINE n == Len(es)
           Those(c) == {i \in 1 .. n : es[i].type = t /\ Column(es[i].at, t0) = c}
<1>1. n \in Nat /\ DOMAIN es = 1 .. n /\ HOURS \in Nat
    BY SpansOfTime
<1>2. heatmap(es, t0)[t] = [c \in 1 .. HOURS |-> Cardinality(Those(c))]
    BY <1>1 DEF heatmap
<1>3. ASSUME NEW c \in 1 .. HOURS PROVE Cardinality(Those(c)) \in 0 .. n
    <2>1. Those(c) \subseteq 1 .. n
        OBVIOUS
    <2> HIDE DEF Those, n
    <2> QED
        BY <1>1, <2>1, PositionsCounted
<1>4. \A c \in 1 .. HOURS : heatmap(es, t0)[t][c] = Cardinality(Those(c))
          /\ Cardinality(Those(c)) \in 0 .. n
    BY <1>2, <1>3
<1>5. heatmap(es, t0)[t] \in [1 .. HOURS -> Int]
    <2> HIDE DEF Those
    <2> QED
        BY <1>1, <1>2, <1>3
<1>6. heatmap(es, t0)[t] \in Seq(Int) /\ Len(heatmap(es, t0)[t]) = HOURS
    BY <1>1, <1>5
<1> QED
    BY <1>4, <1>6

LEMMA ColumnOf ==
    ASSUME NEW ev \in StoredEvents, NEW t0 \in Nat
    PROVE  /\ Column(ev.at, t0) \in Int
           /\ Column(ev.at, t0) \in 1 .. HOURS <=> t0 - ev.at \in 0 .. HOURS * HOUR - 1
           /\ t0 - ev.at \in 0 .. HOUR - 1 => Column(ev.at, t0) = HOURS
<1>1. t0 - ev.at \in Int
    BY StoredFields
<1>2. Column(ev.at, t0) = HOURS - ((t0 - ev.at) \div HOUR)
    BY DEF Column
<1> QED
    BY <1>1, <1>2, ColumnIs

LEMMA HeatmapHoldsRecent ==
    ASSUME NEW es \in Seq(StoredEvents), NEW t0 \in Nat, NEW t \in EVENT_TYPES
    PROVE  Total(heatmap(es, t0)[t]) =
               Cardinality({i \in Recently(es, t0) : es[i].type = t})
<1> DEFINE n == Len(es)
           T == {i \in 1 .. n : es[i].type = t}
           C == [i \in T |-> Column(es[i].at, t0)]
           row == heatmap(es, t0)[t]
<1>1. n \in Nat /\ DOMAIN es = 1 .. n /\ \A i \in 1 .. n : es[i] \in StoredEvents
    OBVIOUS
<1>2. T \in SUBSET (1 .. n)
    OBVIOUS
<1>3. C \in [T -> Int]
    BY <1>1, ColumnOf
<1>4. row \in Seq(Int) /\ Len(row) = HOURS
    BY HeatmapRow
<1>5. \A c \in 1 .. HOURS : {i \in T : C[i] = c} =
          {i \in 1 .. n : es[i].type = t /\ Column(es[i].at, t0) = c}
    OBVIOUS
<1>6. Classes(row, T, C)
    <2> HIDE DEF T, C, row, n
    <2>1. \A c \in 1 .. HOURS : row[c] =
              Cardinality({i \in 1 .. n : es[i].type = t /\ Column(es[i].at, t0) = c})
        BY HeatmapRow, Zenon DEF row, n
    <2> QED
        BY <1>4, <1>5, <2>1, Zenon DEF Classes
<1>7. Classed(row, T, C) = {i \in Recently(es, t0) : es[i].type = t}
    <2>1. \A i \in T : C[i] \in 1 .. Len(row) <=> t0 - es[i].at \in 0 .. HOURS * HOUR - 1
        BY <1>1, <1>4, ColumnOf
    <2> HIDE DEF row
    <2> QED
        BY <1>1, <2>1 DEF Recently, Classed
<1> HIDE DEF T, C, row, n
<1>8. Total(row) = Cardinality(Classed(row, T, C))
    BY <1>1, <1>2, <1>3, <1>4, <1>6, CountsAddUp
<1> QED
    BY <1>7, <1>8 DEF row

AlertAt(ev, t0) == ev.decision \in {"deny", "revoke"} /\ ev.at > t0 - FIVE_MINUTES

CurrentOf(es, t0, t) == filter(alerts(es, t0), LAMBDA ev : ev.type = t /\ ev.at <= t0)

(* The alerts are events, in their order. *)
LEMMA AlertsAreEvents ==
    ASSUME NEW es \in Seq(StoredEvents), NEW t0 \in Nat
    PROVE  /\ alerts(es, t0) \in Seq({ev \in StoredEvents : AlertAt(ev, t0)})
           /\ TakenFrom(alerts(es, t0), es, {i \in 1 .. Len(es) : AlertAt(es[i], t0)})
<1> DEFINE keep == {i \in DOMAIN es : AlertAt(es[i], t0)}
           K == {ev \in StoredEvents : AlertAt(ev, t0)}
<1>1. alerts(es, t0) = Picked(es, keep)
    BY Zenon DEF alerts, filter, AlertAt
<1>2. \A i \in DOMAIN es : i \in keep => es[i] \in K
    OBVIOUS
<1>3. keep \cap (1 .. Len(es)) = {i \in 1 .. Len(es) : AlertAt(es[i], t0)}
    OBVIOUS
<1> HIDE DEF keep, K
<1>4. Picked(es, keep) \in Seq(K)
    BY <1>2, PickedElements
<1>5. TakenFrom(Picked(es, keep), es, keep \cap (1 .. Len(es)))
    BY PickedPositions
<1> QED
    BY <1>1, <1>3, <1>4, <1>5 DEF K

LEMMA LastColumnHoldsCurrent ==
    ASSUME NEW es \in Seq(StoredEvents), NEW t0 \in Nat, NEW t \in EVENT_TYPES
    PROVE  heatmap(es, t0)[t][HOURS] >= Len(CurrentOf(es, t0, t))
<1> DEFINE al == alerts(es, t0)
           keep == {i \in DOMAIN al : al[i].type = t /\ al[i].at <= t0}
           cell == {i \in 1 .. Len(es) : es[i].type = t /\ Column(es[i].at, t0) = HOURS}
<1>1. CurrentOf(es, t0, t) = Picked(al, keep)
    BY Zenon DEF CurrentOf, filter
<1>2. al \in Seq({ev \in StoredEvents : AlertAt(ev, t0)})
          /\ TakenFrom(al, es, {i \in 1 .. Len(es) : AlertAt(es[i], t0)})
    BY AlertsAreEvents
<1>3. keep \cap (1 .. Len(al)) = keep
    <2>1. DOMAIN al = 1 .. Len(al)
        <3> HIDE DEF al
        <3> QED
            BY <1>2
    <2> QED
        BY <2>1, Zenon
<1>4. heatmap(es, t0)[t][HOURS] = Cardinality(cell) /\ Cardinality(cell) \in Nat
          /\ IsFiniteSet(cell)
    <2>1. HOURS \in 1 .. HOURS /\ Len(es) \in Nat
        BY SpansOfTime
    <2>2. heatmap(es, t0)[t][HOURS] = Cardinality(cell)
        BY <2>1, HeatmapRow
    <2>3. cell \subseteq 1 .. Len(es)
        OBVIOUS
    <2> HIDE DEF cell
    <2> QED
        BY <2>1, <2>2, <2>3, PositionsCounted, FS_CardinalityType
<1>5. PICK at \in [1 .. Len(al) -> {i \in 1 .. Len(es) : AlertAt(es[i], t0)}] :
          /\ \A i \in 1 .. Len(al) : al[i] = es[at[i]]
          /\ \A i, j \in 1 .. Len(al) : at[i] = at[j] => i = j
    BY <1>2, Zenon DEF TakenFrom, Positions
<1>6. ASSUME NEW i \in keep PROVE at[i] \in cell
    <2>1. i \in 1 .. Len(al) /\ at[i] \in 1 .. Len(es) /\ AlertAt(es[at[i]], t0)
              /\ al[i] = es[at[i]] /\ al[i].type = t /\ al[i].at <= t0
                     /\ es[at[i]] \in StoredEvents
        BY <1>2, <1>5
    <2>2. t0 - es[at[i]].at \in 0 .. HOUR - 1
        <3>1. es[at[i]].at \in Nat /\ es[at[i]].at <= t0 /\ es[at[i]].at > t0 - FIVE_MINUTES
            BY <2>1, StoredFields DEF AlertAt
        <3> QED
            BY <3>1, SpansOfTime
    <2>3. Column(es[at[i]].at, t0) = HOURS
        BY <2>1, <2>2, ColumnOf
    <2> QED
        BY <2>1, <2>3
<1> DEFINE inj == [i \in keep |-> at[i]]
<1>7. inj \in Injection(keep, cell)
    <2>1. inj \in [keep -> cell]
        BY <1>6
    <2>2. \A i, j \in keep : inj[i] = inj[j] => i = j
        BY <1>2, <1>5
    <2> HIDE DEF inj, keep, cell
    <2> QED
        BY <2>1, <2>2 DEF Injection, IsInjective
<1>8. Cardinality(keep) <= Cardinality(cell)
    <2> HIDE DEF inj, keep, cell
    <2> QED
        BY <1>4, <1>7, FS_Injection
<1>9. Len(CurrentOf(es, t0, t)) = Cardinality(keep)
    BY <1>1, <1>2, <1>3, PickedLength
<1> QED
    BY <1>4, <1>8, <1>9

LEMMA ScaleIsPositive ==
    ASSUME NEW es \in Seq(StoredEvents), NEW t0 \in Nat
    PROVE  maxVal(heatmap(es, t0)) \in Nat \ {0}
<1> DEFINE hm == heatmap(es, t0)
           Row(t) == {hm[t][c] : c \in 1 .. HOURS}
           T == {1} \cup UNION {Row(t) : t \in EVENT_TYPES}
           n == Len(es) + 1
<1>1. \A t \in EVENT_TYPES : \A c \in 1 .. HOURS : hm[t][c] \in 0 .. Len(es)
    BY HeatmapRow
<1>2. Len(es) \in Nat
    OBVIOUS
<1> HIDE DEF hm
<1>3. ASSUME NEW x \in T PROVE x \in 0 .. n
    <2>1. CASE x = 1
        BY <1>2, <2>1
    <2>2. CASE x # 1
        <3>1. PICK t \in EVENT_TYPES : x \in Row(t)
            BY <2>2
        <3>2. PICK c \in 1 .. HOURS : x = hm[t][c]
            BY <3>1
        <3> QED
            BY <1>1, <1>2, <3>2
    <2> QED
        BY <2>1, <2>2
<1>4. 1 \in T /\ n \in Int
    BY <1>2
<1> HIDE DEF T, n
<1>5. T \in SUBSET Int /\ T # {} /\ \A x \in T : x <= n
    BY <1>3, <1>4
<1>6. Max(T) \in T /\ 1 <= Max(T)
    BY <1>4, <1>5, LargestElement
<1>7. Max(T) \in Nat \ {0}
    BY <1>3, <1>6
<1>8. maxVal(hm) = Max(T)
    BY Zenon DEF maxVal, T
<1> QED
    BY <1>7, <1>8 DEF hm

LEMMA ShadeIs ==
    ASSUME NEW count \in Nat, NEW most \in Nat \ {0}
    PROVE  Shade(count, most) > 0 <=> count > 0
<1>1. 85 * count \in Nat /\ (85 * count) \div most \in Nat
    OBVIOUS
<1> DEFINE q == (85 * count) \div most
<1> HIDE DEF q
<1>2. AtMost(q + 10, 90) > 0
    <2>1. q + 10 \in Int /\ 90 \in Int /\ q + 10 > 0
        BY <1>1 DEF q
    <2>2. \A a, b \in Int : Min({a, b}) = IF a <= b THEN a ELSE b
        BY SmallerOfTwo
    <2> HIDE DEF Min
    <2> QED
        BY <2>1, <2>2 DEF AtMost
<1>3. Shade(count, most) = IF count = 0 THEN 0 ELSE AtMost(q + 10, 90)
    BY DEF Shade, q
<1> QED
    BY <1>2, <1>3

LEMMA CellIsShaded ==
    ASSUME NEW es \in Seq(StoredEvents), NEW t0 \in Nat, NEW t \in EVENT_TYPES,
           NEW c \in 1 .. HOURS
    PROVE  HeatmapTable(es, t0)[t][c] > 0 <=> heatmap(es, t0)[t][c] > 0
<1>1. heatmap(es, t0)[t][c] \in Nat
    <2>1. heatmap(es, t0)[t][c] \in 0 .. Len(es)
        BY HeatmapRow
    <2> QED
        BY <2>1
<1>2. HeatmapTable(es, t0)[t][c] = Shade(heatmap(es, t0)[t][c], maxVal(heatmap(es, t0)))
    BY DEF HeatmapTable
<1> QED
    BY <1>1, <1>2, ScaleIsPositive, ShadeIs

(* The alert list *)
LEMMA AlertsAreRefusals ==
    ASSUME NEW es \in Seq(StoredEvents), NEW t0 \in Nat, NEW i \in DOMAIN AlertRows(es, t0)
    PROVE  AlertRows(es, t0)[i].badge \in {"deny", "revoke"}
<1> DEFINE K == {ev \in StoredEvents : AlertAt(ev, t0)}
           al == alerts(es, t0)
           listed == First(al, ALERT_ROWS)
<1>1. al \in Seq(K)
    BY AlertsAreEvents
<1>2. listed \in Seq(K)
    <2> HIDE DEF K, al
    <2>1. ALERT_ROWS \in Nat
        BY Caps
    <2> QED
        BY <1>1, <2>1, FirstIs
<1>3. AlertRows(es, t0) = [j \in DOMAIN listed |->
            [event |-> listed[j].id, badge |-> listed[j].decision, color |-> riskColor(listed[j].risk)]]
    BY Zenon DEF AlertRows
<1> HIDE DEF al, listed
<1>4. i \in DOMAIN listed /\ AlertRows(es, t0)[i].badge = listed[i].decision
    BY <1>3
<1>5. listed[i] \in K
    BY <1>2, <1>4
<1> QED
    BY <1>4, <1>5 DEF AlertAt

(* The risk gauge *)
Band(color, lo, hi) ==
    /\ lo \in {0, 25, 50, 80} /\ hi \in 0 .. 100
    /\ \A score \in Scores : riskColor(score) = color <=> lo <= score /\ score <= hi

LEMMA ColorsAreBands ==
    ASSUME NEW score \in Scores, riskColor(score) # "muted"
    PROVE  \E lo, hi : Band(riskColor(score), lo, hi)
<1>1. Band("red", 80, 100) /\ Band("amber", 50, 79) /\ Band("accent", 25, 49)
          /\ Band("green", 0, 24)
    <2>1. \A x \in Scores : /\ x \in Int /\ x >= -1 /\ x <= 100
                            /\ riskColor(x) = "red" <=> 80 <= x
                            /\ riskColor(x) = "amber" <=> 50 <= x /\ x < 80
                            /\ riskColor(x) = "accent" <=> 25 <= x /\ x < 50
                            /\ riskColor(x) = "green" <=> 0 <= x /\ x < 25
        <3> SUFFICES ASSUME NEW x \in -1 .. 100
                     PROVE  /\ x \in Int /\ x >= -1 /\ x <= 100
                            /\ riskColor(x) = "red" <=> 80 <= x
                            /\ riskColor(x) = "amber" <=> 50 <= x /\ x < 80
                            /\ riskColor(x) = "accent" <=> 25 <= x /\ x < 50
                            /\ riskColor(x) = "green" <=> 0 <= x /\ x < 25
            BY Zenon DEF Scores, NoScore
        <3> QED
            BY DEF riskColor, NoScore
    <2> QED
        BY <2>1 DEF Band
<1>2. riskColor(score) \in {"red", "amber", "accent", "green"}
    BY DEF riskColor
<1> DEFINE c == riskColor(score)
<1>3. c = "red" \/ c = "amber" \/ c = "accent" \/ c = "green"
    BY <1>2
<1> HIDE DEF c
<1>4. CASE c = "red"
    <2>1. Band(c, 80, 100)
        BY <1>1, <1>4
    <2> QED
        BY <2>1 DEF c
<1>5. CASE c = "amber"
    <2>1. Band(c, 50, 79)
        BY <1>1, <1>5
    <2> QED
        BY <2>1 DEF c
<1>6. CASE c = "accent"
    <2>1. Band(c, 25, 49)
        BY <1>1, <1>6
    <2> QED
        BY <2>1 DEF c
<1>7. CASE c = "green"
    <2>1. Band(c, 0, 24)
        BY <1>1, <1>7
    <2> QED
        BY <2>1 DEF c
<1> QED
    BY <1>3, <1>4, <1>5, <1>6, <1>7

ColorsOf(es) == {FeedRows(es)[i].color : i \in DOMAIN FeedRows(es)} \ {"muted"}

LEMMA FeedIs ==
    ASSUME NEW es \in Seq(StoredEvents)
    PROVE  /\ feedEvents(es) \in Seq(StoredEvents)
               /\ DOMAIN feedEvents(es) = 1 .. Len(feedEvents(es))
           /\ Len(feedEvents(es)) \in Nat /\ DOMAIN FeedRows(es) = 1 .. Len(feedEvents(es))
           /\ \A i \in 1 .. Len(feedEvents(es)) :
                 /\ feedEvents(es)[i] = es[i] /\ es[i] \in StoredEvents
                 /\ FeedRows(es)[i] = FeedRow(es[i])
<1> DEFINE feed == feedEvents(es)
<1>1. feed \in Seq(StoredEvents) /\ \A i \in 1 .. Len(feed) : feed[i] = es[i]
    <2>1. FEED_MAX \in Nat
        BY Caps
    <2>2. First(es, FEED_MAX) \in Seq(StoredEvents)
              /\ \A i \in 1 .. Len(First(es, FEED_MAX)) : First(es, FEED_MAX)[i] = es[i]
        BY <2>1, FirstIs
    <2> QED
        BY <2>2 DEF feedEvents
<1>2. FeedRows(es) = [i \in DOMAIN feed |-> FeedRow(es[i])]
    BY Zenon DEF FeedRows
<1> HIDE DEF feed
<1>3. DOMAIN feed = 1 .. Len(feed) /\ Len(feed) \in Nat
          /\ \A i \in 1 .. Len(feed) : feed[i] \in StoredEvents
    BY <1>1
<1> QED
    BY <1>1, <1>2, <1>3 DEF feed

(* All scores are the least that is red: a sum rounded down leaves the band. *)
OnEdge(es) == \A i \in DOMAIN FeedRows(es) : es[i].risk \in {NoScore, 80}

LEMMA GaugeHasOneColor ==
    ASSUME NEW es \in Seq(StoredEvents), Cardinality(ColorsOf(es)) = 1, NEW low \in {0, 1},
           ~OnEdge(es)
    PROVE  RiskGauge(es, low) \in ColorsOf(es)
<1> DEFINE feed == feedEvents(es)
           n == Len(feed)
           risks == [i \in DOMAIN feed |-> es[i].risk]
           keep == {i \in DOMAIN risks : risks[i] # NoScore}
           scores == Picked(risks, keep)
<1>1. /\ n \in Nat /\ DOMAIN feed = 1 .. n
      /\ \A i \in 1 .. n : es[i] \in StoredEvents /\ FeedRows(es)[i] = FeedRow(es[i])
      /\ DOMAIN FeedRows(es) = 1 .. n
    BY FeedIs
<1>2. ColorsOf(es) = {riskColor(es[i].risk) : i \in 1 .. n} \ {"muted"}
    <2>1. \A i \in 1 .. n : FeedRows(es)[i].color = riskColor(es[i].risk)
        BY <1>1 DEF FeedRow
    <2> HIDE DEF n
    <2> QED
        BY <1>1, <2>1 DEF ColorsOf
<1>3. PICK c : ColorsOf(es) = {c}
    <2> DEFINE S == {riskColor(es[i].risk) : i \in 1 .. n}
    <2>1. IsFiniteSet(1 .. n)
        BY <1>1, FS_Interval
    <2>2. IsFiniteSet(S)
        <3> DEFINE g == [i \in 1 .. n |-> riskColor(es[i].risk)]
        <3>1. g \in Surjection(1 .. n, S)
            BY Zenon DEF Surjection
        <3> HIDE DEF n, g, S
        <3> QED
            BY <2>1, <3>1, FS_Surjection
    <2>3. ColorsOf(es) \subseteq S
        BY <1>2
    <2>4. IsFiniteSet(ColorsOf(es))
        <3> HIDE DEF S
        <3> QED
            BY <2>2, <2>3, FS_Subset
    <2> QED
        BY <2>4, FS_Singleton
<1>4. \A i \in 1 .. n : riskColor(es[i].risk) \in {c, "muted"}
    BY <1>2, <1>3
<1>5. PICK k \in 1 .. n : riskColor(es[k].risk) = c /\ c # "muted"
    BY <1>2, <1>3
<1>6. \A i \in 1 .. n : es[i].risk \in Scores
    BY <1>1, StoredFields
<1>7. PICK lo, hi : Band(c, lo, hi)
    BY <1>5, <1>6, ColorsAreBands
<1>8. /\ risks \in Seq(Scores) /\ Len(risks) = n /\ DOMAIN risks = 1 .. n
      /\ \A i \in 1 .. n : risks[i] = es[i].risk
    <2> HIDE DEF n
    <2> QED
        BY <1>1, <1>6
<1>9. \A i \in DOMAIN risks : i \in keep => risks[i] \in lo .. hi
    <2>1. ASSUME NEW i \in 1 .. n, risks[i] # NoScore PROVE risks[i] \in lo .. hi
        <3>1. risks[i] \in Scores /\ riskColor(risks[i]) \in {c, "muted"}
            BY <1>4, <1>6, <1>8
        <3>2. riskColor(risks[i]) # "muted"
            BY <2>1 DEF riskColor
        <3> HIDE DEF risks
        <3>3. lo <= risks[i] /\ risks[i] <= hi /\ lo \in Int /\ hi \in Int
            BY <1>7, <3>1, <3>2 DEF Band
        <3>4. risks[i] \in Int
            <4>1. Scores \subseteq Int
                BY DEF Scores, NoScore
            <4> QED
                BY <3>1, <4>1
        <3> QED
            BY <3>3, <3>4
    <2> HIDE DEF risks, n
    <2> QED
        BY <1>8, <2>1
<1>10. k \in keep
    <2>1. es[k].risk # NoScore
        BY <1>5 DEF riskColor
    <2> QED
        BY <1>5, <1>8, <2>1
<1> HIDE DEF risks, n
<1>11. keep \cap (1 .. Len(risks)) = keep
    BY <1>8
<1> HIDE DEF keep
<1>12. scores \in Seq(lo .. hi) /\ Len(scores) = Cardinality(keep)
    BY <1>8, <1>9, <1>11, PickedElements, PickedLength
<1>13. Len(scores) \in Nat \ {0}
    <2>1. keep \subseteq 1 .. n
        BY <1>8 DEF keep
    <2>2. IsFiniteSet(keep)
        BY <1>1, <2>1, PositionsCounted
    <2>3. Cardinality(keep) # 0 /\ Cardinality(keep) \in Nat
        BY <1>10, <2>2, FS_EmptySet, FS_CardinalityType
    <2> QED
        BY <1>12, <2>3
<1>14. lo \in Int /\ hi \in Int /\ lo >= 0 /\ hi <= 100
    BY <1>7 DEF Band
<1> DEFINE short == IF Len(scores) > 1 /\ (\E i \in DOMAIN scores : scores[i] % 25 # 0) THEN low ELSE 0
<1>15. avgRisk(es, low) = IF scores = << >> THEN NoScore ELSE (Total(scores) - short) \div Len(scores)
    BY Zenon DEF avgRisk, filter, scores, keep, risks
<1>21. PICK edge \in 1 .. n : es[edge].risk \notin {NoScore, 80}
    <2> HIDE DEF n
    <2> QED
        BY <1>1 DEF OnEdge
<1>22. edge \in 1 .. Len(risks) /\ edge \in keep /\ risks[edge] # 80
    BY <1>8, <1>21 DEF keep
<1>23. \E j \in 1 .. Len(scores) : scores[j] # 80
    BY <1>8, <1>22, PickedAll
<1> HIDE DEF scores
<1>16. scores # << >>
    BY <1>13, EmptySeq
<1>17. lo * Len(scores) <= Total(scores) /\ Total(scores) <= hi * Len(scores)
           /\ Total(scores) \in Int
    <2>1. scores \in Seq(Int) /\ \A i \in 1 .. Len(scores) : lo <= scores[i]
              /\ scores[i] <= hi
        BY <1>12, <1>14
    <2> QED
        BY <1>14, <2>1, TotalBounds
<1>24. \A j \in 1 .. Len(scores) : scores[j] \in Int /\ lo <= scores[j]
    BY <1>12, <1>14
<1>25. short \in {0, 1} /\ (short = 1 => \E j \in 1 .. Len(scores) : scores[j] % 25 # 0)
    BY <1>12
<1> HIDE DEF short
<1>26. ASSUME short = 1 PROVE lo * Len(scores) + 1 <= Total(scores)
    <2>1. PICK j \in 1 .. Len(scores) : lo < scores[j]
        <3>1. CASE lo = 80
            BY <1>14, <1>23, <1>24, <3>1
        <3>2. CASE lo \in {0, 25, 50}
            <4>1. PICK j \in 1 .. Len(scores) : scores[j] % 25 # 0
                BY <1>25, <1>26
            <4>2. scores[j] # lo
                BY <3>2, <4>1
            <4> QED
                BY <1>14, <1>24, <4>1, <4>2
        <3> QED
            BY <1>7, <3>1, <3>2 DEF Band
    <2>2. scores \in Seq(Int)
        BY <1>12, <1>14
    <2> QED
        BY <1>14, <1>24, <2>1, <2>2, TotalAbove
<1> DEFINE total == Total(scores) - short
<1>27. total \in Int /\ lo * Len(scores) <= total /\ total <= hi * Len(scores)
    <2> DEFINE T == Total(scores)
               L == lo * Len(scores)
               H == hi * Len(scores)
    <2>1. L \in Int /\ H \in Int /\ T \in Int /\ L <= T /\ T <= H /\ (short = 1 => L + 1 <= T)
        BY <1>13, <1>14, <1>17, <1>26
    <2> HIDE DEF T, L, H
    <2>2. T - short \in Int /\ L <= T - short /\ T - short <= H
        BY <1>25, <2>1
    <2> QED
        BY <2>2 DEF T, L, H
<1>28. avgRisk(es, low) = total \div Len(scores)
    BY <1>15, <1>16
<1> HIDE DEF total
<1>18. avgRisk(es, low) \in lo .. hi
    <2> DEFINE m == Len(scores)
    <2>1. m \in Nat \ {0} /\ lo * m <= total /\ total <= hi * m /\ total \in Int
        BY <1>13, <1>27
    <2> HIDE DEF m
    <2>2. lo <= total \div m /\ total \div m <= hi /\ total \div m \in Int
        BY <1>14, <2>1, MeanInRange
    <2> QED
        BY <1>14, <1>28, <2>2 DEF m
<1>19. OrZero(avgRisk(es, low)) = avgRisk(es, low)
    BY <1>14, <1>18 DEF OrZero, NoScore
<1>20. riskColor(avgRisk(es, low)) = c
    <2>1. avgRisk(es, low) \in Scores /\ lo <= avgRisk(es, low) /\ avgRisk(es, low) <= hi
        <3> DEFINE a == avgRisk(es, low)
        <3>1. a \in lo .. hi
            BY <1>18
        <3> HIDE DEF a
        <3>2. a \in 0 .. 100 /\ lo <= a /\ a <= hi
            BY <1>14, <3>1
        <3>3. a \in Scores
            BY <3>2 DEF Scores, NoScore
        <3> QED
            BY <3>2, <3>3 DEF a
    <2> QED
        BY <1>7, <2>1 DEF Band
<1> QED
    BY <1>3, <1>19, <1>20 DEF RiskGauge

LEMMA TableLength ==
    ASSUME NEW ss, IsFiniteSet(DOMAIN ss)
    PROVE  Len(SessionRows(ss)) = AtMost(Cardinality(DOMAIN ss), SESSION_ROWS)
<1> DEFINE ids == SetToSeq(DOMAIN ss)
           n == Cardinality(DOMAIN ss)
           S == {ss[ids[i]].lastSeen : i \in 1 .. n}
           seen == [i \in DOMAIN ids |-> ss[ids[i]].lastSeen]
           sorted == Descending(seen)
           listed == First(sorted, SESSION_ROWS)
<1>1. ids \in Seq(DOMAIN ss) /\ Len(ids) = n /\ n \in Nat
    BY ListedOnce, FS_CardinalityType
<1>2. DOMAIN ids = 1 .. n
    <2> HIDE DEF ids, n
    <2> QED
        BY <1>1
<1>3. seen \in Seq(S) /\ Len(seen) = n
    <2> HIDE DEF ids, n
    <2> QED
        BY <1>1, <1>2
<1> HIDE DEF seen, S
<1>4. sorted \in Seq(1 .. n) /\ Len(sorted) = n
    BY <1>3, DescendingPositions
<1> HIDE DEF sorted
<1>5. Len(listed) = AtMost(n, SESSION_ROWS) /\ listed \in Seq(1 .. n)
    <2>1. SESSION_ROWS \in Nat
        BY Caps
    <2> QED
        BY <1>4, <2>1, FirstIs
<1>6. SessionRows(ss) = [i \in DOMAIN listed |-> SessionRow(ss[ids[listed[i]]])]
    BY Zenon DEF SessionRows, listed, sorted, seen, ids
<1> HIDE DEF listed
<1>7. Len(SessionRows(ss)) = Len(listed)
    <2>1. DOMAIN SessionRows(ss) = 1 .. Len(listed) /\ Len(listed) \in Nat
        BY <1>5, <1>6
    <2> QED
        BY <1>5, <1>6, <2>1
<1> QED
    BY <1>5, <1>7 DEF n

LEMMA CardCountsRows ==
    ASSUME NEW ss, IsFiniteSet(DOMAIN ss), NEW ms
    PROVE  Len(SessionRows(ss)) = AtMost(OrZero(StatCards(ms, ss).sessions), SESSION_ROWS)
<1> DEFINE n == Cardinality(DOMAIN ss)
<1>1. n \in Nat
    BY FS_CardinalityType
<1>2. StatCards(ms, ss).sessions = IF n = 0 THEN NoScore ELSE n
    BY DEF StatCards
<1> HIDE DEF n
<1>3. OrZero(StatCards(ms, ss).sessions) = n
    BY <1>1, <1>2 DEF OrZero, NoScore
<1> QED
    BY <1>3, TableLength DEF n

(* The header *)
LEMMA LowMeansNoneDown ==
    ASSUME NEW hs, NEW ms, NEW on, TopBar(hs, ms, on).threat = "LOW", NEW s \in SERVICES
    PROVE  HealthTiles(hs).tiles[s] # "down"
<1> SUFFICES ASSUME hs[s] = "down" PROVE FALSE
    BY DEF HealthTiles
<1> DEFINE D == {x \in SERVICES : hs[x] = "down"}
           down == Cardinality(D)
           critical == OrZero(ms.anmPct) > 25 \/ OrZero(ms.denyPct) > 40 \/ down >= 4
           high == OrZero(ms.anmPct) > 10 \/ OrZero(ms.denyPct) > 20 \/ down >= 2
           medium == OrZero(ms.anmPct) > 3 \/ OrZero(ms.denyPct) > 8 \/ down >= 1
<1>1. s \in D /\ D \subseteq SERVICES
    OBVIOUS
<1> HIDE DEF D
<1>2. IsFiniteSet(D)
    BY <1>1, ListedServices, FS_Subset
<1>3. down \in Nat /\ down # 0
    BY <1>1, <1>2, FS_CardinalityType, FS_EmptySet
<1>4. medium
    BY <1>3
<1>5. TopBar(hs, ms, on).threat = IF critical THEN "CRITICAL" ELSE IF high THEN "HIGH"
                                  ELSE IF medium THEN "MEDIUM" ELSE "LOW"
    BY DEF TopBar, computeThreat, D
<1> HIDE DEF critical, high, medium
<1> QED
    BY <1>4, <1>5

(* The session roll-up *******************************************************)

Names(es) == {es[i].session : i \in 1 .. Len(es)}

Users(es) == {es[i].user : i \in 1 .. Len(es)}

SessionEntries(es) ==
    [sessionId : Names(es), userId : Users(es), count : Nat, riskMax : Scores, anomalyMax : Scores,
     lastSeen : Nat]

RollUps(es) == UNION {[D -> SessionEntries(es)] : D \in SUBSET Names(es)}

RollStep(es, g) ==
    [n \in 0 .. Len(es) |-> IF n = 0 THEN NoSessions ELSE AddToRollup(g[n - 1], es[n])]

Highest(seen, score) == IF Larger(seen, score) THEN score ELSE seen

(* An event counted in an entry. *)
LEMMA CountedIs ==
    ASSUME NEW es, NEW e \in SessionEntries(es), NEW ev \in StoredEvents
    PROVE  /\ Counted(e, ev) \in SessionEntries(es)
           /\ Counted(e, ev).sessionId = e.sessionId /\ Counted(e, ev).count = e.count + 1
           /\ Counted(e, ev).riskMax = Highest(e.riskMax, ev.risk)
           /\ Counted(e, ev).anomalyMax = Highest(e.anomalyMax, ev.anomaly)
           /\ Counted(e, ev).lastSeen = IF ev.at > e.lastSeen THEN ev.at ELSE e.lastSeen
<1>1. ev.risk \in Scores /\ ev.anomaly \in Scores /\ ev.at \in Nat
    BY StoredFields
<1>2. Highest(e.riskMax, ev.risk) \in Scores /\ Highest(e.anomalyMax, ev.anomaly) \in Scores
    BY <1>1 DEF Highest, SessionEntries
<1> DEFINE risk == Highest(e.riskMax, ev.risk)
           anomaly == Highest(e.anomalyMax, ev.anomaly)
           seen == IF ev.at > e.lastSeen THEN ev.at ELSE e.lastSeen
<1>3. Counted(e, ev) =
          [e EXCEPT !.count = e.count + 1, !.riskMax = risk, !.anomalyMax = anomaly,
                                 !.lastSeen = seen]
    BY DEF Counted, Highest
<1>4. risk \in Scores /\ anomaly \in Scores /\ seen \in Nat
    BY <1>1, <1>2 DEF SessionEntries
<1> HIDE DEF risk, anomaly, seen
<1>5. Counted(e, ev) =
          [sessionId |-> e.sessionId, userId |-> e.userId, count |-> e.count + 1,
                        riskMax |-> risk, anomalyMax |-> anomaly, lastSeen |-> seen]
    BY <1>3 DEF SessionEntries
<1>6. e.sessionId \in Names(es) /\ e.userId \in Users(es) /\ e.count + 1 \in Nat
    BY DEF SessionEntries
<1>7. /\ Counted(e, ev) \in SessionEntries(es)
      /\ Counted(e, ev).sessionId = e.sessionId /\ Counted(e, ev).count = e.count + 1
      /\ Counted(e, ev).riskMax = risk /\ Counted(e, ev).anomalyMax = anomaly
      /\ Counted(e, ev).lastSeen = seen
    BY <1>4, <1>5, <1>6 DEF SessionEntries
<1> QED
    BY <1>7 DEF risk, anomaly, seen

LEMMA NewEntryIs ==
    ASSUME NEW es, NEW ev \in StoredEvents, ev.session \in Names(es), ev.user \in Users(es)
    PROVE  /\ NewEntry(ev) \in SessionEntries(es)
           /\ NewEntry(ev).sessionId = ev.session /\ NewEntry(ev).count = 0
           /\ NewEntry(ev).riskMax = NoScore /\ NewEntry(ev).anomalyMax = NoScore
           /\ NewEntry(ev).lastSeen = ev.at
<1>1. ev.at \in Nat /\ NoScore \in Scores
    BY StoredFields DEF Scores, NoScore
<1> QED
    BY <1>1 DEF NewEntry, SessionEntries

(* The entry an event is counted in. *)
EntryFor(ss, ev) == IF ev.session \in DOMAIN ss THEN ss[ev.session] ELSE NewEntry(ev)

LEMMA AddIs ==
    ASSUME NEW es \in Seq(StoredEvents), NEW ss \in RollUps(es), NEW n \in 1 .. Len(es)
    PROVE  LET ev == es[n]
               new == AddToRollup(ss, ev)
           IN  /\ new \in RollUps(es)
               /\ ev.session = None => new = ss
               /\ ev.session # None =>
                     /\ DOMAIN new = DOMAIN ss \cup {ev.session}
                     /\ EntryFor(ss, ev) \in SessionEntries(es)
                     /\ new[ev.session] = Counted(EntryFor(ss, ev), ev)
                     /\ \A s \in DOMAIN ss : s # ev.session => new[s] = ss[s]
<1> DEFINE ev == es[n]
           new == AddToRollup(ss, ev)
           E == SessionEntries(es)
<1>1. ev \in StoredEvents /\ ev.session \in Names(es) /\ ev.user \in Users(es)
    BY DEF Names, Users
<1>2. PICK D \in SUBSET Names(es) : ss \in [D -> E]
    BY DEF RollUps
<1> HIDE DEF ev, E
<1>3. EntryFor(ss, ev) \in E
    <2>1. NewEntry(ev) \in E
        BY <1>1, NewEntryIs DEF E
    <2> QED
        BY <1>2, <2>1 DEF EntryFor
<1>4. Counted(EntryFor(ss, ev), ev) \in E
    BY <1>1, <1>3, CountedIs DEF E
<1>5. ev.session = None => new = ss
    BY DEF AddToRollup
<1>6. ASSUME ev.session # None
      PROVE  /\ new \in [D \cup {ev.session} -> E]
                 /\ DOMAIN new = DOMAIN ss \cup {ev.session}
             /\ new[ev.session] = Counted(EntryFor(ss, ev), ev)
             /\ \A s \in DOMAIN ss : s # ev.session => new[s] = ss[s]
    <2>1. new = [s \in DOMAIN ss \cup {ev.session} |->
                    IF s = ev.session THEN Counted(EntryFor(ss, ev), ev) ELSE ss[s]]
        BY <1>6, Zenon DEF AddToRollup, EntryFor
    <2> HIDE DEF new
    <2> QED
        BY <1>2, <1>4, <2>1
<1>7. new \in RollUps(es)
    <2>1. CASE ev.session = None
        BY <1>5, <2>1
    <2>2. CASE ev.session # None
        <3>1. D \cup {ev.session} \in SUBSET Names(es)
            BY <1>1
        <3> HIDE DEF new
        <3> QED
            BY <1>6, <2>2, <3>1 DEF RollUps, E
    <2> QED
        BY <2>1, <2>2
<1> HIDE DEF new
<1> QED
    BY <1>3, <1>5, <1>6, <1>7 DEF new, ev, E

LEMMA RollStepExists == ASSUME NEW es \in Seq(StoredEvents) PROVE \E g : g = RollStep(es, g)
<1> DEFINE m == Len(es)
           V == RollUps(es)
           F == [n \in 1 .. m |-> [ss \in V |-> AddToRollup(ss, es[n])]]
<1>1. m \in Nat
    OBVIOUS
<1>2. NoSessions \in V
    <2>1. NoSessions \in [{} -> SessionEntries(es)]
        BY DEF NoSessions
    <2>2. {} \in SUBSET Names(es)
        OBVIOUS
    <2> QED
        BY <2>1, <2>2, Zenon DEF RollUps
<1>3. \A n \in 1 .. m : \A ss \in V : F[n][ss] = AddToRollup(ss, es[n]) /\ F[n][ss] \in V
    BY AddIs
<1>4. Stays(F, m, V)
    BY <1>3 DEF Stays
<1> HIDE DEF F, m, V
<1>5. PICK g \in [0 .. m -> V] : Recurses(g, F, m, NoSessions)
    BY <1>1, <1>2, <1>4, Recursion, Zenon
<1>6. ASSUME NEW n \in 0 .. m
      PROVE  g[n] = IF n = 0 THEN NoSessions ELSE AddToRollup(g[n - 1], es[n])
    <2>1. CASE n = 0
        BY <1>5, <2>1 DEF Recurses
    <2>2. CASE n # 0
        <3>1. n \in 1 .. m /\ n - 1 \in 0 .. m
            BY <1>1, <2>2
        <3> QED
            BY <1>3, <1>5, <2>2, <3>1 DEF Recurses
    <2> QED
        BY <2>1, <2>2
<1>7. g = RollStep(es, g)
    BY <1>5, <1>6 DEF RollStep, m
<1> QED
    BY <1>7

LEMMA RollRecursion ==
    ASSUME NEW es \in Seq(StoredEvents)
    PROVE  \E f : /\ rollup(es) = f[Len(es)]
                  /\ f[0] = NoSessions
                  /\ \A n \in 1 .. Len(es) : f[n] = AddToRollup(f[n - 1], es[n])
<1> DEFINE f == CHOOSE g : g = RollStep(es, g)
<1>1. Len(es) \in Nat
    OBVIOUS
<1>2. f = RollStep(es, f)
    BY RollStepExists, Zenon
<1>3. rollup(es) = f[Len(es)]
    BY Zenon DEF rollup, reduce, RollStep
<1> HIDE DEF f
<1>4. f[0] = NoSessions
    BY <1>1, <1>2 DEF RollStep
<1>5. ASSUME NEW n \in 1 .. Len(es) PROVE f[n] = AddToRollup(f[n - 1], es[n])
    <2>1. RollStep(es, f)[n] = AddToRollup(f[n - 1], es[n])
        BY <1>1 DEF RollStep
    <2> QED
        BY <1>2, <2>1
<1> QED
    BY <1>3, <1>4, <1>5

(* What the entry of a session says of the first n events. *)
SessionOf(es, s, n) == {i \in 1 .. n : es[i].session = s}

Tops(e, es, T) ==
    /\ \A i \in T : es[i].at <= e.lastSeen /\ es[i].risk <= e.riskMax
           /\ es[i].anomaly <= e.anomalyMax
    /\ \E i \in T : es[i].at = e.lastSeen
    /\ \E i \in T : es[i].risk = e.riskMax
    /\ \E i \in T : es[i].anomaly = e.anomalyMax

SessionRolled(e, es, s, n) ==
    /\ e.sessionId = s /\ e.count = Cardinality(SessionOf(es, s, n))
    /\ Tops(e, es, SessionOf(es, s, n))

RolledUp(ss, es, n) ==
    /\ DOMAIN ss = {es[i].session : i \in 1 .. n} \ {None}
    /\ \A s \in DOMAIN ss : SessionRolled(ss[s], es, s, n)

LEMMA HighestIs ==
    ASSUME NEW x \in Scores, NEW y \in Scores
    PROVE  /\ Highest(x, y) \in {x, y} /\ x <= Highest(x, y) /\ y <= Highest(x, y)
           /\ x = NoScore => Highest(x, y) = y
BY DEF Highest, Larger, Scores, NoScore

(* One more event of the session, the last of them. *)
LEMMA EntryGrows ==
    ASSUME NEW es \in Seq(StoredEvents), NEW n \in 1 .. Len(es),
           NEW e \in SessionEntries(es),
           NEW s, s = es[n].session,
           SessionRolled(e, es, s, n - 1)
             \/ (SessionOf(es, s, n - 1) = {} /\ e = NewEntry(es[n]))
    PROVE  SessionRolled(Counted(e, es[n]), es, s, n)
<1> DEFINE ev == es[n]
           T == SessionOf(es, s, n - 1)
           U == SessionOf(es, s, n)
           new == Counted(e, ev)
<1>1. /\ ev \in StoredEvents /\ ev.at \in Nat /\ ev.risk \in Scores /\ ev.anomaly \in Scores
      /\ n \in Nat /\ n - 1 \in Nat
    BY StoredFields
<1>2. /\ new.sessionId = e.sessionId /\ new.count = e.count + 1
      /\ new.riskMax = Highest(e.riskMax, ev.risk)
             /\ new.anomalyMax = Highest(e.anomalyMax, ev.anomaly)
      /\ new.lastSeen = IF ev.at > e.lastSeen THEN ev.at ELSE e.lastSeen
    BY <1>1, CountedIs
<1>3. e.riskMax \in Scores /\ e.anomalyMax \in Scores /\ e.lastSeen \in Nat
          /\ e.count \in Nat
    BY DEF SessionEntries
<1>4. U = T \cup {n} /\ n \notin T /\ T \subseteq 1 .. n - 1
    BY <1>1 DEF SessionOf
<1>5. IsFiniteSet(T) /\ Cardinality(U) = Cardinality(T) + 1
    <2> HIDE DEF T, U
    <2>1. IsFiniteSet(T)
        BY <1>1, <1>4, PositionsCounted
    <2> QED
        BY <1>4, <2>1, NoneOrOneMore
<1>6. \A i \in T : /\ es[i].at \in Nat /\ es[i].risk \in Scores /\ es[i].anomaly \in Scores
    <2>1. \A i \in T : es[i] \in StoredEvents
        BY <1>1, <1>4
    <2> QED
        BY <2>1, StoredFields
<1> DEFINE r == Highest(e.riskMax, ev.risk)
           a == Highest(e.anomalyMax, ev.anomaly)
<1>7. /\ r \in {e.riskMax, ev.risk} /\ e.riskMax <= r /\ ev.risk <= r
      /\ a \in {e.anomalyMax, ev.anomaly} /\ e.anomalyMax <= a /\ ev.anomaly <= a
      /\ e.riskMax = NoScore => r = ev.risk
      /\ e.anomalyMax = NoScore => a = ev.anomaly
    BY <1>1, <1>3, HighestIs
<1>8. Scores \subseteq Int
    BY DEF Scores, NoScore
<1> HIDE DEF T, U, new, r, a
<1>9. CASE SessionRolled(e, es, s, n - 1)
    <2>1. e.sessionId = s /\ e.count = Cardinality(T) /\ Tops(e, es, T)
        BY <1>9 DEF SessionRolled, T
    <2>2. new.sessionId = s /\ new.count = Cardinality(U)
        BY <1>2, <1>5, <2>1
    <2>3. \A i \in U : es[i].at <= new.lastSeen /\ es[i].risk <= new.riskMax
              /\ es[i].anomaly <= new.anomalyMax
        <3> SUFFICES ASSUME NEW i \in U
                     PROVE  es[i].at <= new.lastSeen /\ es[i].risk <= new.riskMax
                                /\ es[i].anomaly <= new.anomalyMax
            OBVIOUS
        <3>1. CASE i = n
            BY <1>1, <1>2, <1>3, <1>7, <3>1 DEF r, a
        <3>2. CASE i \in T
            <4>1. es[i].at <= e.lastSeen /\ es[i].risk <= e.riskMax
                      /\ es[i].anomaly <= e.anomalyMax
                BY <2>1, <3>2 DEF Tops
            <4>2. /\ es[i].at \in Nat /\ es[i].risk \in Int /\ es[i].anomaly \in Int
                  /\ r \in Int /\ a \in Int /\ e.riskMax \in Int /\ e.anomalyMax \in Int
                BY <1>1, <1>3, <1>6, <1>7, <1>8, <3>2
            <4>3. new.riskMax = r /\ new.anomalyMax = a
                BY <1>2 DEF r, a
            <4>4. e.riskMax <= r /\ e.anomalyMax <= a
                BY <1>7
            <4>5. es[i].risk <= r /\ es[i].anomaly <= a
                BY <4>1, <4>2, <4>4
            <4>6. es[i].at <= new.lastSeen
                BY <1>1, <1>2, <1>3, <4>1, <4>2
            <4> QED
                BY <4>3, <4>5, <4>6
        <3> QED
            BY <1>4, <3>1, <3>2
    <2>4. \E i \in U : es[i].at = new.lastSeen
        <3>1. PICK i \in T : es[i].at = e.lastSeen
            BY <2>1 DEF Tops
        <3>2. i \in U /\ n \in U
            BY <1>4, <3>1
        <3> QED
            BY <1>2, <3>1, <3>2
    <2>5. \E i \in U : es[i].risk = new.riskMax
        <3>1. PICK i \in T : es[i].risk = e.riskMax
            BY <2>1 DEF Tops
        <3>2. i \in U /\ n \in U /\ new.riskMax \in {e.riskMax, ev.risk}
            BY <1>2, <1>4, <1>7, <3>1 DEF r
        <3> QED
            BY <3>1, <3>2
    <2>6. \E i \in U : es[i].anomaly = new.anomalyMax
        <3>1. PICK i \in T : es[i].anomaly = e.anomalyMax
            BY <2>1 DEF Tops
        <3>2. i \in U /\ n \in U /\ new.anomalyMax \in {e.anomalyMax, ev.anomaly}
            BY <1>2, <1>4, <1>7, <3>1 DEF a
        <3> QED
            BY <3>1, <3>2
    <2> QED
        BY <2>2, <2>3, <2>4, <2>5, <2>6 DEF SessionRolled, Tops, U, new
<1>10. CASE T = {} /\ e = NewEntry(ev)
    <2>1. U = {n}
        BY <1>4, <1>10
    <2>2. e.sessionId = s /\ e.count = 0 /\ e.riskMax = NoScore /\ e.anomalyMax = NoScore
              /\ e.lastSeen = ev.at
        BY <1>10 DEF NewEntry
    <2>3. Cardinality(T) = 0
        BY <1>10, FS_EmptySet
    <2>4. new.sessionId = s /\ new.count = Cardinality(U)
        BY <1>2, <1>5, <2>2, <2>3
    <2>5. new.riskMax = ev.risk /\ new.anomalyMax = ev.anomaly /\ new.lastSeen = ev.at
        BY <1>2, <1>7, <2>2 DEF r, a
    <2>6. es[n].at <= ev.at /\ es[n].risk <= ev.risk /\ es[n].anomaly <= ev.anomaly
        <3>1. ev.risk \in Int /\ ev.anomaly \in Int
            BY <1>1, <1>8, Zenon
        <3>2. ev.at \in Int
            BY <1>1
        <3> QED
            BY <3>1, <3>2
    <2> QED
        BY <2>1, <2>4, <2>5, <2>6 DEF SessionRolled, Tops, U, new
<1> QED
    BY <1>9, <1>10 DEF T

(* One more event. *)
LEMMA RollGrows ==
    ASSUME NEW es \in Seq(StoredEvents), NEW n \in 1 .. Len(es), NEW ss \in RollUps(es),
           RolledUp(ss, es, n - 1)
    PROVE  AddToRollup(ss, es[n]) \in RollUps(es) /\ RolledUp(AddToRollup(ss, es[n]), es, n)
<1> DEFINE ev == es[n]
           new == AddToRollup(ss, ev)
           Seen(k) == {es[i].session : i \in 1 .. k}
<1>1. ev \in StoredEvents /\ n \in Nat /\ n - 1 \in Nat
    OBVIOUS
<1>2. /\ new \in RollUps(es)
      /\ ev.session = None => new = ss
      /\ ev.session # None =>
            /\ DOMAIN new = DOMAIN ss \cup {ev.session}
            /\ EntryFor(ss, ev) \in SessionEntries(es)
            /\ new[ev.session] = Counted(EntryFor(ss, ev), ev)
            /\ \A s \in DOMAIN ss : s # ev.session => new[s] = ss[s]
    BY AddIs
<1>3. DOMAIN ss = Seen(n - 1) \ {None}
          /\ \A s \in DOMAIN ss : SessionRolled(ss[s], es, s, n - 1)
    BY DEF RolledUp
<1>4. Seen(n) = Seen(n - 1) \cup {ev.session}
    <2>1. 1 .. n = (1 .. n - 1) \cup {n}
        BY <1>1
    <2> QED
        BY <2>1
<1>5. ASSUME NEW s, s # ev.session PROVE SessionOf(es, s, n) = SessionOf(es, s, n - 1)
    <2>1. \A i \in 1 .. n : i \in 1 .. n - 1 \/ i = n
        BY <1>1
    <2>2. 1 .. n - 1 \subseteq 1 .. n
        BY <1>1
    <2> QED
        BY <1>5, <2>1, <2>2 DEF SessionOf
<1> HIDE DEF new, Seen
<1>6. CASE ev.session = None
    <2>1. DOMAIN new = Seen(n) \ {None}
        BY <1>2, <1>3, <1>4, <1>6
    <2>2. ASSUME NEW s \in DOMAIN new PROVE SessionRolled(new[s], es, s, n)
        <3>1. s \in DOMAIN ss /\ s # ev.session /\ new[s] = ss[s]
            BY <1>2, <1>6, <2>1, <2>2
        <3> QED
            BY <1>3, <1>5, <3>1 DEF SessionRolled
    <2> QED
        BY <1>2, <2>1, <2>2 DEF RolledUp, new, Seen
<1>7. CASE ev.session # None
    <2>1. DOMAIN new = Seen(n) \ {None}
        BY <1>2, <1>3, <1>4, <1>7
    <2>2. ASSUME NEW s \in DOMAIN new PROVE SessionRolled(new[s], es, s, n)
        <3>1. CASE s # ev.session
            <4>1. s \in DOMAIN ss /\ new[s] = ss[s]
                BY <1>2, <1>7, <2>2, <3>1
            <4> QED
                BY <1>3, <1>5, <3>1, <4>1 DEF SessionRolled
        <3>2. CASE s = ev.session
            <4> DEFINE e == EntryFor(ss, ev)
            <4>1. e \in SessionEntries(es) /\ new[s] = Counted(e, ev)
                BY <1>2, <1>7, <3>2
            <4>2. CASE s \in DOMAIN ss
                <5>1. SessionRolled(e, es, s, n - 1)
                    BY <1>3, <3>2, <4>2 DEF EntryFor
                <5> HIDE DEF e
                <5> QED
                    BY <3>2, <4>1, <5>1, EntryGrows
            <4>3. CASE s \notin DOMAIN ss
                <5>1. s \notin Seen(n - 1)
                    BY <1>3, <1>7, <3>2, <4>3
                <5>2. SessionOf(es, s, n - 1) = {}
                    BY <5>1 DEF SessionOf, Seen
                <5>3. e = NewEntry(ev)
                    BY <3>2, <4>3 DEF EntryFor
                <5> HIDE DEF e
                <5> QED
                    BY <3>2, <4>1, <5>2, <5>3, EntryGrows
            <4> QED
                BY <4>2, <4>3
        <3> QED
            BY <3>1, <3>2
    <2> QED
        BY <1>2, <2>1, <2>2 DEF RolledUp, new, Seen
<1> QED
    BY <1>6, <1>7

(* The roll-up of all of them. *)
LEMMA RollupIs ==
    ASSUME NEW es \in Seq(StoredEvents)
    PROVE  rollup(es) \in RollUps(es) /\ RolledUp(rollup(es), es, Len(es))
<1>1. PICK f : /\ rollup(es) = f[Len(es)]
               /\ f[0] = NoSessions
               /\ \A n \in 1 .. Len(es) : f[n] = AddToRollup(f[n - 1], es[n])
    BY RollRecursion
<1>2. Len(es) \in Nat
    OBVIOUS
<1> DEFINE P == {n \in 0 .. Len(es) : f[n] \in RollUps(es) /\ RolledUp(f[n], es, n)}
<1>3. 0 \in P
    <2>1. NoSessions \in [{} -> SessionEntries(es)] /\ DOMAIN NoSessions = {}
        BY DEF NoSessions
    <2>2. NoSessions \in RollUps(es)
        <3>1. {} \in SUBSET Names(es)
            OBVIOUS
        <3> QED
            BY <2>1, <3>1, Zenon DEF RollUps
    <2>3. {es[i].session : i \in 1 .. 0} = {}
        OBVIOUS
    <2>4. RolledUp(NoSessions, es, 0)
        BY <2>1, <2>3 DEF RolledUp
    <2> QED
        BY <1>1, <1>2, <2>2, <2>4
<1>4. ASSUME NEW n \in 0 .. Len(es) - 1, n \in P PROVE n + 1 \in P
    <2>1. n + 1 \in 1 .. Len(es) /\ (n + 1) - 1 = n /\ n + 1 \in 0 .. Len(es)
        BY <1>2
    <2>2. f[n + 1] = AddToRollup(f[n], es[n + 1])
        BY <1>1, <2>1
    <2>3. f[n] \in RollUps(es) /\ RolledUp(f[n], es, (n + 1) - 1)
        BY <1>4, <2>1
    <2>4. AddToRollup(f[n], es[n + 1]) \in RollUps(es)
              /\ RolledUp(AddToRollup(f[n], es[n + 1]), es, n + 1)
        BY <2>1, <2>3, RollGrows
    <2> QED
        BY <2>1, <2>2, <2>4
<1>5. Len(es) \in P
    <2> HIDE DEF P
    <2>1. \A n \in 0 .. Len(es) : n \in P
        BY <1>2, <1>3, <1>4, UpTo, Zenon
    <2> QED
        BY <1>2, <2>1
<1> QED
    BY <1>1, <1>5

LEMMA RowsAreOfSessions ==
    ASSUME NEW ss, IsFiniteSet(DOMAIN ss), NEW i \in DOMAIN SessionRows(ss)
    PROVE  \E id \in DOMAIN ss : SessionRows(ss)[i] = SessionRow(ss[id])
<1> DEFINE ids == SetToSeq(DOMAIN ss)
           n == Cardinality(DOMAIN ss)
           S == {ss[ids[k]].lastSeen : k \in 1 .. n}
           seen == [k \in DOMAIN ids |-> ss[ids[k]].lastSeen]
           sorted == Descending(seen)
           listed == First(sorted, SESSION_ROWS)
<1>1. ids \in Seq(DOMAIN ss) /\ Len(ids) = n /\ n \in Nat
    BY ListedOnce, FS_CardinalityType
<1>2. DOMAIN ids = 1 .. n /\ \A k \in 1 .. n : ids[k] \in DOMAIN ss
    <2> HIDE DEF ids, n
    <2> QED
        BY <1>1
<1>3. seen \in Seq(S) /\ Len(seen) = n
    <2> HIDE DEF ids, n
    <2> QED
        BY <1>1, <1>2
<1> HIDE DEF seen, S
<1>4. sorted \in Seq(1 .. n) /\ Len(sorted) = n
    BY <1>3, DescendingPositions
<1> HIDE DEF sorted
<1>5. listed \in Seq(1 .. n)
    <2>1. SESSION_ROWS \in Nat
        BY Caps
    <2> QED
        BY <1>4, <2>1, FirstIs
<1>6. SessionRows(ss) = [k \in DOMAIN listed |-> SessionRow(ss[ids[listed[k]]])]
    BY Zenon DEF SessionRows, listed, sorted, seen, ids
<1> HIDE DEF listed, ids, n
<1>7. i \in DOMAIN listed /\ SessionRows(ss)[i] = SessionRow(ss[ids[listed[i]]])
    BY <1>6
<1>8. listed[i] \in 1 .. n
    BY <1>5, <1>7, ElementIs
<1> QED
    BY <1>2, <1>7, <1>8

(* A list of events has finitely many sessions. *)
LEMMA FewSessions ==
    ASSUME NEW es \in Seq(StoredEvents)
    PROVE  IsFiniteSet(DOMAIN rollup(es))
<1> DEFINE n == Len(es)
           S == {es[i].session : i \in 1 .. n}
           g == [i \in 1 .. n |-> es[i].session]
<1>1. n \in Nat
    OBVIOUS
<1>2. g \in Surjection(1 .. n, S)
    BY Zenon DEF Surjection
<1>3. DOMAIN rollup(es) = S \ {None}
    BY RollupIs DEF RolledUp
<1> HIDE DEF n, S, g
<1>4. IsFiniteSet(1 .. n)
    BY <1>1, FS_Interval
<1>5. IsFiniteSet(S)
    BY <1>2, <1>4, FS_Surjection
<1>6. S \ {None} \subseteq S
    OBVIOUS
<1> QED
    BY <1>3, <1>5, <1>6, FS_Subset

(* What SessionsAgree asks of the entry of a session. *)
ReadsOff(e, es, s) ==
    LET Of == {i \in DOMAIN es : es[i].session = s}
    IN  /\ e.sessionId = s /\ e.count = Cardinality(Of)
        /\ e.lastSeen = Max({es[i].at : i \in Of})
        /\ e.riskMax = Max({es[i].risk : i \in Of})
        /\ Suspicious(e) <=> \E j \in Of : Max({es[j].risk, es[j].anomaly}) > SUSPICIOUS_ABOVE

(* An entry says of its session what SessionsAgree asks. *)
LEMMA EntryAgrees ==
    ASSUME NEW es \in Seq(StoredEvents), NEW e \in SessionEntries(es), NEW s,
           SessionRolled(e, es, s, Len(es))
    PROVE  ReadsOff(e, es, s)
<1> DEFINE Of == {i \in DOMAIN es : es[i].session = s}
<1>1. Of = SessionOf(es, s, Len(es)) /\ \A i \in Of : es[i] \in StoredEvents
    BY DEF SessionOf
<1>2. e.sessionId = s /\ e.count = Cardinality(Of) /\ Tops(e, es, Of)
    BY <1>1 DEF SessionRolled
<1> HIDE DEF Of
<1>3. Scores \subseteq Int
    BY DEF Scores, NoScore
<1>4. \A i \in Of : es[i].at \in Int /\ es[i].risk \in Int /\ es[i].anomaly \in Int
    <2> SUFFICES ASSUME NEW i \in Of
                 PROVE  es[i].at \in Int /\ es[i].risk \in Int /\ es[i].anomaly \in Int
        OBVIOUS
    <2>1. es[i] \in StoredEvents
        BY <1>1
    <2>2. es[i].at \in Nat /\ es[i].risk \in Scores /\ es[i].anomaly \in Scores
        BY <2>1, StoredFields
    <2> QED
        <3>1. es[i].at \in Int
            BY <2>2
        <3>2. es[i].risk \in Int /\ es[i].anomaly \in Int
            BY <1>3, <2>2, Zenon
        <3> QED
            BY <3>1, <3>2
<1>5. e.lastSeen \in Int /\ e.riskMax \in Int /\ e.anomalyMax \in Int
          /\ SUSPICIOUS_ABOVE \in Int
    BY <1>3, Caps DEF SessionEntries
<1>6. e.lastSeen = Max({es[i].at : i \in Of})
    <2> DEFINE T == {es[i].at : i \in Of}
    <2>1. T \in SUBSET Int /\ e.lastSeen \in T /\ \A x \in T : x <= e.lastSeen
        BY <1>2, <1>4 DEF Tops
    <2> HIDE DEF T
    <2>2. Max(T) = e.lastSeen
        BY <1>5, <2>1, TopIs
    <2> QED
        BY <2>2 DEF T
<1>7. e.riskMax = Max({es[i].risk : i \in Of})
    <2> DEFINE T == {es[i].risk : i \in Of}
    <2>1. T \in SUBSET Int /\ e.riskMax \in T /\ \A x \in T : x <= e.riskMax
        BY <1>2, <1>4 DEF Tops
    <2> HIDE DEF T
    <2>2. Max(T) = e.riskMax
        BY <1>5, <2>1, TopIs
    <2> QED
        BY <2>2 DEF T
<1>8. ASSUME NEW j \in Of
      PROVE  Max({es[j].risk, es[j].anomaly}) > SUSPICIOUS_ABOVE
                 <=> es[j].risk > SUSPICIOUS_ABOVE \/ es[j].anomaly > SUSPICIOUS_ABOVE
    BY <1>4, <1>5, LargerOfTwo
<1>9. Suspicious(e) <=> \E j \in Of : es[j].risk > SUSPICIOUS_ABOVE \/ es[j].anomaly > SUSPICIOUS_ABOVE
    <2>1. \A j \in Of : es[j].risk <= e.riskMax /\ es[j].anomaly <= e.anomalyMax
        BY <1>2 DEF Tops
    <2>2. PICK j \in Of : es[j].risk = e.riskMax
        BY <1>2 DEF Tops
    <2>3. PICK k \in Of : es[k].anomaly = e.anomalyMax
        BY <1>2 DEF Tops
    <2>4. ASSUME NEW i \in Of, es[i].risk > SUSPICIOUS_ABOVE \/ es[i].anomaly > SUSPICIOUS_ABOVE
          PROVE  Suspicious(e)
        <3>1. /\ es[i].risk \in Int /\ es[i].anomaly \in Int
              /\ es[i].risk <= e.riskMax /\ es[i].anomaly <= e.anomalyMax
            BY <1>4, <2>1
        <3> QED
            BY <1>5, <2>4, <3>1 DEF Suspicious
    <2> QED
        BY <2>2, <2>3, <2>4 DEF Suspicious
<1>10. Suspicious(e) <=> \E j \in Of : Max({es[j].risk, es[j].anomaly}) > SUSPICIOUS_ABOVE
    BY <1>8, <1>9, Zenon
<1> QED
    BY <1>2, <1>6, <1>7, <1>10, Zenon DEF Of, ReadsOff

LEMMA TableAgrees ==
    ASSUME events \in Seq(StoredEvents), sessions = rollup(events)
    PROVE  SessionsAgree
<1> DEFINE Of(s) == {i \in DOMAIN events : events[i].session = s}
<1>1. sessions \in RollUps(events) /\ RolledUp(sessions, events, Len(events))
    BY RollupIs
<1>2. DOMAIN events = 1 .. Len(events)
    OBVIOUS
<1>3. DOMAIN sessions = {events[i].session : i \in DOMAIN events} \ {None}
    BY <1>1, <1>2 DEF RolledUp
<1>4. ASSUME NEW s \in DOMAIN sessions
      PROVE  ReadsOff(sessions[s], events, s)
    <2>1. PICK D \in SUBSET Names(events) : sessions \in [D -> SessionEntries(events)]
        BY <1>1 DEF RollUps
    <2>2. sessions[s] \in SessionEntries(events)
              /\ SessionRolled(sessions[s], events, s, Len(events))
        BY <1>1, <2>1 DEF RolledUp
    <2> QED
        BY <2>2, EntryAgrees
<1>5. ASSUME NEW i \in DOMAIN SessionRows(sessions)
      PROVE  SessionRows(sessions)[i].status = "SUSPICIOUS" <=>
                 \E j \in Of(SessionRows(sessions)[i].session) :
                     Max({events[j].risk, events[j].anomaly}) > SUSPICIOUS_ABOVE
    <2>1. IsFiniteSet(DOMAIN sessions)
        BY FewSessions
    <2>2. PICK id \in DOMAIN sessions : SessionRows(sessions)[i] = SessionRow(sessions[id])
        BY <2>1, RowsAreOfSessions
    <2>3. SessionRows(sessions)[i].session = sessions[id].sessionId
        BY <2>2 DEF SessionRow
    <2>4. sessions[id].sessionId = id
        BY <1>4, Zenon DEF ReadsOff
    <2>5. SessionRows(sessions)[i].status =
              IF Suspicious(sessions[id]) THEN "SUSPICIOUS" ELSE "CLEAN"
        BY <2>2 DEF SessionRow
    <2>6. SessionRows(sessions)[i].status = "SUSPICIOUS" <=> Suspicious(sessions[id])
        BY <2>5
    <2>7. Suspicious(sessions[id]) <=>
              \E j \in Of(id) : Max({events[j].risk, events[j].anomaly}) > SUSPICIOUS_ABOVE
        BY <1>4, Zenon DEF ReadsOff
    <2>8. SessionRows(sessions)[i].session = id
        BY <2>3, <2>4, Zenon
    <2> HIDE DEF Of
    <2> QED
        BY <2>6, <2>7, <2>8, Zenon
<1>6. ASSUME NEW s \in DOMAIN sessions
      PROVE  /\ sessions[s].count = Cardinality(Of(s))
             /\ sessions[s].lastSeen = Max({events[i].at : i \in Of(s)})
             /\ sessions[s].riskMax = Max({events[i].risk : i \in Of(s)})
    BY <1>4, Zenon DEF ReadsOff
<1> QED
    BY <1>3, <1>5, <1>6, Zenon DEF SessionsAgree

(* The polling loop **********************************************************)
LegsOK == leg \in [Polls -> [LegNames -> LegStages]] /\ overlapped \in BOOLEAN

(* Until polls overlap there is at most one. *)
OneAtATime == ~overlapped => \A p, q \in Polls : InFlight(p) /\ InFlight(q) => p = q

(* The indicator, with what makes it inductive: the end of a poll switches it   *)
(* off, and leaves nothing in flight when it was the only one.                 *)
LoopInv == LegsOK /\ OneAtATime /\ IndicatorIsHonest

(* Events are numbered as they are recorded. *)
LogInv ==
    /\ now \in Nat /\ log \in Seq(StoredEvents)
    /\ \A i \in 1 .. Len(log) : log[i].id = i

(* An answer on its way is not older than what is shown, until polls overlap:   *)
(* it was read from the log after everything that has landed.                  *)
AnswerInv ==
    /\ answer \in [Polls -> Seq(StoredEvents)]
    /\ landed \in 0 .. Len(log)
    /\ \A p \in Polls : leg[p].events = "body" => Newest(answer[p]) \in 0 .. Len(log)
    /\ ~overlapped => \A p \in Polls : leg[p].events = "body" => Newest(answer[p]) >= landed

PollIInv == LoopInv /\ LogInv /\ AnswerInv

USE DEF LegNames, LegStages

LEMMA NobodyPolls == NotPolling \in [LegNames -> LegStages]
    BY DEF NotPolling

(* One leg of a poll that is in flight moves on: the poll stays in flight, and  *)
(* no other poll changes.                                                      *)
LEMMA LegMoves ==
    ASSUME LegsOK, NEW p \in Polls, NEW l \in LegNames, NEW v \in LegStages \ {"idle"},
           leg[p][l] # "idle", leg' = [leg EXCEPT ![p][l] = v]
    PROVE  /\ leg' \in [Polls -> [LegNames -> LegStages]]
           /\ \A q \in Polls : InFlight(q)' <=> InFlight(q)
<1>1. leg' \in [Polls -> [LegNames -> LegStages]]
    BY DEF LegsOK
<1>2. InFlight(p) /\ InFlight(p)'
    <2>1. NotPolling[l] = "idle"
        BY DEF NotPolling
    <2>2. leg'[p][l] = v
        BY DEF LegsOK
    <2> QED
        BY <2>1, <2>2 DEF InFlight
<1>3. \A q \in Polls : q # p => leg'[q] = leg[q]
    BY DEF LegsOK
<1> QED
    BY <1>1, <1>2, <1>3 DEF InFlight

(* A step that keeps who is in flight, the indicator and the history. *)
LEMMA LoopKept ==
    ASSUME LoopInv, leg' \in [Polls -> [LegNames -> LegStages]],
           \A q \in Polls : InFlight(q)' <=> InFlight(q),
           UNCHANGED <<polling, overlapped>>
    PROVE  LoopInv'
    BY DEF LoopInv, LegsOK, OneAtATime, IndicatorIsHonest

LEMMA LoopInit == PollInit => LoopInv
<1> SUFFICES ASSUME PollInit PROVE LoopInv
    OBVIOUS
<1>1. leg = [p \in Polls |-> NotPolling] /\ polling = FALSE /\ overlapped = FALSE
    BY DEF PollInit
<1>2. LegsOK
    BY <1>1, NobodyPolls DEF LegsOK
<1>3. \A p \in Polls : ~InFlight(p)
    BY <1>1 DEF InFlight
<1> QED
    BY <1>1, <1>2, <1>3 DEF LoopInv, OneAtATime, IndicatorIsHonest

LEMMA StartLoop == ASSUME LoopInv, NEW p \in Polls, pollAll(p) PROVE LoopInv'
<1> DEFINE Sent == [l \in LegNames |-> "sent"]
<1>1. leg' \in [Polls -> [LegNames -> LegStages]] /\ leg'[p] = Sent
    BY DEF pollAll, LoopInv, LegsOK
<1>2. Sent["events"] # NotPolling["events"]
    BY DEF NotPolling
<1>3. InFlight(p)' /\ \A q \in Polls : q # p => (InFlight(q)' <=> InFlight(q))
    <2>1. \A q \in Polls : q # p => leg'[q] = leg[q]
        BY DEF pollAll, LoopInv, LegsOK
    <2> QED
        BY <1>1, <1>2, <2>1 DEF InFlight
<1>4. overlapped' \in BOOLEAN /\ polling' = TRUE
    BY DEF pollAll, LoopInv, LegsOK
<1>5. ~overlapped' => \A q \in Polls : ~InFlight(q)
    BY DEF pollAll
<1>6. OneAtATime'
    BY <1>3, <1>5 DEF OneAtATime
<1>7. IndicatorIsHonest'
    BY <1>3, <1>4 DEF IndicatorIsHonest
<1> QED
    BY <1>1, <1>4, <1>6, <1>7 DEF LoopInv, LegsOK

LEMMA EndLoop == ASSUME LoopInv, NEW p \in Polls, PollEnds(p) PROVE LoopInv'
<1>1. leg' \in [Polls -> [LegNames -> LegStages]] /\ leg'[p] = NotPolling
    BY NobodyPolls DEF PollEnds, LoopInv, LegsOK
<1>2. ~InFlight(p)' /\ \A q \in Polls : q # p => (InFlight(q)' <=> InFlight(q))
    <2>1. \A q \in Polls : q # p => leg'[q] = leg[q]
        BY DEF PollEnds, LoopInv, LegsOK
    <2> QED
        BY <1>1, <2>1 DEF InFlight
<1>3. InFlight(p) /\ UNCHANGED overlapped /\ polling' = FALSE
    BY DEF PollEnds
<1>4. OneAtATime'
    BY <1>2, <1>3 DEF OneAtATime, LoopInv
<1>5. ~overlapped' => \A q \in Polls : ~InFlight(q)'
    BY <1>2, <1>3 DEF OneAtATime, LoopInv
<1>6. IndicatorIsHonest'
    BY <1>3, <1>5 DEF IndicatorIsHonest
<1> QED
    BY <1>1, <1>3, <1>4, <1>6 DEF LoopInv, LegsOK

(* What each step does to the legs. *)
LEMMA LegSteps ==
    ASSUME LoopInv, NEW p \in Polls, LegStep(p), ~PollEnds(p)
    PROVE  /\ leg' \in [Polls -> [LegNames -> LegStages]]
           /\ \A q \in Polls : InFlight(q)' <=> InFlight(q)
           /\ UNCHANGED <<polling, overlapped>>
<1> USE DEF Settle
<1> LegsOK
    BY DEF LoopInv
<1>1. CASE EventsHeaders(p)
    BY <1>1, LegMoves, "events" \in LegNames, "body" \in LegStages \ {"idle"} DEF EventsHeaders
<1>2. CASE EventsFail(p)
    BY <1>2, LegMoves, "events" \in LegNames, "done" \in LegStages \ {"idle"} DEF EventsFail
<1>3. CASE EventsLand(p)
    BY <1>3, LegMoves, "events" \in LegNames, "done" \in LegStages \ {"idle"} DEF EventsLand
<1>4. CASE HealthLand(p)
    BY <1>4, LegMoves, "health" \in LegNames, "done" \in LegStages \ {"idle"} DEF HealthLand
<1>5. CASE MetricsHeaders(p)
    BY <1>5, LegMoves, "metrics" \in LegNames, "body" \in LegStages \ {"idle"}
        DEF MetricsHeaders
<1>6. CASE MetricsLand(p)
    BY <1>6, LegMoves, "metrics" \in LegNames, "done" \in LegStages \ {"idle"} DEF MetricsLand
<1> QED
    BY <1>1, <1>2, <1>3, <1>4, <1>5, <1>6 DEF LegStep

LEMMA LoopStep == ASSUME LoopInv, [PollNext]_pollVars PROVE LoopInv'
<1>1. ASSUME UNCHANGED <<leg, polling, overlapped>> PROVE LoopInv'
    BY <1>1 DEF LoopInv, LegsOK, OneAtATime, IndicatorIsHonest, InFlight
<1>2. ASSUME NEW kind \in EventKinds, Record(kind) PROVE LoopInv'
    BY <1>1, <1>2 DEF Record, flight
<1>3. CASE PollTick
    BY <1>1, <1>3 DEF PollTick, flight
<1>4. ASSUME NEW p \in Polls, pollAll(p) PROVE LoopInv'
    BY <1>4, StartLoop
<1>5. ASSUME NEW p \in Polls, LegStep(p) PROVE LoopInv'
    BY <1>5, EndLoop, LegSteps, LoopKept
<1>6. CASE UNCHANGED pollVars
    BY <1>1, <1>6 DEF pollVars, flight
<1> QED
    BY <1>2, <1>3, <1>4, <1>5, <1>6 DEF PollNext

(* The log grows at its end and its entries are numbered. *)
LEMMA LogInit == PollInit => LogInv
<1> SUFFICES ASSUME PollInit PROVE LogInv
    OBVIOUS
<1>1. log = << >> /\ now = 0
    BY DEF PollInit
<1> QED
    BY <1>1, EmptySeq DEF LogInv

LEMMA RecordNumbers ==
    ASSUME LogInv, NEW kind \in EventKinds, Record(kind)
    PROVE  LogInv' /\ Len(log') = Len(log) + 1
<1> DEFINE entry == Stored(kind, Len(log) + 1, now)
<1>1. Len(log) \in Nat /\ now \in Nat /\ log \in Seq(StoredEvents)
    BY LenProperties DEF LogInv
<1>2. entry \in StoredEvents
    <2> DEFINE row == <<kind, Len(log) + 1, now>>
    <2>1. row \in EventKinds \X Nat \X Nat /\ entry = Stored(row[1], row[2], row[3])
        BY <1>1
    <2> HIDE DEF row, entry
    <2> QED
        BY <2>1 DEF StoredEvents
<1>3. entry.id = Len(log) + 1
    BY DEF Stored
<1> HIDE DEF entry
<1>4. log' = Append(log, entry) /\ UNCHANGED now
    BY DEF Record, entry
<1>5. log' \in Seq(StoredEvents) /\ Len(log') = Len(log) + 1
    BY <1>1, <1>2, <1>4, AppendProperties
<1>6. ASSUME NEW i \in 1 .. Len(log') PROVE log'[i].id = i
    <2>1. CASE i \in 1 .. Len(log)
        <3>1. log'[i] = log[i]
            BY <1>1, <1>2, <1>4, <2>1, AppendProperties
        <3> QED
            BY <2>1, <3>1 DEF LogInv
    <2>2. CASE i = Len(log) + 1
        <3>1. log'[i] = entry
            BY <1>1, <1>2, <1>4, <2>2, AppendProperties
        <3> QED
            BY <1>3, <2>2, <3>1
    <2> QED
        BY <1>1, <1>5, <2>1, <2>2
<1> QED
    BY <1>1, <1>4, <1>5, <1>6 DEF LogInv

LEMMA LogStep == ASSUME LogInv, [PollNext]_pollVars PROVE LogInv' /\ Len(log') >= Len(log)
<1>0. Len(log) \in Nat
    BY LenProperties DEF LogInv
<1>1. ASSUME UNCHANGED world PROVE LogInv' /\ Len(log') >= Len(log)
    BY <1>0, <1>1 DEF LogInv, world
<1>2. ASSUME NEW kind \in EventKinds, Record(kind) PROVE LogInv' /\ Len(log') >= Len(log)
    BY <1>0, <1>2, RecordNumbers
<1>3. CASE PollTick
    BY <1>0, <1>3 DEF PollTick, LogInv
<1>4. ASSUME NEW p \in Polls, pollAll(p) PROVE UNCHANGED world
    BY <1>4 DEF pollAll
<1>5. ASSUME NEW p \in Polls, LegStep(p) PROVE UNCHANGED world
    BY <1>5 DEF LegStep, EventsHeaders, EventsFail, EventsLand, HealthLand, MetricsHeaders,
                MetricsLand, PollEnds
<1>6. CASE UNCHANGED pollVars
    BY <1>1, <1>6 DEF pollVars
<1> QED
    BY <1>1, <1>2, <1>3, <1>4, <1>5, <1>6 DEF PollNext

(* A page of the log starts with its newest event. *)
LEMMA PageIsNewest ==
    ASSUME LogInv
    PROVE  Page(log) \in Seq(StoredEvents) /\ Newest(Page(log)) = Len(log)
<1> DEFINE n == Len(log)
           r == Reverse(log)
           m == Min({EVENT_FETCH_LIMIT, n})
<1>1. n \in Nat /\ log \in Seq(StoredEvents)
    BY LenProperties DEF LogInv
<1>2. r \in Seq(StoredEvents) /\ Len(r) = n /\ \A i \in 1 .. n : r[i] = log[n - i + 1]
    BY <1>1, \A i \in 1 .. n : log[n - i + 1] \in StoredEvents DEF Reverse
<1>3. m \in 0 .. n /\ (n > 0 => m > 0)
    <2>1. \E x \in {EVENT_FETCH_LIMIT, n} : \A y \in {EVENT_FETCH_LIMIT, n} : x <= y
        BY <1>1, PollingBounds
    <2>2. m \in {EVENT_FETCH_LIMIT, n} /\ \A y \in {EVENT_FETCH_LIMIT, n} : m <= y
        BY <2>1 DEF Min
    <2> QED
        BY <1>1, <2>2, PollingBounds
<1>4. Page(log) = SubSeq(r, 1, m)
    BY <1>2 DEF Page, First
<1> HIDE DEF r, m
<1>5. SubSeq(r, 1, m) \in Seq(StoredEvents) /\ Len(SubSeq(r, 1, m)) = m
    BY <1>1, <1>2, <1>3
<1>6. CASE n = 0
    <2>1. Page(log) = << >>
        BY <1>3, <1>4, <1>5, <1>6, EmptySeq, LenProperties
    <2> QED
        BY <1>4, <1>5, <1>6, <2>1 DEF Newest
<1>7. CASE n > 0
    <2>1. Page(log)[1] = log[n]
        BY <1>1, <1>2, <1>3, <1>4, <1>7
    <2>2. Page(log) # << >> /\ Head(Page(log)) = Page(log)[1]
        <3>1. Len(Page(log)) > 0 /\ Page(log) \in Seq(StoredEvents)
            BY <1>3, <1>4, <1>5, <1>7
        <3>2. Page(log) # << >>
            BY <3>1, EmptySeq
        <3> QED
            BY <3>1, <3>2, HeadTailProperties
    <2>3. log[n].id = n
        BY <1>1, <1>7 DEF LogInv
    <2> QED
        BY <1>4, <1>5, <2>1, <2>2, <2>3 DEF Newest
<1> QED
    BY <1>1, <1>6, <1>7

(* Answers on their way **********************************************************)
LEMMA AnswerInit == PollInit => AnswerInv
<1> SUFFICES ASSUME PollInit PROVE AnswerInv
    OBVIOUS
<1>1. log = << >> /\ landed = 0
    BY DEF PollInit
<1>2. Len(log) = 0
    BY <1>1
<1>3. answer = [p \in Polls |-> << >>] /\ leg = [p \in Polls |-> NotPolling]
    BY DEF PollInit
<1>4. answer \in [Polls -> Seq(StoredEvents)]
    BY <1>3, EmptySeq
<1>5. \A p \in Polls : leg[p].events # "body"
    BY <1>3 DEF NotPolling
<1> QED
    BY <1>1, <1>2, <1>4, <1>5 DEF AnswerInv

(* A step that leaves the answers and what is shown, and starts no body. *)
LEMMA AnswerKept ==
    ASSUME LogInv, AnswerInv, UNCHANGED <<answer, landed>>, Len(log') \in Nat,
           Len(log') >= Len(log), overlapped => overlapped',
           \A q \in Polls : leg'[q].events = "body" => leg[q].events = "body"
    PROVE  AnswerInv'
<1>1. Len(log) \in Nat
    BY LenProperties DEF LogInv
<1>2. \A q \in Polls : Newest(answer[q])' = Newest(answer[q])
    BY DEF Newest
<1>3. landed' \in 0 .. Len(log)'
    BY <1>1 DEF AnswerInv
<1>4. \A q \in Polls : leg'[q].events = "body" => Newest(answer[q])' \in 0 .. Len(log')
    BY <1>1, <1>2 DEF AnswerInv
<1>5. ~overlapped' => \A q \in Polls : leg'[q].events = "body" =>
          Newest(answer[q])' >= landed'
    BY <1>2 DEF AnswerInv
<1> QED
    BY <1>3, <1>4, <1>5 DEF AnswerInv

LEMMA AnswerRead ==
    ASSUME LegsOK, LogInv, AnswerInv, NEW p \in Polls, EventsHeaders(p)
    PROVE  AnswerInv'
<1>1. Len(log) \in Nat /\ UNCHANGED <<log, landed, overlapped>>
    BY LenProperties DEF EventsHeaders, LogInv, world, shown
<1>2. Page(log) \in Seq(StoredEvents) /\ Newest(Page(log)) = Len(log)
    BY PageIsNewest
<1>3. answer' = [answer EXCEPT ![p] = Page(log)] /\ leg' = [leg EXCEPT ![p].events = "body"]
    BY DEF EventsHeaders
<1>4. answer' \in [Polls -> Seq(StoredEvents)] /\ answer'[p] = Page(log)
    BY <1>2, <1>3 DEF AnswerInv
<1>5. \A q \in Polls : q # p => answer'[q] = answer[q] /\ leg'[q] = leg[q]
    BY <1>3 DEF AnswerInv, LegsOK
<1>6. Newest(answer[p])' = Len(log)
    BY <1>2, <1>4 DEF Newest
<1>7. \A q \in Polls : q # p => Newest(answer[q])' = Newest(answer[q])
    BY <1>5 DEF Newest
<1>8. ASSUME NEW q \in Polls, leg'[q].events = "body"
      PROVE  Newest(answer[q])' \in 0 .. Len(log)
                 /\ (~overlapped => Newest(answer[q])' >= landed)
    <2>1. CASE q = p
        BY <1>1, <1>6, <2>1 DEF AnswerInv
    <2>2. CASE q # p
        BY <1>5, <1>7, <1>8, <2>2 DEF AnswerInv
    <2> QED
        BY <2>1, <2>2
<1> QED
    BY <1>1, <1>4, <1>8 DEF AnswerInv

LEMMA AnswerDropped ==
    ASSUME LegsOK, LogInv, AnswerInv, NEW p \in Polls, EventsFail(p)
    PROVE  AnswerInv'
<1>1. UNCHANGED <<log, landed, overlapped>>
    BY DEF EventsFail, world, shown
<1>2. answer' = [answer EXCEPT ![p] = << >>] /\ leg' = [leg EXCEPT ![p]["events"] = "done"]
    BY DEF EventsFail, Settle
<1>3. answer' \in [Polls -> Seq(StoredEvents)]
    BY <1>2, EmptySeq DEF AnswerInv
<1>4. \A q \in Polls : q # p => answer'[q] = answer[q] /\ leg'[q] = leg[q]
    BY <1>2 DEF AnswerInv, LegsOK
<1>5. leg'[p].events # "body"
    BY <1>2 DEF LegsOK
<1>6. \A q \in Polls : leg'[q].events = "body" => q # p
          /\ Newest(answer[q])' = Newest(answer[q])
    BY <1>4, <1>5 DEF Newest
<1>7. \A q \in Polls : leg'[q].events = "body" => leg[q].events = "body"
    BY <1>4, <1>5
<1> QED
    BY <1>1, <1>3, <1>6, <1>7 DEF AnswerInv

LEMMA AnswerLands ==
    ASSUME LegsOK, OneAtATime, LogInv, AnswerInv, NEW p \in Polls, EventsLand(p)
    PROVE  AnswerInv' /\ (landed' >= landed \/ overlapped')
<1>1. UNCHANGED <<log, overlapped>> /\ leg[p].events = "body" /\ landed' = Newest(answer[p])
    BY DEF EventsLand, world
<1>2. answer' = [answer EXCEPT ![p] = << >>] /\ leg' = [leg EXCEPT ![p]["events"] = "done"]
    BY DEF EventsLand, Settle
<1>3. answer' \in [Polls -> Seq(StoredEvents)]
    BY <1>2, EmptySeq DEF AnswerInv
<1>4. \A q \in Polls : q # p => answer'[q] = answer[q] /\ leg'[q] = leg[q]
    BY <1>2 DEF AnswerInv, LegsOK
<1>5. leg'[p].events # "body"
    BY <1>2 DEF LegsOK
<1>6. \A q \in Polls : leg'[q].events = "body" => q # p
          /\ Newest(answer[q])' = Newest(answer[q])
    BY <1>4, <1>5 DEF Newest
<1>7. \A q \in Polls : leg'[q].events = "body" => leg[q].events = "body"
    BY <1>4, <1>5
<1>8. \A q \in Polls : leg[q].events = "body" => InFlight(q)
    <2>1. NotPolling["events"] = "idle"
        BY DEF NotPolling
    <2> QED
        BY <2>1 DEF InFlight
<1>9. ~overlapped => \A q \in Polls : leg'[q].events # "body"
    BY <1>1, <1>6, <1>7, <1>8 DEF OneAtATime
<1>10. landed' \in 0 .. Len(log) /\ (~overlapped => landed' >= landed)
    BY <1>1 DEF AnswerInv
<1> QED
    BY <1>1, <1>3, <1>6, <1>7, <1>9, <1>10 DEF AnswerInv

LEMMA AnswerStep ==
    ASSUME PollIInv, [PollNext]_pollVars
    PROVE  AnswerInv' /\ (landed' >= landed \/ overlapped')
<1> LegsOK /\ OneAtATime /\ LogInv /\ AnswerInv
    BY DEF PollIInv, LoopInv
<1>1. Len(log) \in Nat /\ Len(log') \in Nat /\ Len(log') >= Len(log)
    <2>1. LogInv' /\ Len(log') >= Len(log)
        BY LogStep
    <2> QED
        BY <2>1, LenProperties DEF LogInv
<1>2. ASSUME UNCHANGED <<answer, landed>>, overlapped => overlapped',
             \A q \in Polls : leg'[q].events = "body" => leg[q].events = "body"
      PROVE  AnswerInv' /\ (landed' >= landed \/ overlapped')
    <2>1. AnswerInv'
        BY <1>1, <1>2, AnswerKept
    <2> QED
        BY <1>2, <2>1 DEF AnswerInv
<1>3. ASSUME NEW kind \in EventKinds, Record(kind)
      PROVE  AnswerInv' /\ (landed' >= landed \/ overlapped')
    BY <1>2, <1>3 DEF Record, flight, shown
<1>4. CASE PollTick
    BY <1>2, <1>4 DEF PollTick, flight, shown
<1>5. ASSUME NEW p \in Polls, pollAll(p)
      PROVE  AnswerInv' /\ (landed' >= landed \/ overlapped')
    <2>1. \A q \in Polls : leg'[q].events = "body" => leg[q].events = "body"
        BY <1>5 DEF pollAll, LegsOK
    <2>2. UNCHANGED <<answer, landed>> /\ (overlapped => overlapped')
        BY <1>5 DEF pollAll, shown
    <2> QED
        BY <1>2, <2>1, <2>2
<1>6. ASSUME NEW p \in Polls, LegStep(p)
      PROVE  AnswerInv' /\ (landed' >= landed \/ overlapped')
    <2>1. CASE EventsHeaders(p)
        <3>1. AnswerInv' /\ UNCHANGED landed
            BY <2>1, AnswerRead DEF EventsHeaders, shown
        <3> QED
            BY <3>1 DEF AnswerInv
    <2>2. CASE EventsFail(p)
        <3>1. AnswerInv' /\ UNCHANGED landed
            BY <2>2, AnswerDropped DEF EventsFail, shown
        <3> QED
            BY <3>1 DEF AnswerInv
    <2>3. CASE EventsLand(p)
        BY <2>3, AnswerLands
    <2>4. CASE HealthLand(p) \/ MetricsHeaders(p) \/ MetricsLand(p)
        <3>1. \A q \in Polls : leg'[q].events = "body" => leg[q].events = "body"
            BY <2>4 DEF HealthLand, MetricsHeaders, MetricsLand, Settle, LegsOK
        <3>2. UNCHANGED <<answer, landed, overlapped>>
            BY <2>4 DEF HealthLand, MetricsHeaders, MetricsLand, shown
        <3> QED
            BY <1>2, <3>1, <3>2
    <2>5. CASE PollEnds(p)
        <3>1. \A q \in Polls : leg'[q].events = "body" => leg[q].events = "body"
            BY <2>5 DEF PollEnds, NotPolling, LegsOK
        <3>2. UNCHANGED <<answer, landed, overlapped>>
            BY <2>5 DEF PollEnds, shown
        <3> QED
            BY <1>2, <3>1, <3>2
    <2> QED
        BY <1>6, <2>1, <2>2, <2>3, <2>4, <2>5 DEF LegStep
<1>7. CASE UNCHANGED pollVars
    BY <1>2, <1>7 DEF pollVars, flight, shown
<1> QED
    BY <1>3, <1>4, <1>5, <1>6, <1>7 DEF PollNext

(* App.jsx:304-310.  The indicator is never left on by a poll that is over, and  *)
(* unless polls have overlapped it is on exactly during one.                   *)
THEOREM IndicatorHonest == PollSpec => []IndicatorIsHonest
<1>1. LoopInv => IndicatorIsHonest
    BY DEF LoopInv
<1> QED
    BY LoopInit, LoopStep, <1>1, PTL DEF PollSpec

(* App.jsx:234-263.  The newest event on screen never goes back to an older one  *)
(* while polls have not overlapped, whichever fetches fail: an answer is at    *)
(* least as new as what has landed before it was read.                        *)
THEOREM NeverStepsBack == PollSpec => NoStepBack
<1>1. PollInit => PollIInv
    BY LoopInit, LogInit, AnswerInit DEF PollIInv
<1>2. PollIInv /\ [PollNext]_pollVars => PollIInv'
    BY LoopStep, LogStep, AnswerStep DEF PollIInv
<1>3. PollIInv /\ [PollNext]_pollVars => [landed' >= landed \/ overlapped']_pollVars
    BY AnswerStep
<1> QED
    BY <1>1, <1>2, <1>3, PTL DEF PollSpec, NoStepBack

(* What is shown ***************************************************************)
(* The trend ends with the score of the newest event that is shown, if any. *)
TrendFits ==
    /\ anomalyHist \in [1 .. ANM_HISTORY -> Scores]
    /\ latestAnomaly(events) # NoScore => anomalyHist[ANM_HISTORY] = latestAnomaly(events)

(* The panels agree when the table and the trend are those of the events. *)
LEMMA PanelsFit ==
    ASSUME events \in Seq(StoredEvents), memoAt \in Nat, sessions = rollup(events),
           TrendFits
    PROVE  PanelsAgree
<1>1. ASSUME NEW c \in CLASSES
      PROVE  ChartData.decisions[c] =
                 Cardinality({i \in DOMAIN FeedRows(events) : FeedRows(events)[i].badge = c})
    <2>1. ChartData.decisions = decisionCounts(events)
        BY DEF ChartData
    <2> QED
        BY <2>1, ChartCountsBadges, Zenon
<1>2. ASSUME NEW t \in EVENT_TYPES
      PROVE  Total(heatmap(events, memoAt)[t]) =
                 Cardinality({i \in Recently(events, memoAt) : events[i].type = t})
    BY HeatmapHoldsRecent
<1>3. ASSUME NEW t \in EVENT_TYPES
      PROVE  heatmap(events, memoAt)[t][HOURS] >= Len(CurrentOf(events, memoAt, t))
    BY LastColumnHoldsCurrent
<1>4. ASSUME NEW t \in EVENT_TYPES, NEW c \in 1 .. HOURS
      PROVE  HeatmapTable(events, memoAt)[t][c] > 0 <=> heatmap(events, memoAt)[t][c] > 0
    BY CellIsShaded
<1>5. ASSUME NEW i \in DOMAIN AlertRows(events, memoAt)
      PROVE  AlertRows(events, memoAt)[i].badge \in {"deny", "revoke"}
    BY AlertsAreRefusals
<1>6. Cardinality(ColorsOf(events)) = 1 =>
          ChartData.risk \subseteq ColorsOf(events) \/ OnEdge(events)
    <2>1. ChartData.risk = {RiskGauge(events, low) : low \in {0, 1}}
        BY DEF ChartData
    <2>2. ASSUME Cardinality(ColorsOf(events)) = 1, ~OnEdge(events)
          PROVE  \A low \in {0, 1} : RiskGauge(events, low) \in ColorsOf(events)
        BY <2>2, GaugeHasOneColor, Zenon
    <2> QED
        BY <2>1, <2>2, Zenon
<1>7. latestAnomaly(events) # NoScore => Last(ChartData.anomaly) = latestAnomaly(events)
    <2>1. ChartData.anomaly = anomalyHist
        BY DEF ChartData
    <2>2. anomalyHist \in Seq(Scores) /\ Len(anomalyHist) = ANM_HISTORY
        <3>1. ANM_HISTORY \in Nat
            BY PollingBounds
        <3> QED
            BY <3>1, LenProperties DEF TrendFits
    <2>3. Last(anomalyHist) = anomalyHist[ANM_HISTORY]
        BY <2>2, Zenon DEF Last
    <2> QED
        BY <2>1, <2>3, Zenon DEF TrendFits
<1>8. Len(SessionRows(sessions)) =
          AtMost(OrZero(StatCards(metrics, sessions).sessions), SESSION_ROWS)
    BY FewSessions, CardCountsRows
<1>9. TopBar(health, metrics, polling).threat = "LOW" =>
          \A s \in SERVICES : HealthTiles(health).tiles[s] # "down"
    BY LowMeansNoneDown, Zenon
<1> QED
    BY <1>1, <1>2, <1>3, <1>4, <1>5, <1>6, <1>7, <1>8, <1>9, Zenon
    DEF PanelsAgree, Recently, CurrentOf, ColorsOf, OnEdge
(* What is on screen is a page of recorded events, and the session table and    *)
(* the trend were computed from it.                                            *)
ShownInv ==
    /\ \A p \in Polls : Len(answer[p]) <= EVENT_FETCH_LIMIT
    /\ events \in Seq(StoredEvents) /\ Len(events) <= EVENT_FETCH_LIMIT
    /\ sessions = rollup(events)
    /\ TrendFits
    /\ memoAt \in 0 .. now

(* The values that come and go whole. *)
SettledOK ==
    /\ health \in [SERVICES -> {"unknown", "ok", "degraded", "down"}]
    /\ metrics \in [{"dpm", "denyPct", "anmPct"} -> Nat \cup {NoScore}]
    /\ polling \in BOOLEAN /\ lastUpdated \in BOOLEAN /\ connecting \in BOOLEAN

LEMMA NoEventsNoSessions == rollup(<< >>) = NoSessions
<1>1. << >> \in Seq(StoredEvents) /\ Len(<< >>) = 0
    BY EmptySeq
<1>2. PICK f : rollup(<< >>) = f[Len(<< >>)] /\ f[0] = NoSessions
    BY <1>1, RollRecursion, Zenon
<1> QED
    BY <1>1, <1>2

LEMMA LatestIs ==
    ASSUME NEW es \in Seq(StoredEvents)
    PROVE  latestAnomaly(es) \in Scores
<1>1. CASE es = << >>
    BY <1>1 DEF latestAnomaly, Scores, NoScore
<1>2. CASE es # << >>
    <2>1. Head(es) \in StoredEvents
        BY <1>2, HeadTailProperties
    <2>2. latestAnomaly(es) = Head(es).anomaly
        BY <1>2, Zenon DEF latestAnomaly
    <2> QED
        BY <2>1, <2>2, StoredFields, Zenon
<1> QED
    BY <1>1, <1>2

LEMMA ShownInit == PollInit => ShownInv /\ SettledOK
<1> SUFFICES ASSUME PollInit PROVE ShownInv /\ SettledOK
    OBVIOUS
<1>1. /\ events = << >> /\ sessions = NoSessions /\ now = 0 /\ memoAt = 0
      /\ answer = [p \in Polls |-> << >>] /\ anomalyHist = [i \in 1 .. ANM_HISTORY |-> 0]
    BY DEF PollInit
<1>2. << >> \in Seq(StoredEvents) /\ Len(<< >>) = 0 /\ EVENT_FETCH_LIMIT \in Nat
    BY EmptySeq, PollingBounds
<1>3. 0 \in Scores /\ latestAnomaly(<< >>) = NoScore
    BY DEF Scores, NoScore, latestAnomaly
<1>4. TrendFits
    BY <1>1, <1>3 DEF TrendFits
<1>5. ShownInv
    <2>1. \A p \in Polls : answer[p] = << >>
        BY <1>1
    <2>2. \A p \in Polls : Len(answer[p]) <= EVENT_FETCH_LIMIT
        BY <1>2, <2>1
    <2>3. sessions = rollup(events)
        BY <1>1, NoEventsNoSessions
    <2>4. memoAt \in 0 .. now
        BY <1>1
    <2>5. events \in Seq(StoredEvents) /\ Len(events) <= EVENT_FETCH_LIMIT
        BY <1>1, <1>2
    <2> QED
        BY <1>4, <2>2, <2>3, <2>4, <2>5 DEF ShownInv
<1>6. SettledOK
    <2>1. NoMetrics \in [{"dpm", "denyPct", "anmPct"} -> Nat \cup {NoScore}]
        BY DEF NoMetrics
    <2>2. health \in [SERVICES -> {"unknown", "ok", "degraded", "down"}]
        BY DEF PollInit
    <2>3. metrics = NoMetrics /\ polling = FALSE /\ lastUpdated = FALSE /\ connecting = TRUE
        BY Zenon DEF PollInit
    <2> QED
        BY <2>1, <2>2, <2>3 DEF SettledOK
<1> QED
    BY <1>5, <1>6

(* The trend stays as long as it is and ends with the newest score. *)
LEMMA TrendMoves ==
    ASSUME TrendFits, events \in Seq(StoredEvents), NEW fetched \in Seq(StoredEvents),
           events' = fetched, anomalyHist' = Trend(fetched)
    PROVE  TrendFits'
<1> DEFINE latest == latestAnomaly(fetched)
<1>1. latest \in Scores /\ latestAnomaly(events)' = latest
    <2>1. latest \in Scores
        BY LatestIs
    <2> QED
        BY <2>1 DEF latestAnomaly
<1>2. ANM_HISTORY \in Nat /\ ANM_HISTORY >= 1
    BY PollingBounds
<1> HIDE DEF latest
<1>3. anomalyHist' = IF latest = NoScore \/ latest = latestAnomaly(events) THEN anomalyHist
                     ELSE Append(Tail(anomalyHist), latest)
    BY Zenon DEF Trend, latest
<1>4. CASE latest = NoScore \/ latest = latestAnomaly(events)
    BY <1>1, <1>3, <1>4, Zenon DEF TrendFits
<1>5. CASE ~ (latest = NoScore \/ latest = latestAnomaly(events))
    <2>1. anomalyHist \in Seq(Scores) /\ Len(anomalyHist) = ANM_HISTORY
              /\ anomalyHist # << >>
        BY <1>2, EmptySeq DEF TrendFits
    <2>2. Tail(anomalyHist) \in Seq(Scores) /\ Len(Tail(anomalyHist)) = ANM_HISTORY - 1
        BY <2>1, HeadTailProperties
    <2>3. /\ anomalyHist' \in Seq(Scores) /\ Len(anomalyHist') = (ANM_HISTORY - 1) + 1
          /\ anomalyHist'[(ANM_HISTORY - 1) + 1] = latest
        BY <1>1, <1>3, <1>5, <2>2, AppendProperties
    <2>4. (ANM_HISTORY - 1) + 1 = ANM_HISTORY
        BY <1>2
    <2>5. anomalyHist' \in [1 .. ANM_HISTORY -> Scores]
              /\ anomalyHist'[ANM_HISTORY] = latest
        BY <2>3, <2>4, LenProperties
    <2> QED
        BY <1>1, <2>5, Zenon DEF TrendFits
<1> QED
    BY <1>4, <1>5

LEMMA PageIsShort == ASSUME LogInv PROVE Len(Page(log)) <= EVENT_FETCH_LIMIT
<1> DEFINE n == Len(log)
           r == Reverse(log)
<1>1. n \in Nat /\ log \in Seq(StoredEvents) /\ EVENT_FETCH_LIMIT \in Nat
    BY LenProperties, PollingBounds DEF LogInv
<1>2. r \in Seq(StoredEvents) /\ Len(r) = n
    BY <1>1, \A i \in 1 .. n : log[n - i + 1] \in StoredEvents DEF Reverse
<1> HIDE DEF n, r
<1>3. Len(First(r, EVENT_FETCH_LIMIT)) = AtMost(n, EVENT_FETCH_LIMIT)
    BY <1>1, <1>2, FirstIs
<1>4. AtMost(n, EVENT_FETCH_LIMIT) <= EVENT_FETCH_LIMIT
    <2>1. n \in Int /\ EVENT_FETCH_LIMIT \in Int
        BY <1>1
    <2> QED
        BY <2>1, SmallerOfTwo, Zenon DEF AtMost
<1> QED
    BY <1>3, <1>4 DEF Page, r

LEMMA ShownStep ==
    ASSUME PollIInv, ShownInv, [PollNext]_pollVars
    PROVE  ShownInv'
<1> LegsOK /\ LogInv /\ AnswerInv
    BY DEF PollIInv, LoopInv
<1> answer \in [Polls -> Seq(StoredEvents)] /\ now \in Nat
    BY DEF AnswerInv, LogInv
<1>1. ASSUME UNCHANGED <<events, sessions, anomalyHist, memoAt>>, now' \in Nat, now <= now',
             \A q \in Polls : Len(answer'[q]) <= EVENT_FETCH_LIMIT
      PROVE  ShownInv'
    BY <1>1 DEF ShownInv, TrendFits, latestAnomaly
<1>2. ASSUME UNCHANGED <<events, sessions, anomalyHist, memoAt, now, answer>>
      PROVE  ShownInv'
    BY <1>1, <1>2 DEF ShownInv
<1>3. ASSUME NEW kind \in EventKinds, Record(kind) PROVE ShownInv'
    BY <1>2, <1>3 DEF Record, flight, shown
<1>4. CASE PollTick
    BY <1>1, <1>4 DEF PollTick, flight, shown, ShownInv
<1>5. ASSUME NEW p \in Polls, pollAll(p) PROVE ShownInv'
    BY <1>2, <1>5 DEF pollAll, world, shown
<1>6. ASSUME NEW p \in Polls, LegStep(p) PROVE ShownInv'
    <2>1. CASE EventsHeaders(p)
        <3>1. \A q \in Polls : answer'[q] = IF q = p THEN Page(log) ELSE answer[q]
            BY <2>1 DEF EventsHeaders
        <3>2. \A q \in Polls : Len(answer'[q]) <= EVENT_FETCH_LIMIT
            BY <3>1, PageIsShort DEF ShownInv
        <3> QED
            BY <1>1, <2>1, <3>2 DEF EventsHeaders, world, shown
    <2>2. \A q \in Polls : (EventsFail(p) \/ EventsLand(p)) =>
              Len(answer'[q]) <= EVENT_FETCH_LIMIT
        <3> SUFFICES ASSUME NEW q \in Polls, EventsFail(p) \/ EventsLand(p)
                     PROVE  Len(answer'[q]) <= EVENT_FETCH_LIMIT
            OBVIOUS
        <3>1. answer'[q] = IF q = p THEN << >> ELSE answer[q]
            BY DEF EventsFail, EventsLand
        <3>2. Len(<< >>) = 0 /\ EVENT_FETCH_LIMIT \in Nat
            BY EmptySeq, PollingBounds
        <3> QED
            BY <3>1, <3>2 DEF ShownInv
    <2>3. CASE EventsFail(p)
        BY <1>1, <2>2, <2>3 DEF EventsFail, world, shown
    <2>4. CASE EventsLand(p)
        <3>1. /\ events' = answer[p] /\ sessions' = rollup(answer[p]) /\ now' = now
              /\ anomalyHist' = Trend(answer[p]) /\ memoAt' = now
            BY <2>4 DEF EventsLand, world
        <3>2. TrendFits'
            BY <3>1, TrendMoves DEF ShownInv
        <3>3. sessions' = rollup(events)'
            BY <3>1
        <3> QED
            BY <2>2, <2>4, <3>1, <3>2, <3>3 DEF ShownInv
    <2>5. CASE HealthLand(p)
        BY <1>2, <2>5 DEF HealthLand, world, shown
    <2>6. CASE MetricsHeaders(p)
        BY <1>2, <2>6 DEF MetricsHeaders, world, shown
    <2>7. CASE MetricsLand(p)
        BY <1>2, <2>7 DEF MetricsLand, world, shown
    <2>8. CASE PollEnds(p)
        BY <1>2, <2>8 DEF PollEnds, world, shown
    <2> QED
        BY <1>6, <2>1, <2>3, <2>4, <2>5, <2>6, <2>7, <2>8 DEF LegStep
<1>7. CASE UNCHANGED pollVars
    BY <1>2, <1>7 DEF pollVars, flight, world, shown
<1> QED
    BY <1>3, <1>4, <1>5, <1>6, <1>7 DEF PollNext

LEMMA SettledStep ==
    ASSUME SettledOK, [PollNext]_pollVars
    PROVE  SettledOK'
<1>1. ASSUME UNCHANGED <<health, metrics, polling, lastUpdated, connecting>>
      PROVE  SettledOK'
    BY <1>1 DEF SettledOK
<1>2. ASSUME NEW kind \in EventKinds, Record(kind) PROVE SettledOK'
    BY <1>1, <1>2 DEF Record
<1>3. CASE PollTick
    BY <1>1, <1>3 DEF PollTick
<1>4. ASSUME NEW p \in Polls, pollAll(p) PROVE SettledOK'
    BY <1>4 DEF pollAll, SettledOK
<1>5. ASSUME NEW p \in Polls, LegStep(p) PROVE SettledOK'
    <2>1. CASE EventsHeaders(p)
        BY <1>1, <2>1 DEF EventsHeaders
    <2>2. CASE EventsFail(p)
        BY <1>1, <2>2 DEF EventsFail
    <2>3. CASE EventsLand(p)
        BY <1>1, <2>3 DEF EventsLand
    <2>4. CASE HealthLand(p)
        <3>1. health' \in [SERVICES -> {"ok", "degraded", "down"}]
            BY <2>4, AnswerKinds DEF HealthLand
        <3>2. health' \in [SERVICES -> {"unknown", "ok", "degraded", "down"}]
            BY <3>1
        <3> QED
            BY <2>4, <3>2 DEF HealthLand, SettledOK
    <2>5. CASE MetricsHeaders(p)
        BY <1>1, <2>5 DEF MetricsHeaders
    <2>6. CASE MetricsLand(p)
        <3>1. NoMetrics \in [{"dpm", "denyPct", "anmPct"} -> Nat \cup {NoScore}]
            BY DEF NoMetrics
        <3>2. metrics' \in [{"dpm", "denyPct", "anmPct"} -> Nat \cup {NoScore}]
            BY <2>6, <3>1, AnswerKinds DEF MetricsLand
        <3> QED
            BY <2>6, <3>2 DEF MetricsLand, SettledOK
    <2>7. CASE PollEnds(p)
        BY <2>7 DEF PollEnds, SettledOK
    <2> QED
        BY <1>5, <2>1, <2>2, <2>3, <2>4, <2>5, <2>6, <2>7 DEF LegStep
<1>6. CASE UNCHANGED pollVars
    BY <1>1, <1>6 DEF pollVars
<1> QED
    BY <1>2, <1>3, <1>4, <1>5, <1>6 DEF PollNext

ShownAll == PollIInv /\ ShownInv /\ SettledOK

LEMMA ShownAllInit == PollInit => ShownAll
    BY LoopInit, LogInit, AnswerInit, ShownInit DEF ShownAll, PollIInv

LEMMA ShownAllStep == ShownAll /\ [PollNext]_pollVars => ShownAll'
<1>1. PollIInv /\ [PollNext]_pollVars => PollIInv'
    BY LoopStep, LogStep, AnswerStep DEF PollIInv
<1> QED
    BY <1>1, ShownStep, SettledStep DEF ShownAll

(* App.jsx:249-258.  The roll-up of pollEvents leaves one entry for each session *)
(* of the events on screen, with the number of its events, the highest of its  *)
(* scores and the time of its latest event, and the table marks as suspicious  *)
(* exactly the sessions with an event above the threshold.                     *)
THEOREM SessionTableAgrees == PollSpec => []SessionsAgree
<1>1. ShownAll => SessionsAgree
    BY TableAgrees DEF ShownAll, ShownInv
<1> QED
    BY ShownAllInit, ShownAllStep, <1>1, PTL DEF PollSpec

(* App.jsx:352-416.  The decision chart counts the badges of the feed, the       *)
(* heatmap holds the events of the last hours with the current alerts in its   *)
(* last column, the risk gauge has the colour of a feed of one colour, the     *)
(* trend ends with the newest score, the session card counts the rows of the   *)
(* table, and the header does not read LOW over a tile that is down.           *)
THEOREM PanelsReadTheSame == PollSpec => []PanelsAgree
<1>1. ShownAll => PanelsAgree
    <2>1. ShownInv /\ now \in Nat => memoAt \in Nat
        BY DEF ShownInv
    <2> QED
        BY <2>1, PanelsFit DEF ShownAll, ShownInv, PollIInv, LogInv
<1> QED
    BY ShownAllInit, ShownAllStep, <1>1, PTL DEF PollSpec

LEMMA PollTypes == ShownAll => PollTypeOK
<1> SUFFICES ASSUME ShownAll PROVE PollTypeOK
    OBVIOUS
<1>1. leg \in [Polls -> [LegNames -> {"idle", "sent", "body", "done"}]]
          /\ overlapped \in BOOLEAN
    BY DEF ShownAll, PollIInv, LoopInv, LegsOK
<1>2. landed \in 0 .. Len(log)
    BY DEF ShownAll, PollIInv, AnswerInv
<1>3. /\ \A p \in Polls : Len(answer[p]) <= EVENT_FETCH_LIMIT
      /\ Len(events) <= EVENT_FETCH_LIMIT
      /\ anomalyHist \in [1 .. ANM_HISTORY -> Scores] /\ memoAt \in 0 .. now
    BY DEF ShownAll, ShownInv, TrendFits
<1>4. SettledOK
    BY DEF ShownAll
<1>5. {polling, lastUpdated, connecting, overlapped} \subseteq BOOLEAN
    <2>1. polling \in BOOLEAN /\ lastUpdated \in BOOLEAN /\ connecting \in BOOLEAN
        BY <1>4, Zenon DEF SettledOK
    <2> QED
        BY <1>1, <2>1, Zenon
<1> QED
    BY <1>1, <1>2, <1>3, <1>4, <1>5, Zenon DEF PollTypeOK, SettledOK

LEMMA PollTypesHold == PollInit /\ [][PollNext]_pollVars => []PollTypeOK
    BY ShownAllInit, ShownAllStep, PollTypes, PTL

(* The types of the polling loop, and with them that answers and feed are never *)
(* longer than the page asked for and the memoised views never of the future.  *)
THEOREM PollTypeCorrect == PollSpec => []PollTypeOK
    BY PollTypesHold, PTL DEF PollSpec

-----------------------------------------------------------------------------
(* The workspace *)

(* Which canvases are on screen, and on which the charts were made. *)
CanvasInv ==
    /\ charts = [c \in DOMAIN CHART_TYPES |-> charts[c]]
    /\ route \in ROUTES /\ visits \in Nat /\ canvas \in 0 .. visits
    /\ page = "loading" => route = "overview" /\ visits = 0
    /\ page = "up" =>
          /\ \A c \in DOMAIN CHART_TYPES : charts[c] = 1
          /\ visits >= 1
          /\ canvas = 0 <=> route # "overview"

AddressInv == hashChanges \in BOOLEAN /\ RouteFollowsHash

(* Until replays race, the one in flight is for the session in the title, and   *)
(* the panel is empty or has been filled for that session.                    *)
ReplayInv ==
    /\ raced \in BOOLEAN /\ replay = [i \in Replays |-> replay[i]]
    /\ ~raced =>
          /\ \A i \in Calling : replay[i] = timelineSessionId
          /\ \A i, j \in Calling : i = j
          /\ timeline \in {<< >>, TimelineOf(timelineSessionId)}

WorkIInv == CanvasInv /\ AddressInv /\ ReplayInv

LEMMA TimelineElements ==
    ASSUME NEW s
    PROVE  /\ TimelineOf(s) \in Seq({ev \in {Listed[i] : i \in DOMAIN Listed} : ev.session = s})
           /\ << >> \in Seq({ev \in {Listed[i] : i \in DOMAIN Listed} : ev.session = s})
<1> DEFINE All == {Listed[i] : i \in DOMAIN Listed}
           K   == {ev \in All : ev.session = s}
           keep == {i \in DOMAIN Listed : Listed[i].session = s}
           found == Picked(Listed, keep)
<1>1. Listed \in Seq(All)
    BY ListedEvents
<1>2. \A i \in DOMAIN Listed : i \in keep => Listed[i] \in K
    OBVIOUS
<1>3. found \in Seq(K)
    <2> HIDE DEF All, K, keep
    <2> QED
        BY <1>1, <1>2, PickedElements
<1>4. TimelineOf(s) = Reverse(found)
    BY DEF TimelineOf, filter
<1>5. Reverse(found) \in Seq(K)
    <2> HIDE DEF K, found
    <2> QED
        BY <1>3 DEF Reverse
<1>6. << >> \in Seq(K)
    BY EmptySeq
<1> QED
    BY <1>4, <1>5, <1>6

LEMMA WorkInitInv == WorkInit => WorkIInv
<1> SUFFICES ASSUME WorkInit PROVE WorkIInv
    OBVIOUS
<1>1. CanvasInv
    BY DEF WorkInit, CanvasInv, FirstRoute, ROUTES
<1>2. AddressInv
    BY DEF WorkInit, AddressInv, RouteFollowsHash
<1>3. ReplayInv
    BY DEF WorkInit, ReplayInv, Calling
<1> QED
    BY <1>1, <1>2, <1>3 DEF WorkIInv

LEMMA CanvasStep == ASSUME WorkIInv, [WorkNext]_workVars PROVE CanvasInv'
<1> USE DEF CanvasInv
<1> CanvasInv
    BY DEF WorkIInv
<1>1. ASSUME Mount PROVE CanvasInv'
    <2>1. route = "overview" /\ DOMAIN charts = DOMAIN CHART_TYPES
        BY <1>1 DEF Mount
    <2>2. charts' =
              [c \in DOMAIN CHART_TYPES |-> IF CHART_TYPES[c] \in Controllers THEN 1 ELSE 0]
        BY <1>1, <2>1 DEF Mount
    <2>3. page' = "up" => \A c \in DOMAIN CHART_TYPES : charts'[c] = 1
        BY <1>1, <2>1, <2>2 DEF Mount
    <2>4. route' \in ROUTES /\ visits' = 1 /\ canvas' = IF route' = "overview" THEN 1 ELSE 0
        BY <1>1 DEF Mount, routeFromHash, ROUTES
    <2>5. page' # "loading"
        BY <1>1 DEF Mount
    <2> QED
        BY <2>2, <2>3, <2>4, <2>5
<1>2. ASSUME NEW r \in ROUTES, ShowRoute(r), page = "up", UNCHANGED <<page, charts>>
      PROVE  CanvasInv'
    BY <1>2 DEF ShowRoute
<1>3. ASSUME HashChanged PROVE CanvasInv'
    <2>1. routeFromHash(hash) \in ROUTES
        BY DEF routeFromHash, ROUTES
    <2> QED
        BY <1>2, <1>3, <2>1 DEF HashChanged
<1>4. ASSUME NEW i \in Replays, ReplayAnswers(i) PROVE CanvasInv'
    BY <1>2, <1>4, "sessions" \in ROUTES DEF ReplayAnswers, ROUTES
<1>5. ASSUME UNCHANGED <<page, route, canvas, visits, charts>> PROVE CanvasInv'
    BY <1>5
<1> QED
    BY <1>1, <1>3, <1>4, <1>5
    DEF WorkNext, Navigate, openEvent, CloseDrawer, replaySession, ReplayFails, workVars,
        browser

LEMMA AddressStep == ASSUME WorkIInv, [WorkNext]_workVars PROVE AddressInv'
<1> USE DEF AddressInv, RouteFollowsHash
<1> AddressInv
    BY DEF WorkIInv
<1>1. ASSUME Mount PROVE AddressInv'
    BY <1>1 DEF Mount, SetHash
<1>2. ASSUME NEW r, Navigate(r) PROVE AddressInv'
    BY <1>2 DEF Navigate, SetHash
<1>3. ASSUME HashChanged PROVE AddressInv'
    BY <1>3 DEF HashChanged, ShowRoute
<1>4. ASSUME NEW i \in Replays, ReplayAnswers(i) PROVE AddressInv'
    BY <1>4 DEF ReplayAnswers, ShowRoute, SetHash, routeFromHash, ROUTES
<1>5. ASSUME UNCHANGED <<page, hash, hashChanges, route>> PROVE AddressInv'
    BY <1>5
<1> QED
    BY <1>1, <1>2, <1>3, <1>4, <1>5
    DEF WorkNext, openEvent, CloseDrawer, replaySession, ReplayFails, workVars, browser

LEMMA ReplayStep == ASSUME WorkIInv, [WorkNext]_workVars PROVE ReplayInv'
<1> USE DEF ReplayInv, Calling
<1> ReplayInv
    BY DEF WorkIInv
<1>1. ASSUME NEW i \in Replays, NEW s, replaySession(i, s) PROVE ReplayInv'
    BY <1>1 DEF replaySession
<1>2. ASSUME NEW i \in Replays, ReplayAnswers(i) PROVE ReplayInv'
    BY <1>2 DEF ReplayAnswers
<1>3. ASSUME NEW i \in Replays, ReplayFails(i) PROVE ReplayInv'
    BY <1>3 DEF ReplayFails
<1>4. ASSUME UNCHANGED <<replay, raced, panel>> PROVE ReplayInv'
    BY <1>4 DEF panel
<1> QED
    BY <1>1, <1>2, <1>3, <1>4
    DEF WorkNext, Mount, Navigate, HashChanged, openEvent, CloseDrawer, workVars

LEMMA WorkStep == ASSUME WorkIInv, [WorkNext]_workVars PROVE WorkIInv'
    BY CanvasStep, AddressStep, ReplayStep DEF WorkIInv

LEMMA TimelineAgrees == ReplayInv => TimelineIsOfItsSession
<1> SUFFICES ASSUME ReplayInv, ~raced PROVE TimelineIsOfItsSession
    BY DEF TimelineIsOfItsSession
<1> DEFINE K == {ev \in {Listed[i] : i \in DOMAIN Listed} : ev.session = timelineSessionId}
           ids == {Listed[j].id : j \in {k \in DOMAIN Listed :
                                             Listed[k].session = timelineSessionId}}
<1>1. timeline \in Seq(K)
    BY TimelineElements DEF ReplayInv
<1>2. \A i \in DOMAIN timeline : timeline[i] \in K
    <2> HIDE DEF K
    <2> QED
        BY <1>1
<1>3. \A ev \in K : ev.id \in ids
    OBVIOUS
<1>4. ASSUME NEW i \in DOMAIN ReplayPanel.rows PROVE ReplayPanel.rows[i].event \in ids
    <2>1. CASE timelineSessionId = None
        BY <1>4, <2>1 DEF ReplayPanel
    <2>2. CASE timelineSessionId # None
        <3>1. ReplayPanel.rows = TimelineRows(timeline, FALSE)
            BY <2>2 DEF ReplayPanel
        <3>2. i \in DOMAIN timeline /\ ReplayPanel.rows[i].event = timeline[i].id
            BY <1>4, <3>1 DEF TimelineRows
        <3> HIDE DEF K, ids
        <3> QED
            BY <1>2, <1>3, <3>2
    <2> QED
        BY <2>1, <2>2
<1> QED
    BY <1>2, <1>4 DEF TimelineIsOfItsSession

(* The rows of the replay panel are events of the session in its title, unless *)
(* a replay was asked for while another was in flight: App.jsx:486-497 stores  *)
(* whichever answer comes, 951-977 renders what is stored.                     *)
THEOREM TimelineMatches == WorkSpec => []TimelineIsOfItsSession
<1>1. WorkIInv => TimelineIsOfItsSession
    BY TimelineAgrees DEF WorkIInv
<1> QED
    BY WorkInitInv, WorkStep, <1>1, PTL DEF WorkSpec

(* The page shown is the one the address names, once the hash changes have been *)
(* handled, whoever changed the address: the tabs and replay write the hash    *)
(* (App.jsx:654-662, 486-497), the listener of 312-320 reads it back through    *)
(* routeFromHash (123-127).                                                    *)
THEOREM AddressNamesPage == WorkSpec => []RouteFollowsHash
<1>1. WorkIInv => RouteFollowsHash
    BY DEF WorkIInv, AddressInv
<1> QED
    BY WorkInitInv, WorkStep, <1>1, PTL DEF WorkSpec

(* The effects of App.jsx:349-446 make each chart once, whatever page the       *)
(* address names; only whether chart.js knows every chart type decides whether  *)
(* the page survives them.  It does not in this source (App.jsx:13 registers no *)
(* controller): the page is blank for good, whatever route it was opened on.    *)
Drawable == \A c \in DOMAIN CHART_TYPES : CHART_TYPES[c] \in Controllers
Blanked == ~Drawable => page \in {"loading", "blank"}
ChartsInv ==
    /\ page \in {"loading", "up", "blank"}
    /\ Blanked
    /\ Drawable => page # "blank"

LEMMA ChartsStep == ASSUME WorkIInv, ChartsInv, [WorkNext]_workVars PROVE ChartsInv'
<1> USE DEF ChartsInv, Blanked
<1>1. ASSUME Mount PROVE ChartsInv'
    <2>1. route = "overview" /\ DOMAIN charts = DOMAIN CHART_TYPES
        BY <1>1 DEF Mount, WorkIInv, CanvasInv
    <2>2. page' = IF \E c \in DOMAIN CHART_TYPES : CHART_TYPES[c] \notin Controllers
                  THEN "blank" ELSE "up"
        BY <1>1, <2>1 DEF Mount
    <2>3. Drawable' <=> Drawable
        BY DEF Drawable
    <2> QED
        BY <2>2, <2>3 DEF Drawable
<1>2. ASSUME UNCHANGED page PROVE ChartsInv'
    BY <1>2 DEF Drawable
<1> QED
    BY <1>1, <1>2
    DEF WorkNext, Navigate, HashChanged, openEvent, CloseDrawer, replaySession,
        ReplayAnswers, ReplayFails, workVars, browser

(* The page survives its mount exactly if every chart type has a controller,    *)
(* and then the overview has its three charts until it has been left.          *)
THEOREM ChartsNeedControllers ==
    WorkSpec => [](Blanked /\ (Drawable => OverviewHasItsCharts))
<1>1. WorkInit => ChartsInv
    BY DEF WorkInit, ChartsInv, Blanked
<1>2. WorkIInv /\ ChartsInv => Blanked /\ (Drawable => OverviewHasItsCharts)
    <2> SUFFICES ASSUME CanvasInv, ChartsInv PROVE Drawable => OverviewHasItsCharts
        BY DEF WorkIInv, ChartsInv
    <2>1. SUFFICES ASSUME page = "up", visits = 1, route = "overview"
                   PROVE  \A c \in DOMAIN charts : charts[c] = canvas
        BY DEF ChartsInv, OverviewHasItsCharts
    <2>2. canvas \in 0 .. 1 /\ canvas # 0
        BY <2>1 DEF CanvasInv
    <2>3. canvas = 1
        BY <2>2
    <2>4. DOMAIN charts = DOMAIN CHART_TYPES /\ \A c \in DOMAIN CHART_TYPES : charts[c] = 1
        BY <2>1 DEF CanvasInv
    <2> QED
        BY <2>3, <2>4
<1> QED
    BY WorkInitInv, WorkStep, ChartsStep, <1>1, <1>2, PTL DEF WorkSpec
(* Types of the workspace.  The overview is rendered anew only when a click led  *)
(* there, and clicks are bounded; a replay is for a session of an event.        *)
Asked == {NoCall, None} \cup {Listed[j].session : j \in DOMAIN Listed}
VisitInv ==
    /\ page \in {"loading", "up", "blank"} /\ hash \in ROUTES \cup {None, "other"}
    /\ \A c \in DOMAIN CHART_TYPES : charts[c] \in 0 .. 1
    /\ visits <= MaxVisits + 1
    /\ page = "up" /\ canvas = 0 /\ routeFromHash(hash) = "overview" => visits <= MaxVisits
DrawerOK ==
    /\ drawerOpen \in BOOLEAN
    /\ drawerOpen => drawerEvent \in {Listed[i] : i \in DOMAIN Listed}
AskedInv == replay \in [Replays -> Asked]

LEMMA VisitStep == ASSUME WorkIInv, VisitInv, [WorkNext]_workVars PROVE VisitInv'
<1> USE DEF VisitInv, CanvasInv
<1> CanvasInv /\ MaxVisits \in Nat
    BY VisitBound DEF WorkIInv
<1>1. ASSUME Mount PROVE VisitInv'
    <2>1. hash' \in ROUTES \cup {None, "other"} /\ page' \in {"loading", "up", "blank"}
        BY <1>1 DEF Mount, SetHash, ROUTES
    <2>3. DOMAIN charts = DOMAIN CHART_TYPES
        BY DEF CanvasInv
    <2>4. \A c \in DOMAIN CHART_TYPES : charts'[c] \in 0 .. 1
        BY <1>1, <2>3 DEF Mount
    <2>2. visits' = 1 /\ (canvas' = 0 => routeFromHash(hash') # "overview")
        BY <1>1 DEF Mount
    <2> QED
        BY <2>1, <2>2, <2>4
<1>2. ASSUME NEW r \in ROUTES \cup {"other"}, Navigate(r) PROVE VisitInv'
    BY <1>2 DEF Navigate, SetHash
<1>3. ASSUME HashChanged PROVE VisitInv'
    BY <1>3 DEF HashChanged, ShowRoute
<1>4. ASSUME NEW i \in Replays, ReplayAnswers(i) PROVE VisitInv'
    BY <1>4 DEF ReplayAnswers, ShowRoute, SetHash, routeFromHash, ROUTES
<1>5. ASSUME UNCHANGED <<page, hash, canvas, visits, charts>> PROVE VisitInv'
    BY <1>5
<1> QED
    BY <1>1, <1>2, <1>3, <1>4, <1>5
    DEF WorkNext, openEvent, CloseDrawer, replaySession, ReplayFails, workVars, browser

LEMMA DrawerStep == ASSUME DrawerOK, [WorkNext]_workVars PROVE DrawerOK'
<1> USE DEF DrawerOK
<1>1. ASSUME NEW i \in DOMAIN Listed, openEvent(Listed[i]) PROVE DrawerOK'
    BY <1>1 DEF openEvent
<1>2. ASSUME CloseDrawer PROVE DrawerOK'
    BY <1>2 DEF CloseDrawer
<1>3. ASSUME UNCHANGED drawer PROVE DrawerOK'
    BY <1>3 DEF drawer
<1> QED
    BY <1>1, <1>2, <1>3
    DEF WorkNext, Mount, Navigate, HashChanged, replaySession, ReplayAnswers, ReplayFails, workVars

LEMMA ButtonsAreForListed == ASSUME DrawerOK PROVE ReplayButtons \subseteq Asked
<1>1. Listed \in Seq(StoredEvents)
    <2>1. {Listed[i] : i \in DOMAIN Listed} \subseteq StoredEvents
        BY DEF StoredEvents
    <2>2. Listed \in Seq({Listed[i] : i \in DOMAIN Listed})
        BY ListedEvents
    <2> QED
        BY <2>1, <2>2
<1>2. SessionsListed \subseteq Asked
    <2> DEFINE ss == rollup(Listed)
    <2>1. IsFiniteSet(DOMAIN ss)
        BY <1>1, FewSessions
    <2>2. RolledUp(ss, Listed, Len(Listed))
        BY <1>1, RollupIs
    <2>3. Len(Listed) \in Nat /\ DOMAIN Listed = 1 .. Len(Listed)
        BY <1>1
    <2> HIDE DEF ss
    <2>4. ASSUME NEW i \in DOMAIN SessionRows(ss) PROVE SessionRows(ss)[i].session \in Asked
        <3>1. PICK id \in DOMAIN ss : SessionRows(ss)[i] = SessionRow(ss[id])
            BY <2>1, RowsAreOfSessions
        <3>2. SessionRows(ss)[i].session = ss[id].sessionId
            BY <3>1 DEF SessionRow
        <3>3. ss[id].sessionId = id /\ id \in {Listed[j].session : j \in 1 .. Len(Listed)}
            BY <2>2 DEF RolledUp, SessionRolled
        <3> QED
            BY <2>3, <3>2, <3>3 DEF Asked
    <2> QED
        BY <2>4 DEF SessionsListed, ss
<1>3. drawerOpen => DrawerFields(drawerEvent).session \in Asked
    BY DEF DrawerOK, DrawerFields, Asked
<1> QED
    BY <1>2, <1>3 DEF ReplayButtons

LEMMA AskedStep == ASSUME DrawerOK, AskedInv, [WorkNext]_workVars PROVE AskedInv'
<1> USE DEF AskedInv
<1>1. ASSUME NEW i \in Replays, NEW s \in ReplayButtons, replaySession(i, s) PROVE AskedInv'
    BY <1>1, ButtonsAreForListed DEF replaySession
<1>2. ASSUME NEW i \in Replays, ReplayAnswers(i) \/ ReplayFails(i) PROVE AskedInv'
    BY <1>2 DEF ReplayAnswers, ReplayFails, Asked
<1>3. ASSUME UNCHANGED replay PROVE AskedInv'
    BY <1>3
<1> QED
    BY <1>1, <1>2, <1>3
    DEF WorkNext, Mount, Navigate, HashChanged, openEvent, CloseDrawer, workVars

(* The types of the workspace, and with them that the overview is not rendered  *)
(* more often than it was asked for and that no replay is for a session that no *)
(* listed event names (App.jsx:486-497, 1098-1149).                            *)
THEOREM WorkTypeCorrect == WorkSpec => []WorkTypeOK
<1> DEFINE Inv == WorkIInv /\ VisitInv /\ DrawerOK /\ AskedInv
<1>1. WorkInit => Inv
    <2> SUFFICES ASSUME WorkInit PROVE Inv
        OBVIOUS
    <2>1. VisitInv
        BY VisitBound DEF WorkInit, VisitInv
    <2>2. DrawerOK
        BY DEF WorkInit, DrawerOK
    <2>3. AskedInv
        BY DEF WorkInit, AskedInv, Asked
    <2> QED
        BY <2>1, <2>2, <2>3, WorkInitInv
<1>2. Inv /\ [WorkNext]_workVars => Inv'
    BY WorkStep, VisitStep, DrawerStep, AskedStep
<1>3. Inv => WorkTypeOK
    <2> SUFFICES ASSUME Inv PROVE WorkTypeOK
        OBVIOUS
    <2>1. page \in {"loading", "up", "blank"} /\ hash \in ROUTES \cup {None, "other"}
        BY DEF VisitInv
    <2>2. route \in ROUTES /\ visits \in 0 .. MaxVisits + 1 /\ canvas \in 0 .. visits
        BY VisitBound DEF VisitInv, WorkIInv, CanvasInv
    <2>3. {hashChanges, drawerOpen, raced} \subseteq BOOLEAN
        <3>1. hashChanges \in BOOLEAN /\ drawerOpen \in BOOLEAN /\ raced \in BOOLEAN
            BY Zenon DEF WorkIInv, AddressInv, DrawerOK, ReplayInv
        <3> QED
            BY <3>1, Zenon
    <2>4. drawerOpen => drawerEvent \in {Listed[i] : i \in DOMAIN Listed}
        BY DEF DrawerOK
    <2>5. \A i \in Replays : replay[i] \in Asked
        BY DEF AskedInv
    <2>6. \A c \in DOMAIN charts : charts[c] \in 0 .. 1
        BY DEF WorkIInv, CanvasInv, VisitInv
    <2> QED
        BY <2>1, <2>2, <2>3, <2>4, <2>5, <2>6, Zenon DEF WorkTypeOK, Asked
<1> QED
    BY <1>1, <1>2, <1>3, PTL DEF WorkSpec
-----------------------------------------------------------------------------
(* The inspector *)

Searching == {i \in Searches : search[i] # NoSearch}
SearchTypes ==
    /\ search = [i \in Searches |-> search[i]]
    /\ \A i \in Searches :
          /\ search[i].waits \in {"nothing", "events", "incident", "replay"}
          /\ search[i].waits = "nothing" => search[i] = NoSearch
    /\ lastSearch = Query(lastSearch.type, lastSearch.value) /\ crossed \in BOOLEAN

SearchInv ==
    LET found == EventsOf(lastSearch)
    IN  ~crossed =>
          /\ \A i, j \in Searching : i = j
          /\ \A i \in Searching :
                /\ search[i].query = lastSearch
                /\ inspectorIncident = Blank /\ inspectorSession = << >>
                /\ search[i].waits = "events" => inspectorEvents = << >>
                /\ search[i].waits \in {"incident", "replay"} => inspectorEvents = found
                /\ search[i].waits = "incident" => lastSearch.type = "request_id"
                /\ search[i].waits = "replay" => lastSearch.type = "session_id"
          /\ inspectorEvents \in {<< >>, found}
          /\ inspectorIncident # Blank =>
                lastSearch = Query("request_id", inspectorIncident)
                    /\ inspectorEvents = found
          /\ inspectorSession # << >> =>
                /\ lastSearch.type = "session_id" /\ inspectorEvents = found
                /\ inspectorSession = Reverse(found)
InspIInv == SearchTypes /\ SearchInv

LEMMA EventsOfIsSeq ==
    ASSUME NEW q
    PROVE  EventsOf(q) \in Seq({Recorded[i] : i \in DOMAIN Recorded})
<1> DEFINE All == {Recorded[i] : i \in DOMAIN Recorded}
           keep == {i \in DOMAIN Recorded : Recorded[i][Field(q.type)] = q.value}
<1>1. EventsOf(q) = Picked(Recorded, keep)
    BY DEF EventsOf, filter
<1>2. Recorded \in Seq(All) /\ \A i \in DOMAIN Recorded : Recorded[i] \in All
    BY RecordedEvents
<1> HIDE DEF All, keep
<1>3. Picked(Recorded, keep) \in Seq(All)
    BY <1>2, PickedElements
<1> QED
    BY <1>1, <1>3 DEF All

LEMMA InspInitInv == InspInit => InspIInv
<1> SUFFICES ASSUME InspInit PROVE InspIInv
    OBVIOUS
<1>1. SearchTypes
    BY DEF InspInit, SearchTypes, NoSearch, NoQuery, Query
<1>2. Searching = {}
    BY DEF InspInit, Searching
<1>3. SearchInv
    BY <1>2 DEF InspInit, SearchInv
<1> QED
    BY <1>1, <1>3 DEF InspIInv

LEMMA SearchStarts ==
    ASSUME InspIInv, NEW i \in Searches, runInspectorSearch(i)
    PROVE  InspIInv'
<1> USE DEF InspIInv, SearchTypes, SearchInv, Searching
<1>1. SearchTypes'
    <2>1. lastSearch' = Query(lastSearch'.type, lastSearch'.value)
        BY DEF runInspectorSearch, Query
    <2>2. search' = [j \in Searches |-> search'[j]]
        BY DEF runInspectorSearch
    <2>3. ASSUME NEW j \in Searches
          PROVE  /\ search'[j].waits \in {"nothing", "events", "incident", "replay"}
                 /\ search'[j].waits = "nothing" => search'[j] = NoSearch
        BY DEF runInspectorSearch
    <2>4. crossed' \in BOOLEAN
        BY Zenon DEF runInspectorSearch
    <2> QED
        BY <2>1, <2>2, <2>3, <2>4
<1>2. SearchInv'
    BY DEF runInspectorSearch, Cleared, NoSearch
<1> QED
    BY <1>1, <1>2

LEMMA EventsCome == ASSUME InspIInv, NEW i \in Searches, EventsAnswer(i) PROVE InspIInv'
<1> USE DEF InspIInv, SearchTypes, SearchInv, Searching
<1>1. SearchTypes'
    BY DEF EventsAnswer, SecondCall, NoSearch
<1>2. SearchInv'
    BY DEF EventsAnswer, SecondCall, NoSearch
<1> QED
    BY <1>1, <1>2

LEMMA IncidentComes ==
    ASSUME InspIInv, NEW i \in Searches, IncidentAnswer(i)
    PROVE  InspIInv'
<1> USE DEF InspIInv, SearchTypes, SearchInv, Searching
<1>1. SearchTypes'
    BY DEF IncidentAnswer, NoSearch
<1>2. SearchInv'
    <2>1. i \in Searching /\ search[i].waits = "incident"
              /\ UNCHANGED <<lastSearch, crossed>>
        BY DEF IncidentAnswer, NoSearch
    <2>2. ASSUME ~crossed PROVE Searching' = {}
        BY <2>1, <2>2 DEF IncidentAnswer
    <2>3. ASSUME ~crossed
          PROVE  /\ lastSearch = Query("request_id", inspectorIncident')
                 /\ inspectorEvents = EventsOf(lastSearch) /\ inspectorSession = << >>
        BY <2>1, <2>3 DEF IncidentAnswer, Query
    <2> QED
        BY <2>1, <2>2, <2>3 DEF IncidentAnswer
<1> QED
    BY <1>1, <1>2

LEMMA SessionComes == ASSUME InspIInv, NEW i \in Searches, SessionAnswer(i) PROVE InspIInv'
<1> USE DEF InspIInv, SearchTypes, SearchInv, Searching
<1>1. SearchTypes'
    BY DEF SessionAnswer, NoSearch
<1>2. SearchInv'
    BY DEF SessionAnswer, NoSearch
<1> QED
    BY <1>1, <1>2

LEMMA SearchGivesUp == ASSUME InspIInv, NEW i \in Searches, SearchFails(i) PROVE InspIInv'
<1> USE DEF InspIInv, SearchTypes, SearchInv, Searching
<1>1. SearchTypes'
    BY DEF SearchFails, NoSearch
<1>2. SearchInv'
    BY DEF SearchFails, NoSearch
<1> QED
    BY <1>1, <1>2

LEMMA InspStep == ASSUME InspIInv, [InspNext]_inspVars PROVE InspIInv'
<1>1. ASSUME UNCHANGED <<panels, search, lastSearch, crossed>> PROVE InspIInv'
    BY <1>1 DEF InspIInv, SearchTypes, SearchInv, Searching, panels
<1> QED
    BY <1>1, SearchStarts, EventsCome, IncidentComes, SessionComes, SearchGivesUp
    DEF InspNext, SearchStep, ChooseType, TypeValue, ClickTab, inspVars, panels

(* The three panels *)
LEMMA PanelsAgreeWithSearch == InspIInv => PanelsAreOfLastSearch
<1> SUFFICES ASSUME InspIInv, ~crossed PROVE PanelsAreOfLastSearch
    BY DEF PanelsAreOfLastSearch
<1> DEFINE found == EventsOf(lastSearch)
           all == {found[i].id : i \in DOMAIN found}
           shows == {EventTable[i].event : i \in DOMAIN EventTable}
           rows == {SessionTimeline[i].event : i \in DOMAIN SessionTimeline}
<1>1. shows = {inspectorEvents[i].id : i \in DOMAIN inspectorEvents}
    BY DEF EventTable
<1>2. rows = {inspectorSession[i].id : i \in DOMAIN inspectorSession}
    BY DEF SessionTimeline, TimelineRows
<1>3. /\ inspectorEvents \in {<< >>, found}
      /\ inspectorIncident # Blank =>
                lastSearch = Query("request_id", inspectorIncident)
                    /\ inspectorEvents = found
      /\ inspectorSession # << >> =>
                /\ lastSearch.type = "session_id" /\ inspectorEvents = found
                /\ inspectorSession = Reverse(found)
    BY DEF InspIInv, SearchInv
<1>4. shows \in {{}, all}
    <2> HIDE DEF found
    <2>1. CASE inspectorEvents = << >>
        <3>1. DOMAIN << >> = {}
            OBVIOUS
        <3>2. shows = {}
            BY <1>1, <2>1, <3>1
        <3> QED
            BY <3>2
    <2>2. CASE inspectorEvents = found
        BY <1>1, <2>2
    <2> QED
        BY <1>3, <2>1, <2>2
<1>5. ~IncidentGrid.empty => lastSearch = Query("request_id", IncidentGrid.request)
          /\ shows = all
    BY <1>1, <1>3 DEF IncidentGrid
<1>6. SessionTimeline # << >> => inspectorSession # << >>
    BY DEF SessionTimeline, TimelineRows
<1>7. ASSUME inspectorSession = Reverse(found) PROVE rows = all
    <2>1. DOMAIN found = 1 .. Len(found) /\ Len(found) \in Nat
        BY EventsOfIsSeq
    <2> HIDE DEF found
    <2>2. DOMAIN inspectorSession = 1 .. Len(found)
        BY <1>7 DEF Reverse
    <2>3. \A i \in 1 .. Len(found) : inspectorSession[i] = found[Len(found) - i + 1]
        BY <1>7 DEF Reverse
    <2>4. \A i \in 1 .. Len(found) : Len(found) - i + 1 \in 1 .. Len(found)
        BY <2>1
    <2>5. \A i \in 1 .. Len(found) : inspectorSession[i].id \in all
        BY <2>1, <2>3, <2>4
    <2>6. ASSUME NEW j \in 1 .. Len(found)
          PROVE  \E i \in 1 .. Len(found) : inspectorSession[i].id = found[j].id
        <3>1. Len(found) - (Len(found) - j + 1) + 1 = j
            BY <2>1
        <3> QED
            BY <2>3, <2>4, <3>1
    <2> QED
        BY <1>2, <2>1, <2>2, <2>5, <2>6
<1>8. inspectorEvents = found => shows = all
    BY <1>1
<1>9. SessionTimeline # << >> => lastSearch.type = "session_id" /\ shows = all /\ rows = all
    <2> HIDE DEF found, all, shows, rows
    <2> QED
        BY <1>3, <1>6, <1>7, <1>8
<1> QED
    BY <1>4, <1>5, <1>9, Zenon DEF PanelsAreOfLastSearch

(* Unless searches overlapped, what the inspector shows answers the last search *)
(* submitted: the rows, the incident and the session timeline                  *)
(* (App.jsx:499-527, 1032-1149), for any events recorded and any searches.     *)
THEOREM PanelsAnswerLastSearch == InspSpec => []PanelsAreOfLastSearch
    BY InspInitInv, InspStep, PanelsAgreeWithSearch, PTL DEF InspSpec

(* Types of the inspector: what a search carries was typed when it started, and  *)
(* only that is ever shown as an incident.                                     *)
QueryInv ==
    /\ inspectorType \in TYPES /\ inspectorTab \in TABS
    /\ inspectorValue \in Values \cup {Blank} /\ inspectorIncident \in Values \cup {Blank}
    /\ search = [i \in Searches |-> search[i]]
    /\ \A i \in Searches : search[i].query.value \in Values \cup {Blank}

LEMMA QueryStep == ASSUME QueryInv, [InspNext]_inspVars PROVE QueryInv'
<1> USE DEF QueryInv
<1>1. ASSUME NEW i \in Searches, runInspectorSearch(i) PROVE QueryInv'
    BY <1>1, "events" \in TABS DEF runInspectorSearch, Cleared, Query, TABS, inputs
<1>2. ASSUME NEW i \in Searches, EventsAnswer(i) PROVE QueryInv'
    BY <1>2 DEF EventsAnswer, NoSearch, NoQuery, Query, inputs
<1>3. ASSUME NEW i \in Searches, IncidentAnswer(i) PROVE QueryInv'
    BY <1>3 DEF IncidentAnswer, NoSearch, NoQuery, Query, TABS, inputs
<1>4. ASSUME NEW i \in Searches, SessionAnswer(i) PROVE QueryInv'
    BY <1>4 DEF SessionAnswer, NoSearch, NoQuery, Query, TABS, inputs
<1>5. ASSUME NEW i \in Searches, SearchFails(i) PROVE QueryInv'
    BY <1>5 DEF SearchFails, NoSearch, NoQuery, Query, inputs
<1>6. ASSUME NEW t \in TYPES, ChooseType(t) PROVE QueryInv'
    BY <1>6 DEF ChooseType, panels
<1>7. ASSUME NEW v \in Values, TypeValue(v) PROVE QueryInv'
    BY <1>7 DEF TypeValue, panels
<1>8. ASSUME NEW t \in TABS, ClickTab(t) PROVE QueryInv'
    BY <1>8 DEF ClickTab, inputs, panels
<1>9. ASSUME UNCHANGED inspVars PROVE QueryInv'
    BY <1>9 DEF inspVars, inputs, panels
<1> QED
    BY <1>1, <1>2, <1>3, <1>4, <1>5, <1>6, <1>7, <1>8, <1>9 DEF InspNext, SearchStep

(* The types of the inspector.                                                 *)
THEOREM InspTypeCorrect == InspSpec => []InspTypeOK
<1>1. InspInit => QueryInv
    BY DEF InspInit, QueryInv, NoSearch, NoQuery, Query, TYPES, TABS
<1>2. InspIInv /\ QueryInv => InspTypeOK
    BY DEF InspIInv, SearchTypes, QueryInv, InspTypeOK
<1> QED
    BY InspInitInv, InspStep, QueryStep, <1>1, <1>2, PTL DEF InspSpec
-----------------------------------------------------------------------------
(* The attack simulator, for any scripts, tabs, launches, lines and cuts of the *)
(* stream: who takes the mark of a script away, and what the log of a tab      *)
(* shows of the stream it reads.                                              *)

Ops == [op : {"say", "mark", "output", "unmark"}, script : Attacks]
(* A script that is marked is run next, and its mark taken away after that.     *)
Ordered(p) ==
    \A i \in DOMAIN p :
        /\ p[i].op \in {"mark", "output", "unmark"} => p[i].script \in SCRIPTS
        /\ p[i].op = "mark" => i + 1 \in DOMAIN p /\ p[i + 1] = Op("output", p[i].script)
        /\ p[i].op = "output" => i + 1 \in DOMAIN p /\ p[i + 1] = Op("unmark", p[i].script)
WellFormed(p) == p \in Seq(Ops) /\ Ordered(p)
Owns(r, s) == plan[r] # << >> /\ Head(plan[r]) \in {Op("output", s), Op("unmark", s)}
CallInv ==
    /\ runs \in Nat /\ runs <= MaxRuns
    /\ myRun \in [Tabs -> Nat] /\ \A t \in Tabs : myRun[t] <= runs
    /\ call \in [Tabs -> {"none", "posting", "streaming"}]
    /\ simRunningType = [t \in Tabs |-> simRunningType[t]]
    /\ \A t \in Tabs : call[t] # "none" => myRun[t] # 0 /\ simRunningType[t] \in Attacks
    /\ \A t, u \in Tabs : t # u /\ myRun[t] = myRun[u] => myRun[t] = 0
PlanInv ==
    /\ plan = [r \in Runs |-> plan[r]] /\ \A r \in Runs : WellFormed(plan[r])
    /\ \A r \in Runs : r > runs => plan[r] = << >>
    /\ \A t \in Tabs : call[t] = "posting" => plan[myRun[t]] = << >>
MarkInv ==
    /\ running \in [SCRIPTS -> BOOLEAN]
    /\ \A s \in SCRIPTS : running[s] => \E r \in Runs : Owns(r, s)
SimIInv == CallInv /\ PlanInv /\ MarkInv

LEMMA OpFields ==
    ASSUME NEW o, NEW s, NEW T, o \in {"say", "mark", "output", "unmark"}, s \in T
    PROVE  /\ Op(o, s) \in [op : {"say", "mark", "output", "unmark"}, script : T]
           /\ Op(o, s).op = o /\ Op(o, s).script = s
BY DEF Op

LEMMA OneIs ==
    ASSUME NEW s
    PROVE  RunOne(s) = <<Op("say", s), Op("mark", s), Op("output", s), Op("unmark", s)>>
<1> DEFINE a == Op("say", s)
           b == Op("mark", s)
           c == Op("output", s)
           d == Op("unmark", s)
           T == {a, b, c, d}
<1>1. RunOne(s) = <<a>> \o <<b, c, d>>
    BY DEF RunOne, StreamScript
<1>2. <<a>> \in Seq(T) /\ <<b, c, d>> \in Seq(T) /\ <<a, b, c, d>> \in Seq(T)
    BY DEF T
<1> HIDE DEF a, b, c, d, T
<1>3. <<a>> \o <<b, c, d>> = <<a, b, c, d>>
    <2>1. /\ Len(<<a>> \o <<b, c, d>>) = 4
          /\ \A i \in 1 .. 4 : (<<a>> \o <<b, c, d>>)[i] = <<a, b, c, d>>[i]
        BY <1>2, ConcatProperties
    <2>2. <<a>> \o <<b, c, d>> \in Seq(T)
        BY <1>2, ConcatProperties
    <2> QED
        BY <1>2, <2>1, <2>2, SeqEqual
<1> QED
    BY <1>1, <1>3 DEF a, b, c, d

LEMMA OneFormed == ASSUME NEW s \in SCRIPTS PROVE WellFormed(RunOne(s))
<1>1. \A o \in {"say", "mark", "output", "unmark"} :
          Op(o, s) \in Ops /\ Op(o, s).op = o /\ Op(o, s).script = s
    BY OpFields DEF Ops, Attacks
<1>2. RunOne(s) = <<Op("say", s), Op("mark", s), Op("output", s), Op("unmark", s)>>
    BY OneIs
<1>3. RunOne(s) \in Seq(Ops)
    BY <1>1, <1>2
<1>4. Ordered(RunOne(s))
    <2> DEFINE p == RunOne(s)
    <2>1. DOMAIN p = 1 .. 4 /\ p[1] = Op("say", s) /\ p[2] = Op("mark", s)
              /\ p[3] = Op("output", s) /\ p[4] = Op("unmark", s)
        BY <1>2
    <2>2. \A i \in DOMAIN p : i = 1 \/ i = 2 \/ i = 3 \/ i = 4
        BY <2>1
    <2> HIDE DEF p
    <2>3. Ordered(p)
        BY <1>1, <2>1, <2>2 DEF Ordered
    <2> QED
        BY <2>3 DEF p
<1> QED
    BY <1>3, <1>4 DEF WellFormed

LEMMA FourSteps ==
    ASSUME NEW n \in Nat, NEW i \in 1 .. 4 * n
    PROVE  /\ ((i - 1) \div 4) + 1 \in 1 .. n /\ (i - 1) % 4 \in 0 .. 3
           /\ (i - 1) % 4 # 3 => /\ i + 1 \in 1 .. 4 * n
                                 /\ ((i + 1 - 1) \div 4) + 1 = ((i - 1) \div 4) + 1
                                 /\ ((i + 1 - 1) % 4) + 1 = ((i - 1) % 4) + 2
OBVIOUS

LEMMA AllFormed == WellFormed(RunAll)
<1> DEFINE n == Len(Scripts)
           name(i) == Scripts[((i - 1) \div 4) + 1]
           nth(i) == ((i - 1) % 4) + 1
           Step(i) == RunOne(name(i))[nth(i)]
           mid == [i \in 1 .. 4 * n |-> Step(i)]
           say == Op("say", "all")
<1>1. n \in Nat /\ DOMAIN Scripts = 1 .. n
    BY ScriptNames
<1>2. \A i \in 1 .. 4 * n : name(i) \in SCRIPTS /\ nth(i) \in 1 .. 4
    BY <1>1, FourSteps DEF SCRIPTS
<1>3. \A i \in 1 .. 4 * n : nth(i) # 4 =>
          i + 1 \in 1 .. 4 * n /\ name(i + 1) = name(i) /\ nth(i + 1) = nth(i) + 1
    BY <1>1, FourSteps
<1>4. RunAll = <<say>> \o mid \o <<say>>
    BY DEF RunAll
<1>5. say \in Ops /\ say.op = "say"
    <2>1. "all" \in Attacks
        BY DEF Attacks
    <2> QED
        BY <2>1, OpFields DEF Ops
<1> HIDE DEF name, nth, say, n
<1>6. \A i \in 1 .. 4 * n :
          /\ Step(i) \in Ops /\ Step(i).script \in SCRIPTS
          /\ Step(i).op = "mark" =>
                i + 1 \in 1 .. 4 * n /\ Step(i + 1) = Op("output", Step(i).script)
          /\ Step(i).op = "output" =>
                i + 1 \in 1 .. 4 * n /\ Step(i + 1) = Op("unmark", Step(i).script)
    <2> SUFFICES ASSUME NEW i \in 1 .. 4 * n
                 PROVE  /\ Step(i) \in Ops /\ Step(i).script \in SCRIPTS
                        /\ Step(i).op = "mark" =>
                              i + 1 \in 1 .. 4 * n
                                  /\ Step(i + 1) = Op("output", Step(i).script)
                        /\ Step(i).op = "output" =>
                              i + 1 \in 1 .. 4 * n
                                  /\ Step(i + 1) = Op("unmark", Step(i).script)
        OBVIOUS
    <2> DEFINE s == name(i)
               p == RunOne(s)
    <2>1. s \in SCRIPTS
        BY <1>2
    <2> HIDE DEF s
    <2>2. /\ p \in Seq(Ops) /\ DOMAIN p = 1 .. 4 /\ p[1] = Op("say", s)
              /\ p[2] = Op("mark", s)
          /\ p[3] = Op("output", s) /\ p[4] = Op("unmark", s)
        BY <2>1, OneIs, OneFormed DEF WellFormed
    <2>3. \A o \in {"say", "mark", "output", "unmark"} :
              Op(o, s) \in Ops /\ Op(o, s).op = o /\ Op(o, s).script = s
        BY <2>1, OpFields DEF Ops, Attacks
    <2> HIDE DEF p
    <2>4. nth(i) = 1 \/ nth(i) = 2 \/ nth(i) = 3 \/ nth(i) = 4
        BY <1>2
    <2>5. Step(i) = p[nth(i)]
        BY DEF s, p
    <2>6. nth(i) # 4 => i + 1 \in 1 .. 4 * n /\ Step(i + 1) = p[nth(i) + 1]
        BY <1>3 DEF s, p
    <2> HIDE DEF Step
    <2>7. Step(i) \in Ops /\ Step(i).script \in SCRIPTS
        BY <2>1, <2>2, <2>3, <2>4, <2>5
    <2>8. Step(i).op = "mark" => nth(i) = 2 /\ Step(i).script = s
        BY <2>2, <2>3, <2>4, <2>5
    <2>9. Step(i).op = "output" => nth(i) = 3 /\ Step(i).script = s
        BY <2>2, <2>3, <2>4, <2>5
    <2> QED
        BY <2>2, <2>6, <2>7, <2>8, <2>9
<1> HIDE DEF Step
<1>7. mid \in Seq(Ops) /\ Len(mid) = 4 * n /\ \A i \in 1 .. 4 * n : mid[i] = Step(i)
    BY <1>1, <1>6
<1> HIDE DEF mid
<1>8. /\ RunAll \in Seq(Ops) /\ DOMAIN RunAll = 1 .. 4 * n + 2
      /\ RunAll[1] = say /\ RunAll[4 * n + 2] = say
      /\ \A i \in 1 .. 4 * n : RunAll[i + 1] = Step(i)
    <2> DEFINE front == <<say>> \o mid
    <2>1. <<say>> \in Seq(Ops) /\ Len(<<say>>) = 1 /\ <<say>>[1] = say
        BY <1>5
    <2>2. /\ front \in Seq(Ops) /\ Len(front) = 4 * n + 1 /\ front[1] = say
          /\ \A i \in 1 .. 4 * n : front[i + 1] = Step(i)
        <3>1. /\ front \in Seq(Ops) /\ Len(front) = 1 + Len(mid)
              /\ \A i \in 1 .. 1 + Len(mid) : front[i] =
                     IF i <= 1 THEN <<say>>[i] ELSE mid[i - 1]
            BY <1>7, <2>1, ConcatProperties
        <3> HIDE DEF front
        <3>2. \A i \in 1 .. 4 * n : front[i + 1] = mid[i]
            BY <1>1, <1>7, <3>1
        <3>3. 1 \in 1 .. 1 + Len(mid) /\ Len(mid) = 4 * n
            BY <1>1, <1>7
        <3>4. front[1] = say
            BY <2>1, <3>1, <3>3
        <3>5. \A i \in 1 .. 4 * n : front[i + 1] = Step(i)
            BY <1>7, <3>2
        <3> QED
            BY <1>1, <3>1, <3>3, <3>4, <3>5
    <2>3. RunAll = front \o <<say>>
        BY <1>4
    <2> HIDE DEF front
    <2>4. /\ RunAll \in Seq(Ops) /\ Len(RunAll) = 4 * n + 2
          /\ \A i \in 1 .. 4 * n + 1 : RunAll[i] = front[i]
          /\ RunAll[4 * n + 2] = say
        BY <1>1, <2>1, <2>2, <2>3, ConcatProperties
    <2> QED
        BY <1>1, <2>2, <2>4
<1>9. Ordered(RunAll)
    <2> SUFFICES ASSUME NEW j \in DOMAIN RunAll
                 PROVE  /\ RunAll[j].op \in {"mark", "output", "unmark"} =>
                              RunAll[j].script \in SCRIPTS
                        /\ RunAll[j].op = "mark" =>
                              /\ j + 1 \in DOMAIN RunAll
                              /\ RunAll[j + 1] = Op("output", RunAll[j].script)
                        /\ RunAll[j].op = "output" =>
                              /\ j + 1 \in DOMAIN RunAll
                              /\ RunAll[j + 1] = Op("unmark", RunAll[j].script)
        BY DEF Ordered
    <2>1. CASE j = 1 \/ j = 4 * n + 2
        BY <1>5, <1>8, <2>1
    <2>2. CASE j # 1 /\ j # 4 * n + 2
        <3>1. j - 1 \in 1 .. 4 * n /\ j = (j - 1) + 1
            BY <1>1, <1>8, <2>2
        <3>2. RunAll[j] = Step(j - 1)
            BY <1>8, <3>1
        <3>3. j \in 1 .. 4 * n => RunAll[j + 1] = Step(j) /\ j + 1 \in DOMAIN RunAll
            BY <1>1, <1>8, <3>1
        <3> QED
            BY <1>6, <3>1, <3>2, <3>3
    <2> QED
        BY <2>1, <2>2
<1> QED
    BY <1>8, <1>9 DEF WellFormed

LEMMA TailFormed ==
    ASSUME NEW p, WellFormed(p), p # << >>
    PROVE  /\ WellFormed(Tail(p)) /\ 1 \in DOMAIN p /\ Head(p) = p[1]
           /\ 2 \in DOMAIN p => Tail(p) # << >> /\ Head(Tail(p)) = p[2]
<1>1. p \in Seq(Ops) /\ Ordered(p)
    BY DEF WellFormed
<1>2. /\ Tail(p) \in Seq(Ops) /\ 1 \in DOMAIN p /\ Head(p) = p[1]
      /\ DOMAIN p = 1 .. Len(p) /\ DOMAIN Tail(p) = 1 .. Len(p) - 1
      /\ \A i \in DOMAIN Tail(p) : Tail(p)[i] = p[i + 1]
    BY <1>1
<1>3. \A i \in DOMAIN Tail(p) : i + 1 \in DOMAIN p /\ Tail(p)[i] = p[i + 1]
    BY <1>1, <1>2
<1>4. \A i \in DOMAIN Tail(p) : i + 1 + 1 \in DOMAIN p =>
          i + 1 \in DOMAIN Tail(p) /\ Tail(p)[i + 1] = p[i + 1 + 1]
    BY <1>1, <1>2
<1>5. Ordered(Tail(p))
    BY <1>1, <1>3, <1>4 DEF Ordered
<1>6. 2 \in DOMAIN p => Tail(p) # << >> /\ Head(Tail(p)) = p[2]
    <2>1. 2 \in DOMAIN p => 1 \in DOMAIN Tail(p) /\ Tail(p)[1] = p[1 + 1]
        BY <1>1, <1>2
    <2>2. ASSUME NEW q \in Seq(Ops), 1 \in DOMAIN q PROVE q # << >> /\ Head(q) = q[1]
        BY <2>2
    <2>3. 1 \in DOMAIN Tail(p) => Tail(p) # << >> /\ Head(Tail(p)) = Tail(p)[1]
        BY <1>2, <2>2
    <2>4. 1 + 1 = 2
        OBVIOUS
    <2> QED
        BY <2>1, <2>3, <2>4
<1> QED
    BY <1>2, <1>5, <1>6 DEF WellFormed

(* What the end of a call leaves. *)
LEMMA CallEnds ==
    ASSUME CallInv, NEW t \in Tabs, RunEnds(t)
    PROVE  /\ call' = [call EXCEPT ![t] = "none"] /\ UNCHANGED <<myRun, runs>>
           /\ simRunningType' = [u \in Tabs |-> simRunningType'[u]]
           /\ \A u \in Tabs : u # t => simRunningType'[u] = simRunningType[u]
<1>1. call' = [call EXCEPT ![t] = "none"] /\ UNCHANGED <<myRun, runs>>
    BY Zenon DEF RunEnds
<1>2. \E a : simRunningType' = [simRunningType EXCEPT ![t] = a]
    BY Zenon DEF RunEnds
<1> QED
    BY <1>1, <1>2 DEF CallInv

LEMMA SimInitInv == SimInit => SimIInv
<1> SUFFICES ASSUME SimInit PROVE SimIInv
    OBVIOUS
<1>1. CallInv
    <2>1. \E a : simRunningType = [t \in Tabs |-> a]
        BY Zenon DEF SimInit
    <2>2. myRun = [t \in Tabs |-> 0] /\ runs = 0 /\ call = [t \in Tabs |-> "none"]
        BY Zenon DEF SimInit
    <2> QED
        BY <2>1, <2>2, SimBounds DEF CallInv
<1>2. WellFormed(<< >>)
    BY EmptySeq DEF WellFormed, Ordered
<1>3. PlanInv
    BY <1>2 DEF SimInit, PlanInv
<1>4. MarkInv
    BY DEF SimInit, MarkInv
<1> QED
    BY <1>1, <1>3, <1>4 DEF SimIInv

(* What a launch numbers, and what the end of one leaves. *)
LEMMA CallInvStep == ASSUME CallInv, [SimNext]_simVars PROVE CallInv'
<1> USE SimBounds DEF CallInv
<1>1. ASSUME NEW t \in Tabs, NEW a \in Attacks, Launch(t, a) PROVE CallInv'
    <2>1. runs' = runs + 1 /\ runs' \in Nat /\ runs' <= MaxRuns
        BY <1>1 DEF Launch
    <2>2. myRun' = [myRun EXCEPT ![t] = runs'] /\ call' = [call EXCEPT ![t] = "posting"]
              /\ simRunningType' = [simRunningType EXCEPT ![t] = a]
        BY <1>1 DEF Launch
    <2>3. myRun' \in [Tabs -> Nat] /\ \A u \in Tabs : myRun'[u] <= runs'
        BY <2>1, <2>2
    <2>4. call' \in [Tabs -> {"none", "posting", "streaming"}]
              /\ simRunningType' = [u \in Tabs |-> simRunningType'[u]]
        BY <2>2
    <2>5. \A u \in Tabs : call'[u] # "none" => myRun'[u] # 0
              /\ simRunningType'[u] \in Attacks
        BY <2>1, <2>2
    <2>6. \A u, v \in Tabs : u # v /\ myRun'[u] = myRun'[v] => myRun'[u] = 0
        <3>1. \A u \in Tabs : myRun[u] # runs'
            BY <2>1
        <3> QED
            BY <2>2, <3>1
    <2> QED
        BY <2>1, <2>3, <2>4, <2>5, <2>6
<1>2. ASSUME UNCHANGED <<runs, myRun, call, simRunningType>> PROVE CallInv'
    BY <1>2
<1>3. ASSUME NEW t \in Tabs, RunEnds(t), UNCHANGED runs PROVE CallInv'
    BY <1>3, CallEnds
<1>4. ASSUME NEW t \in Tabs, Admit(t) PROVE CallInv'
    BY <1>4 DEF Admit
<1>5. ASSUME NEW t \in Tabs, CallStep(t) PROVE CallInv'
    <2>1. CASE Read(t)
        BY <1>2, <2>1 DEF Read
    <2> QED
        BY <1>3, <1>4, <1>5, <2>1, CallEnds
            DEF CallStep, Refuse409, ReadDone, ConnectionFails
<1>6. ASSUME NEW r \in Runs, GeneratorStep(r) PROVE CallInv'
    <2>1. UNCHANGED <<panelVars, runs>>
        BY <1>6
        DEF GeneratorStep, SayLine, MarkRunning, ScriptPrints, ScriptExits, Unmark,
            GeneratorClosed
    <2> QED
        BY <1>2, <2>1 DEF panelVars
<1>7. CASE UNCHANGED simVars
    BY <1>2, <1>7 DEF simVars, panelVars
<1>8. ASSUME NEW t \in Tabs, clearLog(t) PROVE CallInv'
    BY <1>2, <1>8 DEF clearLog
<1> QED
    BY <1>1, <1>5, <1>6, <1>7, <1>8 DEF SimNext

(* The tab that has launched a run is the run's only one. *)
LEMMA PlanInvStep == ASSUME SimIInv, [SimNext]_simVars PROVE PlanInv'
<1> USE DEF SimIInv
<1>1. ASSUME UNCHANGED plan, runs' >= runs, runs' \in Nat,
             \A t \in Tabs : call'[t] = "posting" =>
                 \/ call[t] = "posting" /\ myRun'[t] = myRun[t]
                 \/ myRun'[t] \in Runs /\ myRun'[t] > runs
      PROVE  PlanInv'
    <2>1. \A r \in Runs : r > runs' => r > runs
        BY <1>1 DEF CallInv, Runs
    <2> QED
        BY <1>1, <2>1 DEF PlanInv
<1>2. ASSUME NEW t \in Tabs, NEW a \in Attacks, Launch(t, a) PROVE PlanInv'
    <2>1. runs \in Nat /\ runs' = runs + 1 /\ runs' \in Runs /\ runs' > runs
        BY <1>2, SimBounds DEF Launch, CallInv, Runs
    <2>2. \A u \in Tabs : IF u = t THEN myRun'[u] = runs'
                          ELSE call'[u] = call[u] /\ myRun'[u] = myRun[u]
        BY <1>2 DEF Launch, CallInv
    <2>3. UNCHANGED plan
        BY <1>2 DEF Launch
    <2> QED
        BY <1>1, <2>1, <2>2, <2>3
<1>3. ASSUME UNCHANGED <<plan, myRun, runs>>,
             \A t \in Tabs : call'[t] = "posting" => call[t] = "posting"
      PROVE  PlanInv'
    BY <1>3 DEF PlanInv
<1>4. ASSUME NEW t \in Tabs, RunEnds(t), UNCHANGED plan PROVE PlanInv'
    BY <1>3, <1>4, CallEnds DEF CallInv
<1>5. ASSUME NEW t \in Tabs, Admit(t) PROVE PlanInv'
    <2> DEFINE r == myRun[t]
               p == IF simRunningType[t] = "all" THEN RunAll ELSE RunOne(simRunningType[t])
    <2>1. r \in Runs /\ r <= runs /\ simRunningType[t] \in Attacks
        BY <1>5, SimBounds DEF Admit, CallInv, Runs
    <2>2. WellFormed(p)
        BY <2>1, OneFormed, AllFormed DEF Attacks
    <2>3. plan' = [plan EXCEPT ![r] = p]
        BY <1>5 DEF Admit
    <2>4. UNCHANGED <<myRun, runs>> /\ call' = [call EXCEPT ![t] = "streaming"]
        BY <1>5 DEF Admit
    <2>5. \A u \in Tabs : call'[u] = "posting" => u # t /\ call[u] = "posting"
              /\ myRun[u] # r
        BY <2>1, <2>4 DEF CallInv, Runs
    <2> HIDE DEF p, r
    <2>6. plan' = [q \in Runs |-> plan'[q]] /\ plan'[r] = p
              /\ \A q \in Runs : q # r => plan'[q] = plan[q]
        BY <2>1, <2>3 DEF PlanInv
    <2>7. \A q \in Runs : q > runs => q # r
        BY <2>1 DEF Runs, CallInv
    <2>8. \A u \in Tabs : call'[u] = "posting" => plan'[myRun'[u]] = << >>
        <3>1. \A u \in Tabs : call[u] = "posting" => myRun[u] \in Runs
            BY SimBounds DEF CallInv, Runs
        <3> QED
            BY <2>4, <2>5, <2>6, <3>1 DEF PlanInv, r
    <2> QED
        BY <2>2, <2>4, <2>6, <2>7, <2>8 DEF PlanInv
<1>6. ASSUME NEW t \in Tabs, CallStep(t) PROVE PlanInv'
    <2>1. CASE Read(t)
        BY <1>3, <2>1 DEF Read
    <2> QED
        BY <1>4, <1>5, <1>6, <2>1 DEF CallStep, Refuse409, ReadDone, ConnectionFails
<1>7. ASSUME NEW r \in Runs, GeneratorStep(r) PROVE PlanInv'
    <2>1. UNCHANGED <<myRun, call, runs>>
        BY <1>7 DEF GeneratorStep, SayLine, MarkRunning, ScriptPrints, ScriptExits, Unmark,
                    GeneratorClosed, panelVars
    <2>2. \/ UNCHANGED plan
          \/ \E p : /\ p \in {<< >>, Tail(plan[r])}
                    /\ plan[r] # << >> /\ plan' = [plan EXCEPT ![r] = p]
        BY <1>7 DEF GeneratorStep, SayLine, MarkRunning, ScriptPrints, ScriptExits, Unmark,
                    GeneratorClosed, Advance, Outputs
    <2>3. ASSUME NEW p, p \in {<< >>, Tail(plan[r])}, plan[r] # << >>,
                 plan' = [plan EXCEPT ![r] = p]
          PROVE  PlanInv'
        <3>1. WellFormed(plan[r])
            BY DEF PlanInv
        <3>2. WellFormed(<< >>)
            BY EmptySeq DEF WellFormed, Ordered
        <3>3. WellFormed(p)
            BY <2>3, <3>1, <3>2, TailFormed
        <3>4. plan' = [q \in Runs |-> plan'[q]] /\ plan'[r] = p
                  /\ \A q \in Runs : q # r => plan'[q] = plan[q]
            BY <2>3 DEF PlanInv
        <3>5. \A q \in Runs : q > runs => q # r
            BY <2>3 DEF PlanInv
        <3>6. \A u \in Tabs : call[u] = "posting" => myRun[u] \in Runs /\ myRun[u] # r
            <4>1. \A u \in Tabs : call[u] = "posting" => myRun[u] \in Runs
                BY SimBounds DEF CallInv, Runs
            <4> QED
                BY <2>3, <4>1 DEF PlanInv
        <3> QED
            BY <2>1, <3>3, <3>4, <3>5, <3>6 DEF PlanInv
    <2> QED
        BY <1>3, <2>1, <2>2, <2>3
<1>8. CASE UNCHANGED simVars
    BY <1>3, <1>8 DEF simVars, panelVars
<1>9. ASSUME NEW t \in Tabs, clearLog(t) PROVE PlanInv'
    BY <1>3, <1>9 DEF clearLog
<1> QED
    BY <1>2, <1>6, <1>7, <1>8, <1>9 DEF SimNext

(* One run moves on; the others own what they owned. *)
LEMMA MarkMoves ==
    ASSUME MarkInv, NEW r \in Runs, \A q \in Runs : q # r => plan'[q] = plan[q],
           running' \in [SCRIPTS -> BOOLEAN],
           \A s \in SCRIPTS : running'[s] => (running[s] /\ ~Owns(r, s)) \/ Owns(r, s)'
    PROVE  MarkInv'
<1>1. \A q \in Runs, s \in SCRIPTS : q # r /\ Owns(q, s) => Owns(q, s)'
    BY DEF Owns
<1>2. \A s \in SCRIPTS : running'[s] => \E q \in Runs : Owns(q, s)'
    BY <1>1 DEF MarkInv
<1> QED
    BY <1>2 DEF MarkInv

LEMMA MarkInvStep == ASSUME SimIInv, [SimNext]_simVars PROVE MarkInv'
<1> USE DEF SimIInv
<1>1. ASSUME UNCHANGED <<plan, running>> PROVE MarkInv'
    BY <1>1 DEF MarkInv, Owns
<1>2. ASSUME NEW t \in Tabs, Admit(t) PROVE MarkInv'
    <2>1. myRun[t] \in Runs /\ plan[myRun[t]] = << >>
        <3>1. call[t] = "posting"
            BY <1>2 DEF Admit
        <3>2. myRun[t] \in Runs
            BY <3>1, SimBounds DEF CallInv, Runs
        <3> QED
            BY <3>1, <3>2 DEF PlanInv
    <2>2. \A q \in Runs : q # myRun[t] => plan'[q] = plan[q]
        BY <1>2, <2>1 DEF Admit, PlanInv
    <2>3. \A s \in SCRIPTS : ~Owns(myRun[t], s)
        BY <2>1 DEF Owns
    <2>4. UNCHANGED running
        BY <1>2 DEF Admit
    <2>5. running' \in [SCRIPTS -> BOOLEAN] /\ \A s \in SCRIPTS : running'[s] => running[s]
        BY <2>4, Zenon DEF MarkInv
    <2> QED
        BY <2>1, <2>2, <2>3, <2>5, MarkMoves, Zenon
<1>3. ASSUME NEW t \in Tabs, CallStep(t) PROVE MarkInv'
    BY <1>1, <1>2, <1>3 DEF CallStep, Read, Refuse409, ReadDone, ConnectionFails
<1>4. ASSUME NEW r \in Runs, Outputs(r), Advance(r)
      PROVE  /\ plan[r] # << >> /\ plan[r] \in Seq(Ops)
             /\ NextOp(r) \in Ops /\ NextOp(r) = plan[r][1]
             /\ NextOp(r).op # "say" => NextOp(r).script \in SCRIPTS
             /\ NextOp(r).op = "mark" => /\ plan'[r] # << >>
                                         /\ Head(plan'[r]) = Op("output", NextOp(r).script)
             /\ NextOp(r).op = "output" => /\ plan'[r] # << >>
                                           /\ Head(plan'[r]) =
                                                  Op("unmark", NextOp(r).script)
             /\ \A q \in Runs : q # r => plan'[q] = plan[q]
    <2> DEFINE p == plan[r]
    <2>1. WellFormed(p) /\ p # << >>
        BY <1>4 DEF PlanInv, Outputs
    <2>2. /\ 1 \in DOMAIN p /\ Head(p) = p[1]
          /\ 2 \in DOMAIN p => Tail(p) # << >> /\ Head(Tail(p)) = p[2]
        BY <2>1, TailFormed
    <2>3. plan'[r] = Tail(p) /\ \A q \in Runs : q # r => plan'[q] = plan[q]
        BY <1>4 DEF Advance, PlanInv
    <2> HIDE DEF p
    <2>4. p \in Seq(Ops) /\ p[1] \in Ops
        BY <2>1, <2>2 DEF WellFormed
    <2>5. /\ p[1].op \in {"mark", "output", "unmark"} => p[1].script \in SCRIPTS
          /\ p[1].op = "mark" => 2 \in DOMAIN p /\ p[2] = Op("output", p[1].script)
          /\ p[1].op = "output" => 2 \in DOMAIN p /\ p[2] = Op("unmark", p[1].script)
        <3>1. 1 + 1 = 2
            OBVIOUS
        <3> QED
            BY <2>1, <2>2, <3>1 DEF WellFormed, Ordered
    <2>6. p[1].op \in {"say", "mark", "output", "unmark"}
        BY <2>4 DEF Ops
    <2> QED
        BY <2>1, <2>2, <2>3, <2>4, <2>5, <2>6 DEF NextOp, p
<1>5. ASSUME NEW s PROVE /\ Op("output", s).op = "output" /\ Op("output", s).script = s
                         /\ Op("unmark", s).op = "unmark" /\ Op("unmark", s).script = s
    BY DEF Op
<1>6. ASSUME NEW r \in Runs, plan[r] # << >>
      PROVE  \A s : Owns(r, s) => NextOp(r).op \in {"output", "unmark"}
                 /\ NextOp(r).script = s
    BY <1>5 DEF Owns, NextOp
<1>7. ASSUME NEW r \in Runs, SayLine(r) PROVE MarkInv'
    <2>1. Outputs(r) /\ Advance(r) /\ NextOp(r).op = "say" /\ UNCHANGED running
        BY <1>7 DEF SayLine
    <2>2. \A s \in SCRIPTS : ~Owns(r, s)
        BY <1>4, <1>6, <2>1
    <2>3. running' \in [SCRIPTS -> BOOLEAN] /\ \A s \in SCRIPTS : running'[s] => running[s]
        BY <2>1, Zenon DEF MarkInv
    <2> QED
        BY <1>4, <2>1, <2>2, <2>3, MarkMoves, Zenon
<1>8. ASSUME NEW r \in Runs, MarkRunning(r) PROVE MarkInv'
    <2>1. Outputs(r) /\ Advance(r) /\ NextOp(r).op = "mark"
        BY <1>8 DEF MarkRunning
    <2>2. \A s \in SCRIPTS : ~Owns(r, s)
        BY <1>4, <1>6, <2>1
    <2>4. running' = [running EXCEPT ![NextOp(r).script] = TRUE]
        BY <1>8 DEF MarkRunning
    <2>5. running' \in [SCRIPTS -> BOOLEAN]
              /\ \A s \in SCRIPTS : s # NextOp(r).script /\ running'[s] => running[s]
        BY <2>4 DEF MarkInv
    <2>6. \A s \in SCRIPTS : s = NextOp(r).script => Owns(r, s)'
        BY <1>4, <2>1 DEF Owns
    <2> QED
        BY <1>4, <2>1, <2>2, <2>5, <2>6, MarkMoves, Zenon
<1>9. ASSUME NEW r \in Runs, ScriptExits(r) PROVE MarkInv'
    <2>1. Outputs(r) /\ Advance(r) /\ NextOp(r).op = "output" /\ UNCHANGED running
        BY <1>9 DEF ScriptExits
    <2>2. \A s \in SCRIPTS : Owns(r, s) => Owns(r, s)'
        BY <1>4, <1>6, <2>1 DEF Owns
    <2>3. running' \in [SCRIPTS -> BOOLEAN] /\ \A s \in SCRIPTS : running'[s] => running[s]
        BY <2>1, Zenon DEF MarkInv
    <2> QED
        BY <1>4, <2>1, <2>2, <2>3, MarkMoves, Zenon
<1>10. ASSUME NEW r \in Runs, NEW s \in SCRIPTS, running' = [running EXCEPT ![s] = FALSE],
              \A z \in SCRIPTS : Owns(r, z) => z = s
       PROVE  /\ running' \in [SCRIPTS -> BOOLEAN]
              /\ \A z \in SCRIPTS : running'[z] => running[z] /\ ~Owns(r, z)
    <2>1. running' \in [SCRIPTS -> BOOLEAN] /\ \A z \in SCRIPTS : running'[z] => running[z]
              /\ z # s
        BY <1>10 DEF MarkInv
    <2> QED
        BY <1>10, <2>1, Zenon
<1>11. ASSUME NEW r \in Runs, Unmark(r) PROVE MarkInv'
    <2>1. Outputs(r) /\ Advance(r) /\ NextOp(r).op = "unmark"
        BY <1>11 DEF Unmark
    <2>2. \A z \in SCRIPTS : Owns(r, z) => z = NextOp(r).script
        BY <1>4, <1>6, <2>1
    <2>3. running' = [running EXCEPT ![NextOp(r).script] = FALSE]
              /\ NextOp(r).script \in SCRIPTS
        BY <1>4, <1>11, <2>1 DEF Unmark
    <2>4. /\ running' \in [SCRIPTS -> BOOLEAN]
          /\ \A z \in SCRIPTS : running'[z] => running[z] /\ ~Owns(r, z)
        BY <1>10, <2>2, <2>3
    <2> QED
        BY <1>4, <2>1, <2>4, MarkMoves, Zenon
<1>12. ASSUME NEW r \in Runs, GeneratorClosed(r) PROVE MarkInv'
    <2>1. plan[r] # << >> /\ \A q \in Runs : q # r => plan'[q] = plan[q]
        BY <1>12 DEF GeneratorClosed, PlanInv
    <2>2. /\ running' \in [SCRIPTS -> BOOLEAN]
          /\ \A z \in SCRIPTS : running'[z] => running[z] /\ ~Owns(r, z)
        <3>1. CASE InScript(r)
            <4>1. WellFormed(plan[r]) /\ NextOp(r) = plan[r][1] /\ 1 \in DOMAIN plan[r]
                BY <2>1, TailFormed DEF PlanInv, NextOp
            <4>2. NextOp(r).script \in SCRIPTS
                BY <3>1, <4>1 DEF WellFormed, Ordered, InScript
            <4>3. \A z \in SCRIPTS : Owns(r, z) => z = NextOp(r).script
                BY <1>6, <2>1
            <4> QED
                BY <1>10, <1>12, <3>1, <4>2, <4>3 DEF GeneratorClosed
        <3>2. CASE ~InScript(r)
            <4>1. \A z \in SCRIPTS : ~Owns(r, z)
                BY <1>6, <2>1, <3>2 DEF InScript
            <4>2. UNCHANGED running
                BY <1>12, <3>2 DEF GeneratorClosed
            <4> QED
                BY <4>1, <4>2, Zenon DEF MarkInv
        <3> QED
            BY <3>1, <3>2
    <2> QED
        BY <2>1, <2>2, MarkMoves, Zenon
<1>13. ASSUME NEW r \in Runs, GeneratorStep(r) PROVE MarkInv'
    <2>1. CASE ScriptPrints(r)
        BY <1>1, <2>1 DEF ScriptPrints
    <2> QED
        BY <1>7, <1>8, <1>9, <1>11, <1>12, <1>13, <2>1 DEF GeneratorStep
<1>14. ASSUME NEW t \in Tabs, clearLog(t) PROVE MarkInv'
    BY <1>1, <1>14 DEF clearLog
<1>15. ASSUME NEW t \in Tabs, NEW a \in Attacks, Launch(t, a) PROVE MarkInv'
    BY <1>1, <1>15 DEF Launch
<1>16. CASE UNCHANGED simVars
    BY <1>1, <1>16 DEF simVars
<1> QED
    BY <1>3, <1>13, <1>14, <1>15, <1>16 DEF SimNext

(* A script marked as running is about to be unmarked by the generator of some *)
(* run: api.py:37-123 sets the mark and takes it away around the output of the *)
(* script, also when the reader closes the stream half way.                     *)
THEOREM MarksAreTakenAway == SimSpec => []MarkHasOwner
<1>1. SimIInv => MarkHasOwner
    <2> SUFFICES ASSUME SimIInv, NEW s \in SCRIPTS, running[s]
                 PROVE  \E r \in Runs : \E i \in DOMAIN plan[r] : plan[r][i] =
                            Op("unmark", s)
        BY DEF MarkHasOwner
    <2>1. PICK r \in Runs : Owns(r, s)
        BY DEF SimIInv, MarkInv
    <2>2. WellFormed(plan[r]) /\ 1 \in DOMAIN plan[r] /\ Head(plan[r]) = plan[r][1]
        BY <2>1, TailFormed DEF SimIInv, PlanInv, Owns
    <2>3. plan[r][1] = Op("output", s) \/ plan[r][1] = Op("unmark", s)
        BY <2>1, <2>2 DEF Owns
    <2>4. Op("output", s).op = "output" /\ Op("output", s).script = s
        BY DEF Op
    <2>5. plan[r][1] = Op("output", s) =>
              1 + 1 \in DOMAIN plan[r] /\ plan[r][1 + 1] = Op("unmark", s)
        BY <2>2, <2>4 DEF WellFormed, Ordered
    <2> QED
        BY <2>2, <2>3, <2>5
<1>2. SimIInv /\ [SimNext]_simVars => SimIInv'
    BY CallInvStep, PlanInvStep, MarkInvStep DEF SimIInv
<1> QED
    BY SimInitInv, <1>1, <1>2, PTL DEF SimSpec
-----------------------------------------------------------------------------
(* The stream and the log *)

Entries == [run : Nat, line : Int, type : {"start", "log", "error"}]

(* A log of one run whose last line is n. *)
LogOf(shownLog, r, n) ==
    /\ shownLog \in Seq(Entries) /\ Len(shownLog) <= LOG_MAX
    /\ \A i \in 1 .. Len(shownLog) : shownLog[i].run = r
    /\ \A i \in 2 .. Len(shownLog) : shownLog[i].line \in {shownLog[i - 1].line + 1, -1}
    /\ Len(shownLog) > 0 => shownLog[Len(shownLog)].line = n

LEMMA EntryFields ==
    ASSUME NEW r \in Nat, NEW n \in Int, NEW type \in {"start", "log", "error"}
    PROVE  /\ Entry(r, n, type) \in Entries
           /\ Entry(r, n, type).run = r /\ Entry(r, n, type).line = n
BY DEF Entry, Entries

LEMMA EmptyLog == ASSUME NEW r, NEW n PROVE LogOf(<< >>, r, n)
<1>1. << >> \in Seq(Entries) /\ Len(<< >>) = 0
    BY EmptySeq
<1> QED
    BY <1>1, SimBounds DEF LogOf

(* appendLog of the next line, or of an error. *)
LEMMA LogGrows ==
    ASSUME NEW r \in Nat, NEW n \in Int, NEW m \in {n + 1, -1}, NEW shownLog, LogOf(shownLog, r, n),
           NEW entry \in Entries, entry.run = r, entry.line = m
    PROVE  LogOf(appendLog(shownLog, entry), r, m)
<1> DEFINE longer == Append(shownLog, entry)
           N == Len(longer)
           cut == IF N > LOG_MAX THEN N - LOG_MAX ELSE 0
<1>1. /\ longer \in Seq(Entries) /\ N = Len(shownLog) + 1 /\ longer[N] = entry
      /\ \A i \in 1 .. Len(shownLog) : longer[i] = shownLog[i]
      /\ Len(shownLog) \in Nat /\ shownLog \in Seq(Entries) /\ Len(shownLog) <= LOG_MAX
    BY AppendProperties DEF LogOf
<1>2. appendLog(shownLog, entry) = SubSeq(longer, 1 + cut, N)
    BY DEF appendLog
<1> HIDE DEF longer, N
<1>3. cut \in 0 .. 1 /\ N - cut <= LOG_MAX /\ N - cut >= 1 /\ N \in Nat
    BY <1>1, SimBounds
<1>4. \A i \in 1 .. N : longer[i].run = r
    BY <1>1 DEF LogOf
<1>5. \A i \in 2 .. N : longer[i].line \in {longer[i - 1].line + 1, -1}
    <2>1. \A i \in 2 .. Len(shownLog) : longer[i].line \in {longer[i - 1].line + 1, -1}
        <3>1. \A i \in 2 .. Len(shownLog) : i \in 1 .. Len(shownLog) /\ i - 1 \in 1 .. Len(shownLog)
            BY <1>1
        <3>2. \A i \in 2 .. Len(shownLog) : shownLog[i].line \in {shownLog[i - 1].line + 1, -1}
            BY DEF LogOf
        <3> QED
            BY <1>1, <3>1, <3>2
    <2>2. Len(shownLog) > 0 => longer[N].line \in {longer[N - 1].line + 1, -1}
        <3>1. Len(shownLog) > 0 => N - 1 = Len(shownLog) /\ Len(shownLog) \in 1 .. Len(shownLog)
            BY <1>1
        <3>2. Len(shownLog) > 0 => shownLog[Len(shownLog)].line = n
            BY DEF LogOf
        <3> QED
            BY <1>1, <3>1, <3>2
    <2>3. \A i \in 2 .. N : i \in 2 .. Len(shownLog) \/ (i = N /\ Len(shownLog) > 0)
        BY <1>1
    <2> QED
        BY <2>1, <2>2, <2>3
<1> DEFINE new == SubSeq(longer, 1 + cut, N)
<1>6. /\ new \in Seq(Entries) /\ Len(new) = N - cut
      /\ \A i \in 1 .. N - cut : new[i] = longer[cut + i]
    <2>1. 1 + cut \in 1 .. N + 1 /\ N \in 0 .. Len(longer)
        BY <1>1, <1>3 DEF N
    <2> HIDE DEF cut
    <2>2. /\ SubSeq(longer, 1 + cut, N) \in Seq(Entries)
          /\ Len(SubSeq(longer, 1 + cut, N)) = N - cut
        BY <1>1, <1>3, <2>1, SubSeqProperties DEF N
    <2>3. \A i \in 1 .. N - cut : SubSeq(longer, 1 + cut, N)[i] = longer[cut + i]
        <3> SUFFICES ASSUME NEW i \in 1 .. N - cut
                     PROVE  SubSeq(longer, 1 + cut, N)[i] = longer[cut + i]
            OBVIOUS
        <3>1. SubSeq(longer, 1 + cut, N)[i] = longer[(1 + cut) + i - 1]
            BY <1>1, <1>3, <2>1, SubSeqProperties DEF N
        <3>2. (1 + cut) + i - 1 = cut + i
            BY <1>3
        <3> QED
            BY <3>1, <3>2
    <2> QED
        BY <2>2, <2>3
<1> HIDE DEF new, cut
<1>7. \A i \in 1 .. Len(new) : cut + i \in 1 .. N
    BY <1>3, <1>6
<1>8. \A i \in 1 .. Len(new) : new[i].run = r
    BY <1>4, <1>6, <1>7
<1>9. \A i \in 2 .. Len(new) : new[i].line \in {new[i - 1].line + 1, -1}
    <2>1. \A i \in 2 .. Len(new) : /\ cut + i \in 2 .. N /\ (cut + i) - 1 = cut + (i - 1)
                                   /\ i \in 1 .. N - cut /\ i - 1 \in 1 .. N - cut
        BY <1>3, <1>6
    <2> QED
        BY <1>5, <1>6, <2>1
<1>10. new[Len(new)].line = m
    <2>1. Len(new) \in 1 .. N - cut /\ cut + Len(new) = N
        BY <1>3, <1>6
    <2> QED
        BY <1>1, <1>6, <2>1
<1>11. LogOf(new, r, m)
    BY <1>3, <1>6, <1>8, <1>9, <1>10 DEF LogOf
<1> QED
    BY <1>2, <1>11 DEF new

(* The lines of a read, one after the other. *)
LoggedStep(shownLog, r, lines, g) ==
    [n \in 0 .. Len(lines) |->
        IF n = 0 THEN shownLog ELSE appendLog(g[n - 1], Entry(r, lines[n], "log"))]

LEMMA AppendedIsALog ==
    ASSUME NEW shownLog \in Seq(Entries), NEW entry \in Entries
    PROVE  appendLog(shownLog, entry) \in Seq(Entries)
<1>1. Append(shownLog, entry) \in Seq(Entries) /\ Len(Append(shownLog, entry)) \in Nat \ {0}
    BY AppendProperties
<1>2. 1 + (IF Len(Append(shownLog, entry)) > LOG_MAX THEN Len(Append(shownLog, entry)) - LOG_MAX ELSE 0)
          \in 1 .. Len(Append(shownLog, entry)) + 1
    BY <1>1, SimBounds
<1> DEFINE longer == Append(shownLog, entry)
           from == 1 + (IF Len(longer) > LOG_MAX THEN Len(longer) - LOG_MAX ELSE 0)
<1>3. appendLog(shownLog, entry) = SubSeq(longer, from, Len(longer))
    BY DEF appendLog
<1>4. from \in 1 .. Len(longer) + 1 /\ longer \in Seq(Entries) /\ Len(longer) \in Nat
    BY <1>1, <1>2
<1> HIDE DEF from, longer
<1>5. SubSeq(longer, from, Len(longer)) \in Seq(Entries)
    BY <1>4, SubSeqProperties
<1> QED
    BY <1>3, <1>5

(* f[n] is the log after n lines. *)
Logs(f, shownLog, r, lines) ==
    /\ Logged(shownLog, r, lines) = f[Len(lines)]
    /\ f[0] = shownLog
    /\ \A n \in 1 .. Len(lines) : f[n] = appendLog(f[n - 1], Entry(r, lines[n], "log"))

LEMMA LoggedRecursion ==
    ASSUME NEW shownLog \in Seq(Entries), NEW r \in Nat, NEW lines \in Seq(Nat)
    PROVE  \E f : Logs(f, shownLog, r, lines)
<1> DEFINE m == Len(lines)
           V == Seq(Entries)
           F == [n \in 1 .. m |-> [x \in V |-> appendLog(x, Entry(r, lines[n], "log"))]]
           f == CHOOSE g : g = LoggedStep(shownLog, r, lines, g)
<1>1. m \in Nat /\ \A n \in 1 .. m : Entry(r, lines[n], "log") \in Entries
    BY EntryFields
<1>2. \A n \in 1 .. m : \A x \in V :
          F[n][x] = appendLog(x, Entry(r, lines[n], "log")) /\ F[n][x] \in V
    BY <1>1, AppendedIsALog
<1>3. Stays(F, m, V)
    BY <1>2 DEF Stays
<1>4. Logged(shownLog, r, lines) = f[m]
    BY Zenon DEF Logged, reduce, LoggedStep
<1> HIDE DEF F, m, V
<1>5. PICK g \in [0 .. m -> V] : Recurses(g, F, m, shownLog)
    <2>1. m \in Nat /\ shownLog \in V
        BY <1>1 DEF V
    <2> QED
        BY <1>3, <2>1, Recursion, Zenon
<1>6. ASSUME NEW n \in 0 .. m
      PROVE  g[n] = IF n = 0 THEN shownLog ELSE appendLog(g[n - 1], Entry(r, lines[n], "log"))
    <2>1. CASE n = 0
        BY <1>5, <2>1 DEF Recurses
    <2>2. CASE n # 0
        <3>1. n \in 1 .. m /\ n - 1 \in 0 .. m
            BY <1>1, <2>2
        <3>2. g[n] = F[n][g[n - 1]] /\ g[n - 1] \in V
            BY <1>5, <3>1 DEF Recurses
        <3> QED
            BY <1>2, <2>2, <3>1, <3>2
    <2> QED
        BY <2>1, <2>2
<1>7. g = LoggedStep(shownLog, r, lines, g)
    BY <1>5, <1>6 DEF LoggedStep, m
<1>8. f = LoggedStep(shownLog, r, lines, f)
    BY <1>7, Zenon
<1> HIDE DEF f
<1>9. f[0] = shownLog
    BY <1>1, <1>8 DEF LoggedStep, m
<1>10. ASSUME NEW n \in 1 .. m PROVE f[n] = appendLog(f[n - 1], Entry(r, lines[n], "log"))
    <2>1. LoggedStep(shownLog, r, lines, f)[n] = appendLog(f[n - 1], Entry(r, lines[n], "log"))
        BY <1>1 DEF LoggedStep, m
    <2> QED
        BY <1>8, <2>1
<1>11. Logs(f, shownLog, r, lines)
    BY <1>4, <1>9, <1>10 DEF m, Logs
<1> QED
    BY <1>11, Zenon

LEMMA LinesLogged ==
    ASSUME NEW r \in Nat, NEW e \in Nat, NEW q \in Nat, NEW shownLog, LogOf(shownLog, r, e),
           NEW lines, lines = [k \in 1 .. q |-> e + k]
    PROVE  LogOf(Logged(shownLog, r, lines), r, e + q)
<1>1. lines \in Seq(Nat) /\ Len(lines) = q /\ \A k \in 1 .. q : lines[k] = e + k
    OBVIOUS
<1>2. PICK f : Logs(f, shownLog, r, lines)
    <2>1. shownLog \in Seq(Entries)
        BY DEF LogOf
    <2>2. lines \in Seq(Nat)
        BY <1>1
    <2> QED
        BY <2>1, <2>2, LoggedRecursion, Zenon
<1> DEFINE P == {k \in 0 .. q : LogOf(f[k], r, e + k)}
<1>3. 0 \in P
    <2>1. e + 0 = e /\ 0 \in 0 .. q
        OBVIOUS
    <2> QED
        BY <1>2, <2>1 DEF Logs
<1>4. ASSUME NEW k \in 0 .. q - 1, k \in P PROVE k + 1 \in P
    <2>1. k + 1 \in 1 .. q /\ (k + 1) - 1 = k /\ k + 1 \in 0 .. q /\ e + k \in Int
              /\ e + (k + 1) = (e + k) + 1 /\ e + (k + 1) \in Int
        OBVIOUS
    <2>2. f[k + 1] = appendLog(f[k], Entry(r, e + (k + 1), "log"))
        BY <1>1, <1>2, <2>1 DEF Logs
    <2>3. /\ Entry(r, e + (k + 1), "log") \in Entries
          /\ Entry(r, e + (k + 1), "log").run = r
                 /\ Entry(r, e + (k + 1), "log").line = e + (k + 1)
        BY <2>1, EntryFields
    <2>4. LogOf(f[k], r, e + k)
        BY <1>4
    <2>5. e + (k + 1) \in {(e + k) + 1, -1}
        BY <2>1
    <2>6. LogOf(appendLog(f[k], Entry(r, e + (k + 1), "log")), r, e + (k + 1))
        BY <2>1, <2>3, <2>4, <2>5, LogGrows, Zenon
    <2> QED
        BY <2>1, <2>2, <2>6
<1>5. q \in P
    <2> HIDE DEF P
    <2>1. \A k \in 0 .. q : k \in P
        BY <1>3, <1>4, UpTo, Zenon
    <2> QED
        BY <2>1
<1> QED
    BY <1>1, <1>2, <1>5 DEF Logs

(* Text *)
Piece(k) == [line |-> (k + 1) \div 2, part |-> IF k % 2 = 1 THEN "head" ELSE "tail"]
(* A text that starts after piece b of its stream. *)
TextFrom(s, b) == s \in Seq({Piece(k) : k \in Nat})
    /\ \A i \in 1 .. Len(s) : s[i] = Piece(b + i)

LEMMA Halves ==
    ASSUME NEW e \in Nat, NEW i \in Nat
    PROVE  /\ (2 * e + i) % 2 = i % 2 /\ ((2 * e + i) + 1) \div 2 = e + ((i + 1) \div 2)
           /\ i % 2 \in 0 .. 1 /\ i = 2 * (i \div 2) + (i % 2)
           /\ i % 2 = 0 => (i + 1) \div 2 = i \div 2 /\ (i - 1) % 2 = 1
                  /\ (i - 1) \div 2 = (i \div 2) - 1
           /\ i % 2 = 1 => (i + 1) \div 2 = (i \div 2) + 1 /\ (i - 1) % 2 = 0
                  /\ (i - 1) \div 2 = i \div 2
           /\ i \div 2 \in Nat
<1>1. i \div 2 \in Nat /\ i % 2 \in 0 .. 1 /\ i = 2 * (i \div 2) + (i % 2)
    OBVIOUS
<1> DEFINE q == i \div 2
           b == i % 2
<1> HIDE DEF q, b
<1>2. q \in Nat /\ b \in 0 .. 1 /\ i = 2 * q + b
    BY <1>1 DEF q, b
<1>3. (2 * e + i) % 2 = b
    <2>1. 2 * e + i = 2 * (e + q) + b
        BY <1>2
    <2> QED
        BY <1>2, <2>1
<1>4. ((2 * e + i) + 1) \div 2 = e + ((i + 1) \div 2)
    BY <1>2
<1>5. /\ b = 0 => (i + 1) \div 2 = q /\ (i - 1) % 2 = 1 /\ (i - 1) \div 2 = q - 1
      /\ b = 1 => (i + 1) \div 2 = q + 1 /\ (i - 1) % 2 = 0 /\ (i - 1) \div 2 = q
    BY <1>2
<1> QED
    BY <1>1, <1>3, <1>4, <1>5 DEF q, b

LEMMA PieceIs ==
    ASSUME NEW e \in Nat, NEW text, TextFrom(text, 2 * e), NEW i \in 1 .. Len(text)
    PROVE  /\ text[i].part = (IF i % 2 = 1 THEN "head" ELSE "tail")
           /\ text[i].line = e + ((i + 1) \div 2)
<1>1. text[i] = Piece(2 * e + i) /\ i \in Nat
    BY DEF TextFrom
<1> QED
    BY <1>1, Halves DEF Piece

(* The positions of the line ends. *)
Ends(text) == {i \in DOMAIN Listing(text) :
                  /\ text[Listing(text)[i]].part = "tail" /\ Listing(text)[i] > 1
                  /\ text[Listing(text)[i] - 1].part = "head"}

LEMMA EndsAreEven ==
    ASSUME NEW e \in Nat, NEW text, TextFrom(text, 2 * e), NEW i \in 1 .. Len(text)
    PROVE  i \in Ends(text) <=> i % 2 = 0
<1>1. text \in Seq({Piece(k) : k \in Nat})
    BY DEF TextFrom
<1>2. DOMAIN Listing(text) = 1 .. Len(text) /\ Listing(text)[i] = i /\ Len(text) \in Nat
    BY <1>1 DEF Listing
<1>3. text[i].part = (IF i % 2 = 1 THEN "head" ELSE "tail")
    BY PieceIs
<1>4. i > 1 => text[i - 1].part = (IF (i - 1) % 2 = 1 THEN "head" ELSE "tail")
    <2>1. i > 1 => i - 1 \in 1 .. Len(text)
        BY <1>2
    <2> QED
        BY <2>1, PieceIs
<1>5. i % 2 = 0 => i > 1 /\ (i - 1) % 2 = 1
    OBVIOUS
<1>6. i % 2 = 0 \/ i % 2 = 1
    OBVIOUS
<1> QED
    BY <1>2, <1>3, <1>4, <1>5, <1>6 DEF Ends

LEMMA EvenPicked ==
    ASSUME NEW S, NEW s \in Seq(S), NEW keep,
           \A i \in 1 .. Len(s) : i \in keep <=> i % 2 = 0,
           \A i \in 1 .. Len(s) : s[i] = i
    PROVE  Picked(s, keep) = [k \in 1 .. Len(s) \div 2 |-> 2 * k]
<1>1. PICK f : /\ Picked(s, keep) = f[Len(s)]
               /\ f[0] = << >>
               /\ \A n \in 1 .. Len(s) : f[n] =
                      IF n \in keep THEN Append(f[n - 1], s[n]) ELSE f[n - 1]
    BY PickedRecursion
<1> DEFINE E(n) == [k \in 1 .. n \div 2 |-> 2 * k]
           P == {n \in 0 .. Len(s) : f[n] = E(n)}
<1>2. Len(s) \in Nat
    OBVIOUS
<1>3. 0 \in P
    <2>1. E(0) = << >>
        OBVIOUS
    <2> QED
        BY <1>1, <1>2, <2>1
<1>4. ASSUME NEW n \in 0 .. Len(s) - 1, n \in P PROVE n + 1 \in P
    <2>1. n + 1 \in 1 .. Len(s) /\ (n + 1) - 1 = n /\ n + 1 \in 0 .. Len(s)
              /\ s[n + 1] = n + 1
        BY <1>2
    <2>2. f[n + 1] = IF (n + 1) % 2 = 0 THEN Append(E(n), n + 1) ELSE E(n)
        BY <1>1, <1>4, <2>1
    <2>3. CASE (n + 1) % 2 = 0
        <3>1. n \div 2 \in Nat /\ (n + 1) \div 2 = (n \div 2) + 1
                  /\ n + 1 = 2 * ((n + 1) \div 2)
            BY <2>1, <2>3
        <3> DEFINE q == n \div 2
        <3> HIDE DEF q
        <3>2. Append([k \in 1 .. q |-> 2 * k], 2 * (q + 1)) = [k \in 1 .. q + 1 |-> 2 * k]
            <4>1. q \in Nat
                BY <3>1 DEF q
            <4> QED
                BY <4>1
        <3> QED
            BY <2>1, <2>2, <2>3, <3>1, <3>2 DEF q
    <2>4. CASE (n + 1) % 2 # 0
        <3>1. (n + 1) \div 2 = n \div 2
            BY <2>1, <2>4
        <3> QED
            BY <2>1, <2>2, <2>4, <3>1
    <2> QED
        BY <2>3, <2>4
<1>5. Len(s) \in P
    <2> HIDE DEF P
    <2>1. \A n \in 0 .. Len(s) : n \in P
        BY <1>2, <1>3, <1>4, UpTo, Zenon
    <2> QED
        BY <1>2, <2>1
<1> QED
    BY <1>1, <1>5

(* What a read takes from the text: its whole lines. *)
LEMMA TextLines ==
    ASSUME NEW e \in Nat, NEW text, TextFrom(text, 2 * e)
    PROVE  Lines(text) = [k \in 1 .. Len(text) \div 2 |-> e + k]
<1>1. text \in Seq({Piece(k) : k \in Nat})
    BY DEF TextFrom
<1>2. /\ Listing(text) \in Seq(Nat) /\ Len(Listing(text)) = Len(text)
      /\ \A i \in 1 .. Len(text) : Listing(text)[i] = i
    <2>1. Len(text) \in Nat /\ DOMAIN text = 1 .. Len(text)
        BY <1>1
    <2>2. Listing(text) \in Seq(Nat)
        BY <2>1 DEF Listing
    <2> QED
        BY <1>1, <2>2, ListingIs
<1> DEFINE ends == Picked(Listing(text), Ends(text))
           q == Len(text) \div 2
<1>3. ends = [k \in 1 .. q |-> 2 * k]
    <2>1. \A i \in 1 .. Len(Listing(text)) : i \in Ends(text) <=> i % 2 = 0
        BY <1>2, EndsAreEven
    <2> QED
        BY <1>2, <2>1, EvenPicked
<1>4. Lines(text) = [k \in DOMAIN ends |-> text[ends[k]].line]
    BY Zenon DEF Lines, filter, Ends, Listing
<1> HIDE DEF ends
<1>5. \A k \in 1 .. q : ends[k] = 2 * k /\ text[ends[k]].line = e + k
    <2> SUFFICES ASSUME NEW k \in 1 .. q
                 PROVE  ends[k] = 2 * k /\ text[ends[k]].line = e + k
        OBVIOUS
    <2>1. ends[k] = 2 * k
        BY <1>3
    <2>2. Len(text) \in Nat
        BY <1>1
    <2>3. 2 * k \in 1 .. Len(text) /\ (2 * k + 1) \div 2 = k
        BY <2>2
    <2> QED
        BY <2>1, <2>3, PieceIs
<1>6. DOMAIN ends = 1 .. q
    BY <1>3
<1> QED
    BY <1>4, <1>5, <1>6

LEMMA WholeHalves ==
    ASSUME NEW n \in Nat
    PROVE  /\ n % 2 = 1 => 2 * (n \div 2) + 1 = n
           /\ n % 2 # 1 => 2 * (n \div 2) = n
<1>1. 0 \in Nat /\ n % 2 \in 0 .. 1 /\ n = 2 * (n \div 2) + (n % 2) /\ n \div 2 \in Nat
    BY Halves
<1> QED
    BY <1>1

(* What a read leaves for the next: the half line at its end. *)
LEMMA TextLeft ==
    ASSUME NEW e \in Nat, NEW text, TextFrom(text, 2 * e)
    PROVE  Leftover(text) =
               IF Len(text) % 2 = 1 THEN <<Piece(2 * e + Len(text))>> ELSE << >>
<1> DEFINE T == {0} \cup {i \in DOMAIN text : text[i].part = "tail"}
           last == 2 * (Len(text) \div 2)
<1>1. text \in Seq({Piece(k) : k \in Nat}) /\ Len(text) \in Nat
          /\ DOMAIN text = 1 .. Len(text)
    BY DEF TextFrom
<1>2. \A i \in 1 .. Len(text) : text[i].part = "tail" <=> i % 2 = 0
    BY <1>1, PieceIs
<1>3. last \in T /\ \A i \in T : i <= last
    BY <1>1, <1>2
<1>4. LastEnd(text) = last
    <2>1. LastEnd(text) = CHOOSE x \in T : \A y \in T : x >= y
        BY Zenon DEF LastEnd, Max
    <2>2. T \subseteq Nat /\ last \in Nat
        BY <1>1
    <2> HIDE DEF T, last
    <2>3. \E x \in T : \A y \in T : x >= y
        BY <1>3, <2>2
    <2>4. LastEnd(text) \in T /\ \A y \in T : LastEnd(text) >= y
        BY <2>1, <2>3, Zenon
    <2>5. LastEnd(text) \in Nat /\ LastEnd(text) <= last /\ last <= LastEnd(text)
        BY <1>3, <2>2, <2>4
    <2> QED
        BY <2>2, <2>5
<1>5. Leftover(text) = SubSeq(text, last + 1, Len(text))
    BY <1>4 DEF Leftover
<1>6. CASE Len(text) % 2 = 1
    <2>1. last + 1 = Len(text) /\ Len(text) \in 1 .. Len(text)
        <3>1. last + 1 = Len(text)
            BY <1>1, <1>6, WholeHalves
        <3>2. last \in Nat
            BY <1>1
        <3>3. Len(text) \in Nat
            BY <1>1
        <3> HIDE DEF last
        <3>4. Len(text) \in 1 .. Len(text)
            BY ONLY <3>1, <3>2, <3>3
        <3> QED
            BY <3>1, <3>4
    <2> HIDE DEF last
    <2>2. SubSeq(text, Len(text), Len(text)) = <<text[Len(text)]>>
        <3> DEFINE n == Len(text)
                   S == {Piece(k) : k \in Nat}
        <3>1. n \in 1 .. Len(text) + 1 /\ n \in 0 .. Len(text) /\ text \in Seq(S)
                  /\ text[n] \in S
            BY <1>1, <2>1
        <3>2. (n - n) + 1 = 1 /\ (n + 1) - 1 = n
            BY <1>1
        <3> HIDE DEF S, n
        <3>3. /\ SubSeq(text, n, n) \in Seq(S) /\ Len(SubSeq(text, n, n)) = 1
              /\ SubSeq(text, n, n)[1] = text[n]
            BY <3>1, <3>2, SubSeqProperties
        <3>4. \A s \in Seq(S) : Len(s) = 1 => s = <<s[1]>>
            OBVIOUS
        <3>5. SubSeq(text, n, n) = <<text[n]>>
            BY <3>3, <3>4
        <3> QED
            BY <3>5 DEF n
    <2>3. text[Len(text)] = Piece(2 * e + Len(text))
        BY <2>1 DEF TextFrom
    <2> QED
        BY <1>5, <1>6, <2>1, <2>2, <2>3
<1>7. CASE Len(text) % 2 # 1
    <2>1. last = Len(text)
        BY <1>1, <1>7, WholeHalves
    <2> HIDE DEF last
    <2>2. SubSeq(text, Len(text) + 1, Len(text)) = << >>
        BY <1>1
    <2> QED
        BY <1>5, <1>7, <2>1, <2>2
<1> QED
    BY <1>6, <1>7

LEMMA TextJoins ==
    ASSUME NEW b \in Nat, NEW x, TextFrom(x, b), NEW y, TextFrom(y, b + Len(x))
    PROVE  TextFrom(x \o y, b) /\ Len(x \o y) = Len(x) + Len(y)
<1> DEFINE S == {Piece(k) : k \in Nat}
<1>1. x \in Seq(S) /\ y \in Seq(S)
    BY DEF TextFrom
<1>2. /\ \A i \in 1 .. Len(x) : x[i] = Piece(b + i)
      /\ \A i \in 1 .. Len(y) : y[i] = Piece((b + Len(x)) + i)
    BY DEF TextFrom
<1>3. Len(x) \in Nat /\ Len(y) \in Nat
    BY <1>1
<1> HIDE DEF S
<1>4. /\ x \o y \in Seq(S) /\ Len(x \o y) = Len(x) + Len(y)
      /\ \A i \in 1 .. Len(x) + Len(y) :
            (x \o y)[i] = IF i <= Len(x) THEN x[i] ELSE y[i - Len(x)]
    BY <1>1, ConcatProperties
<1>5. ASSUME NEW i \in 1 .. Len(x) + Len(y) PROVE (x \o y)[i] = Piece(b + i)
    <2>1. CASE i <= Len(x)
        <3>1. i \in 1 .. Len(x)
            BY <1>3, <2>1
        <3> QED
            BY <1>2, <1>4, <2>1, <3>1
    <2>2. CASE ~ (i <= Len(x))
        <3>1. i - Len(x) \in 1 .. Len(y) /\ (b + Len(x)) + (i - Len(x)) = b + i
            BY <1>3, <2>2
        <3>2. (x \o y)[i] = y[i - Len(x)]
            BY <1>4, <2>2
        <3>3. y[i - Len(x)] = Piece((b + Len(x)) + (i - Len(x)))
            BY <1>2, <3>1
        <3> QED
            BY <3>1, <3>2, <3>3
    <2> QED
        BY <2>1, <2>2
<1> QED
    BY <1>4, <1>5 DEF TextFrom, S

LEMMA TextCut ==
    ASSUME NEW b \in Nat, NEW w, TextFrom(w, b), NEW n \in 1 .. Len(w)
    PROVE  /\ TextFrom(SubSeq(w, 1, n), b) /\ Len(SubSeq(w, 1, n)) = n
           /\ TextFrom(SubSeq(w, n + 1, Len(w)), b + n)
           /\ Len(SubSeq(w, n + 1, Len(w))) = Len(w) - n
<1> DEFINE S == {Piece(k) : k \in Nat}
           N == Len(w)
<1>1. w \in Seq(S) /\ \A i \in 1 .. N : w[i] = Piece(b + i)
    BY DEF TextFrom
<1>2. N \in Nat /\ n \in 1 .. N
    BY <1>1
<1> HIDE DEF S
<1>3. /\ SubSeq(w, 1, n) \in Seq(S) /\ Len(SubSeq(w, 1, n)) = n
      /\ \A i \in 1 .. n : SubSeq(w, 1, n)[i] = w[i]
    <2>1. 1 \in 1 .. Len(w) + 1 /\ n \in 0 .. Len(w) /\ (n - 1) + 1 = n /\ 1 <= n
              /\ \A i \in 1 .. n : (1 + i) - 1 = i
        BY <1>2
    <2> QED
        BY <1>1, <2>1, SubSeqProperties
<1>4. /\ SubSeq(w, n + 1, N) \in Seq(S) /\ Len(SubSeq(w, n + 1, N)) = N - n
      /\ \A i \in 1 .. N - n : SubSeq(w, n + 1, N)[i] = w[n + i]
    <2> DEFINE m == n + 1
    <2>1. m \in 1 .. Len(w) + 1 /\ N \in 0 .. Len(w) /\ (N - m) + 1 = N - n
              /\ (m > N => N - n = 0)
              /\ \A i \in 1 .. N - n : (m + i) - 1 = n + i
        BY <1>2
    <2> HIDE DEF m
    <2>2. /\ SubSeq(w, m, N) \in Seq(S)
          /\ Len(SubSeq(w, m, N)) = IF m <= N THEN (N - m) + 1 ELSE 0
          /\ \A i \in 1 .. (N - m) + 1 : SubSeq(w, m, N)[i] = w[(m + i) - 1]
        BY <1>1, <2>1, SubSeqProperties
    <2>3. m \in Int
        BY <1>2 DEF m
    <2>4. SubSeq(w, m, N) \in Seq(S) /\ Len(SubSeq(w, m, N)) = N - n
        BY <1>2, <2>1, <2>2, <2>3
    <2>5. \A i \in 1 .. N - n : SubSeq(w, m, N)[i] = w[n + i]
        BY <2>1, <2>2
    <2> QED
        BY <2>4, <2>5 DEF m
<1>5. TextFrom(SubSeq(w, 1, n), b)
    <2>1. \A i \in 1 .. n : i \in 1 .. N
        BY <1>2
    <2> QED
        BY <1>1, <1>3, <2>1 DEF TextFrom, S
<1>6. \A i \in 1 .. N - n : SubSeq(w, n + 1, N)[i] = Piece((b + n) + i)
    <2>1. \A i \in 1 .. N - n : n + i \in 1 .. N /\ b + (n + i) = (b + n) + i
        BY <1>2
    <2> QED
        BY <1>1, <1>4, <2>1
<1>7. TextFrom(SubSeq(w, n + 1, N), b + n)
    BY <1>4, <1>6 DEF TextFrom, S
<1> QED
    BY <1>3, <1>4, <1>5, <1>7 DEF N

LEMMA EmptyText == ASSUME NEW b PROVE TextFrom(<< >>, b)
<1>1. << >> \in Seq({Piece(k) : k \in Nat}) /\ Len(<< >>) = 0
    BY EmptySeq
<1> QED
    BY <1>1 DEF TextFrom

LEMMA OnePiece ==
    ASSUME NEW b \in Nat
    PROVE  TextFrom(<<Piece(b + 1)>>, b) /\ Len(<<Piece(b + 1)>>) = 1
<1>1. Piece(b + 1) \in {Piece(k) : k \in Nat}
    <2>1. b + 1 \in Nat
        OBVIOUS
    <2> QED
        BY <2>1, Zenon
<1> DEFINE S == {Piece(k) : k \in Nat}
           x == Piece(b + 1)
<1> HIDE DEF S, x
<1>2. <<x>> \in Seq(S) /\ Len(<<x>>) = 1 /\ <<x>>[1] = x
    BY <1>1 DEF S, x
<1>3. \A i \in 1 .. Len(<<x>>) : <<x>>[i] = Piece(b + i)
    BY <1>2 DEF x
<1> QED
    BY <1>2, <1>3 DEF TextFrom, S, x

(* A line written is the next two pieces. *)
LEMMA LinePieces ==
    ASSUME NEW n \in Nat
    PROVE  TextFrom(<<[line |-> n + 1, part |-> "head"], [line |-> n + 1, part |-> "tail"]>>, 2 * n)
<1> DEFINE S == {Piece(k) : k \in Nat}
           x == [line |-> n + 1, part |-> "head"]
           y == [line |-> n + 1, part |-> "tail"]
<1>1. x = Piece(2 * n + 1) /\ y = Piece(2 * n + 2)
    BY DEF Piece
<1>2. 2 * n + 1 \in Nat /\ 2 * n + 2 \in Nat
    OBVIOUS
<1>3. x \in S /\ y \in S
    <2> HIDE DEF x, y
    <2> QED
        BY <1>1, <1>2, Zenon
<1> HIDE DEF x, y, S
<1>4. <<x, y>> \in Seq(S) /\ Len(<<x, y>>) = 2 /\ <<x, y>>[1] = x /\ <<x, y>>[2] = y
    BY <1>3
<1>5. \A i \in 1 .. Len(<<x, y>>) : <<x, y>>[i] = Piece(2 * n + i)
    <2>1. \A i \in 1 .. Len(<<x, y>>) : i = 1 \/ i = 2
        BY <1>4
    <2> QED
        BY <1>1, <1>4, <2>1
<1> QED
    BY <1>4, <1>5 DEF TextFrom, S, x, y

(* A read of n pieces after b of the stream, of which the last is in the buffer *)
(* when it is half a line.                                                     *)
LEMMA ReadArithmetic ==
    ASSUME NEW b \in Nat, NEW n \in Nat, NEW L, L = (b % 2) + n
    PROVE  /\ b \div 2 \in Nat /\ b % 2 \in 0 .. 1 /\ b = 2 * (b \div 2) + (b % 2)
           /\ 2 * (b \div 2) + L = b + n
           /\ L % 2 = (b + n) % 2
           /\ (b \div 2) + (L \div 2) = (b + n) \div 2
           /\ L \in Nat /\ L \div 2 \in Nat
<1>1. b \div 2 \in Nat /\ b % 2 \in 0 .. 1 /\ b = 2 * (b \div 2) + (b % 2)
    BY Halves
<1> DEFINE q == b \div 2
<1>2. 2 * q + L = b + n /\ L \in Nat
    BY <1>1
<1> HIDE DEF q
<1>3. q \in Nat
    BY <1>1 DEF q
<1>4. L = 2 * (L \div 2) + (L % 2) /\ L % 2 \in 0 .. 1 /\ L \div 2 \in Nat
    BY <1>2, Halves
<1> DEFINE h == L \div 2
           o == L % 2
<1> HIDE DEF h, o
<1>5. h \in Nat /\ o \in 0 .. 1 /\ L = 2 * h + o
    BY <1>4 DEF h, o
<1>6. b + n = 2 * (q + h) + o
    BY <1>2, <1>3, <1>5
<1>7. (b + n) % 2 = o /\ (b + n) \div 2 = q + h
    BY <1>3, <1>5, <1>6
<1> QED
    BY <1>1, <1>2, <1>4, <1>7 DEF q, h, o

Taken(b) == IF b % 2 = 1 THEN <<Piece(b)>> ELSE << >>

LEMMA ReadIs ==
    ASSUME NEW b \in Nat, NEW w, TextFrom(w, b), NEW n \in 1 .. Len(w), NEW shownLog,
           NEW r \in Nat,
           LogOf(shownLog, r, b \div 2),
           NEW text, text = Taken(b) \o SubSeq(w, 1, n)
    PROVE  /\ LogOf(Logged(shownLog, r, Lines(text)), r, (b + n) \div 2)
           /\ Leftover(text) = Taken(b + n)
<1> DEFINE e == b \div 2
<1>1. n \in Nat
    OBVIOUS
<1>2. e \in Nat /\ b % 2 \in 0 .. 1 /\ b = 2 * e + (b % 2)
    BY Halves
<1>3. TextFrom(Taken(b), 2 * e) /\ Len(Taken(b)) = b % 2
    <2>1. CASE b % 2 = 1
        <3>1. b = (2 * e) + 1 /\ 2 * e \in Nat
            BY <1>2, <2>1
        <3> HIDE DEF e
        <3> QED
            BY <2>1, <3>1, OnePiece DEF Taken
    <2>2. CASE b % 2 # 1
        <3>1. Taken(b) = << >> /\ b % 2 = 0
            BY <1>2, <2>2 DEF Taken
        <3> QED
            BY <3>1, EmptyText
    <2> QED
        BY <2>1, <2>2
<1>4. TextFrom(SubSeq(w, 1, n), b) /\ Len(SubSeq(w, 1, n)) = n
    BY TextCut
<1>5. TextFrom(text, 2 * e) /\ Len(text) = (b % 2) + n
    <2>1. 2 * e \in Nat /\ (2 * e) + Len(Taken(b)) = b
        BY <1>2, <1>3
    <2> HIDE DEF e
    <2>2. TextFrom(SubSeq(w, 1, n), (2 * e) + Len(Taken(b)))
        BY <1>4, <2>1
    <2> QED
        BY <1>3, <1>4, <2>1, <2>2, TextJoins
<1>6. /\ 2 * e + Len(text) = b + n /\ Len(text) % 2 = (b + n) % 2
      /\ e + (Len(text) \div 2) = (b + n) \div 2 /\ Len(text) \div 2 \in Nat
    <2> DEFINE L == Len(text)
    <2>1. L = (b % 2) + n
        BY <1>5
    <2> HIDE DEF L
    <2>2. /\ 2 * (b \div 2) + L = b + n /\ L % 2 = (b + n) % 2
          /\ (b \div 2) + (L \div 2) = (b + n) \div 2 /\ L \div 2 \in Nat
        BY <1>1, <2>1, ReadArithmetic
    <2> QED
        BY <2>2 DEF L
<1>7. Leftover(text) = Taken(b + n)
    <2> HIDE DEF e
    <2>1. Leftover(text) =
              IF Len(text) % 2 = 1 THEN <<Piece(2 * e + Len(text))>> ELSE << >>
        BY <1>2, <1>5, TextLeft
    <2> QED
        BY <1>6, <2>1 DEF Taken
<1>8. LogOf(Logged(shownLog, r, Lines(text)), r, e + (Len(text) \div 2))
    <2>1. LogOf(shownLog, r, e)
        OBVIOUS
    <2> DEFINE q == Len(text) \div 2
    <2> HIDE DEF e
    <2>2. Lines(text) = [k \in 1 .. q |-> e + k]
        BY <1>2, <1>5, TextLines
    <2>3. q \in Nat
        BY <1>6
    <2> HIDE DEF q
    <2>4. LogOf(Logged(shownLog, r, Lines(text)), r, e + q)
        BY <1>2, <2>1, <2>2, <2>3, LinesLogged
    <2> QED
        BY <2>4 DEF q
<1> QED
    BY <1>6, <1>7, <1>8
-----------------------------------------------------------------------------
(* The state *)
After(t) == 2 * said[myRun[t]] - Len(wire[myRun[t]])

ReadsOn(t) ==
    /\ After(t) \in Nat /\ TextFrom(wire[myRun[t]], After(t))
    /\ buffer[t] = Taken(After(t))
    /\ LogOf(simLog[t], myRun[t], After(t) \div 2)
StillWaits(t) ==
    /\ wire[myRun[t]] = << >> /\ said[myRun[t]] = 0
    /\ buffer[t] = << >> /\ LogOf(simLog[t], myRun[t], 0)
Rests(t) == buffer[t] = << >> /\ \E n \in Int : LogOf(simLog[t], myRun[t], n)

StreamTypes ==
    /\ simLog = [t \in Tabs |-> simLog[t]] /\ buffer = [t \in Tabs |-> buffer[t]]
    /\ said \in [Runs -> Nat] /\ wire = [r \in Runs |-> wire[r]]
    /\ \A r \in Runs : r > runs => wire[r] = << >> /\ said[r] = 0
TabInv(t) ==
    CASE call[t] = "streaming" -> ReadsOn(t)
      [] call[t] = "posting"   -> StillWaits(t)
      [] OTHER                 -> Rests(t)
StreamInv == StreamTypes /\ \A t \in Tabs : TabInv(t)

LEMMA StreamAgrees == CallInv /\ StreamInv => LogIsTheStream
<1> SUFFICES ASSUME CallInv, StreamInv, NEW t \in Tabs
             PROVE  /\ \A i \in DOMAIN simLog[t] : simLog[t][i].run = myRun[t]
                    /\ \A i \in 2 .. Len(simLog[t]) : simLog[t][i].line \in {simLog[t][i - 1].line + 1, -1}
                    /\ call[t] = "streaming" /\ wire[myRun[t]] = << >>
                           /\ simLog[t] # << >>
                          => Last(simLog[t]).line = said[myRun[t]]
    BY Zenon DEF LogIsTheStream
<1>1. PICK n : LogOf(simLog[t], myRun[t], n)
          /\ (call[t] = "streaming" => n = After(t) \div 2)
    <2>1. TabInv(t)
        BY DEF StreamInv
    <2>2. CASE call[t] = "streaming"
        BY <2>1, <2>2, Zenon DEF TabInv, ReadsOn
    <2>3. CASE call[t] = "posting"
        <3>1. call[t] # "streaming"
            BY <2>3
        <3> QED
            BY <2>1, <2>3, <3>1, Zenon DEF TabInv, StillWaits
    <2>4. CASE call[t] # "streaming" /\ call[t] # "posting"
        BY <2>1, <2>4, Zenon DEF TabInv, Rests
    <2> QED
        BY <2>2, <2>3, <2>4
<1>2. DOMAIN simLog[t] = 1 .. Len(simLog[t]) /\ Len(simLog[t]) \in Nat
          /\ (simLog[t] # << >> => Len(simLog[t]) > 0)
    BY <1>1 DEF LogOf
<1>3. \A i \in DOMAIN simLog[t] : simLog[t][i].run = myRun[t]
    BY <1>1, <1>2 DEF LogOf
<1>4. \A i \in 2 .. Len(simLog[t]) : simLog[t][i].line \in {simLog[t][i - 1].line + 1, -1}
    BY <1>1 DEF LogOf
<1>5. ASSUME call[t] = "streaming", wire[myRun[t]] = << >>, simLog[t] # << >>
      PROVE  Last(simLog[t]).line = said[myRun[t]]
    <2>1. said[myRun[t]] \in Nat
        <3>1. myRun[t] \in Runs
            BY <1>5, SimBounds DEF CallInv, Runs
        <3> QED
            BY <3>1 DEF StreamInv, StreamTypes
    <2>2. After(t) = 2 * said[myRun[t]]
        BY <1>5, <2>1 DEF After
    <2>3. n = said[myRun[t]]
        BY <1>1, <1>5, <2>1, <2>2
    <2>4. simLog[t][Len(simLog[t])].line = n
        BY <1>1, <1>2, <1>5 DEF LogOf
    <2> QED
        BY <2>3, <2>4 DEF Last
<1> QED
    BY <1>3, <1>4, <1>5

LEMMA StreamInit == SimInit => StreamInv
<1> SUFFICES ASSUME SimInit PROVE StreamInv
    OBVIOUS
<1>1. StreamTypes
    BY DEF SimInit, StreamTypes
<1>2. ASSUME NEW t \in Tabs PROVE TabInv(t)
    <2>1. call[t] = "none" /\ buffer[t] = << >> /\ simLog[t] = << >>
        BY DEF SimInit
    <2>2. Rests(t)
        BY <2>1, EmptyLog DEF Rests
    <2>3. call[t] # "streaming" /\ call[t] # "posting"
        BY <2>1
    <2> QED
        BY <2>2, <2>3, Zenon DEF TabInv
<1> QED
    BY <1>1, <1>2, Zenon DEF StreamInv

(* A tab of which a step changes nothing. *)
LEMMA TabKept ==
    ASSUME NEW t \in Tabs, TabInv(t),
           call'[t] = call[t], myRun'[t] = myRun[t], buffer'[t] = buffer[t], simLog'[t] =
               simLog[t],
           call[t] # "none" => wire'[myRun[t]] = wire[myRun[t]]
               /\ said'[myRun[t]] = said[myRun[t]]
    PROVE  TabInv(t)'
<1>1. CASE call[t] = "streaming"
    <2>1. ReadsOn(t)
        BY <1>1, Zenon DEF TabInv
    <2>2. call[t] # "none"
        BY <1>1
    <2>3. ReadsOn(t)'
        BY <2>1, <2>2, Zenon DEF ReadsOn, After
    <2> QED
        BY <1>1, <2>3, Zenon DEF TabInv
<1>2. CASE call[t] = "posting"
    <2>1. call[t] # "streaming" /\ call[t] # "none"
        BY <1>2
    <2>2. StillWaits(t)
        BY <1>2, <2>1, Zenon DEF TabInv
    <2>3. StillWaits(t)'
        BY <2>1, <2>2, Zenon DEF StillWaits
    <2> QED
        BY <1>2, <2>1, <2>3, Zenon DEF TabInv
<1>3. CASE call[t] # "streaming" /\ call[t] # "posting"
    <2>1. Rests(t)
        BY <1>3, Zenon DEF TabInv
    <2>2. Rests(t)'
        BY <2>1, Zenon DEF Rests
    <2> QED
        BY <1>3, <2>2, Zenon DEF TabInv
<1> QED
    BY <1>1, <1>2, <1>3

(* The others' launches are others. *)
LEMMA OthersRun ==
    ASSUME CallInv, NEW t \in Tabs, NEW u \in Tabs, u # t, call[t] # "none"
    PROVE  myRun[t] \in Runs /\ myRun[u] # myRun[t]
<1>1. myRun[t] # 0 /\ myRun[t] \in Nat /\ myRun[t] <= runs /\ runs \in Nat
          /\ runs <= MaxRuns
    BY DEF CallInv
<1>2. myRun[t] \in Runs
    BY <1>1, SimBounds DEF Runs
<1>3. myRun[u] = myRun[t] => myRun[t] = 0
    BY DEF CallInv
<1> QED
    BY <1>1, <1>2, <1>3

LEMMA CallsRun ==
    ASSUME CallInv, NEW t \in Tabs, call[t] # "none"
    PROVE  myRun[t] \in Runs /\ myRun[t] \in Nat
<1>1. myRun[t] # 0 /\ myRun[t] \in Nat /\ myRun[t] <= runs /\ runs \in Nat
          /\ runs <= MaxRuns
    BY DEF CallInv
<1> QED
    BY <1>1, SimBounds DEF Runs

LEMMA ReadStream == ASSUME CallInv, StreamInv, NEW t \in Tabs, Read(t) PROVE StreamInv'
<1> DEFINE r == myRun[t]
           b == After(t)
<1>1. /\ call[t] = "streaming"
      /\ UNCHANGED <<simRunning, simRunningType, call, myRun, running, plan, said, runs>>
    BY Zenon DEF Read
<1>2. PICK n \in 1 .. Len(wire[r]) :
          /\ simLog' =
                 [simLog EXCEPT ![t] = Logged(@, r, Lines(buffer[t] \o SubSeq(wire[r], 1, n)))]
          /\ buffer' = [buffer EXCEPT ![t] = Leftover(buffer[t] \o SubSeq(wire[r], 1, n))]
          /\ wire' = [wire EXCEPT ![r] = SubSeq(@, n + 1, Len(@))]
    BY Zenon DEF Read
<1>3. ReadsOn(t) /\ StreamTypes
    BY <1>1, Zenon DEF StreamInv, TabInv
<1>4. r \in Runs /\ r \in Nat
    BY <1>1, CallsRun
<1>5. b \in Nat /\ TextFrom(wire[r], b) /\ LogOf(simLog[t], r, b \div 2)
          /\ buffer[t] = Taken(b)
    BY <1>3, Zenon DEF ReadsOn
<1> DEFINE text == buffer[t] \o SubSeq(wire[r], 1, n)
<1>6. /\ simLog' = [simLog EXCEPT ![t] = Logged(simLog[t], r, Lines(text))]
      /\ buffer' = [buffer EXCEPT ![t] = Leftover(text)]
      /\ wire' = [wire EXCEPT ![r] = SubSeq(wire[r], n + 1, Len(wire[r]))]
    BY <1>2
<1>7. text = Taken(b) \o SubSeq(wire[r], 1, n)
    BY <1>5
<1> HIDE DEF text, b
<1>8. LogOf(Logged(simLog[t], r, Lines(text)), r, (b + n) \div 2)
          /\ Leftover(text) = Taken(b + n)
    BY <1>2, <1>4, <1>5, <1>7, ReadIs
<1>9. /\ TextFrom(SubSeq(wire[r], n + 1, Len(wire[r])), b + n)
      /\ Len(SubSeq(wire[r], n + 1, Len(wire[r]))) = Len(wire[r]) - n
    BY <1>2, <1>5, TextCut
<1>10. simLog'[t] = Logged(simLog[t], r, Lines(text)) /\ buffer'[t] = Leftover(text)
           /\ wire'[r] = SubSeq(wire[r], n + 1, Len(wire[r]))
    <2>1. simLog = [u \in Tabs |-> simLog[u]] /\ buffer = [u \in Tabs |-> buffer[u]]
              /\ wire = [q \in Runs |-> wire[q]]
        BY <1>3 DEF StreamTypes
    <2> QED
        BY <1>4, <1>6, <2>1
<1>11. myRun'[t] = r /\ said' = said /\ call' = call /\ myRun' = myRun /\ runs' = runs
    BY <1>1
<1>12. After(t)' = b + n
    <2>1. said[r] \in Nat /\ b = 2 * said[r] - Len(wire[r])
        BY <1>3, <1>4 DEF StreamTypes, After, b
    <2>2. After(t)' = 2 * said[r] - Len(wire'[r])
        BY <1>11 DEF After
    <2>3. Len(wire[r]) \in Nat
        BY <1>5 DEF TextFrom
    <2> QED
        BY <1>9, <1>10, <2>1, <2>2, <2>3
<1>13. ReadsOn(t)'
    <2>1. b + n \in Nat
        BY <1>5
    <2>2. /\ After(t)' \in Nat /\ TextFrom(wire'[myRun'[t]], After(t)')
          /\ buffer'[t] = Taken(After(t)')
          /\ LogOf(simLog'[t], myRun'[t], After(t)' \div 2)
        BY <1>8, <1>9, <1>10, <1>11, <1>12, <2>1
    <2> QED
        BY <2>2, Zenon DEF ReadsOn
<1>14. TabInv(t)'
    <2>1. call'[t] = "streaming"
        BY <1>1
    <2> QED
        BY <1>13, <2>1, Zenon DEF TabInv
<1>15. ASSUME NEW u \in Tabs, u # t PROVE TabInv(u)'
    <2>1. myRun[u] # r
        BY <1>1, <1>15, OthersRun
    <2>2. simLog'[u] = simLog[u] /\ buffer'[u] = buffer[u] /\ call'[u] = call[u]
              /\ myRun'[u] = myRun[u]
        BY <1>3, <1>6, <1>11, <1>15 DEF StreamTypes
    <2>3. call[u] # "none" => wire'[myRun[u]] = wire[myRun[u]]
              /\ said'[myRun[u]] = said[myRun[u]]
        <3>1. call[u] # "none" => myRun[u] \in Runs
            BY CallsRun
        <3>2. wire = [q \in Runs |-> wire[q]]
            BY <1>3 DEF StreamTypes
        <3> QED
            BY <1>6, <1>11, <2>1, <3>1, <3>2
    <2>4. TabInv(u)
        BY DEF StreamInv
    <2> QED
        BY <2>2, <2>3, <2>4, TabKept
<1>16. StreamTypes'
    <2>1. /\ simLog' = [u \in Tabs |-> simLog'[u]]
              /\ buffer' = [u \in Tabs |-> buffer'[u]]
          /\ wire' = [q \in Runs |-> wire'[q]]
        BY <1>3, <1>6 DEF StreamTypes
    <2>2. r <= runs /\ runs \in Nat
        BY DEF CallInv
    <2>3. \A q \in Runs : q > runs' => wire'[q] = << >> /\ said'[q] = 0
        <3>1. \A q \in Runs : q > runs => q # r
            BY <1>4, <2>2
        <3> QED
            BY <1>3, <1>6, <1>11, <3>1 DEF StreamTypes
    <2> QED
        BY <1>3, <1>11, <2>1, <2>3 DEF StreamTypes
<1> QED
    BY <1>14, <1>15, <1>16, Zenon DEF StreamInv

(* A line is written for the tab that reads. *)
LEMMA WriteStream ==
    ASSUME CallInv, StreamInv, NEW r \in Runs, Reader(r) # {}, Write(r),
           UNCHANGED <<panelVars, runs>>
    PROVE  StreamInv'
<1>1. PICK t \in Tabs : call[t] = "streaming" /\ myRun[t] = r
    BY Zenon DEF Reader
<1> DEFINE b == After(t)
           n == said[r]
           line == <<[line |-> n + 1, part |-> "head"], [line |-> n + 1, part |-> "tail"]>>
<1>2. ReadsOn(t) /\ StreamTypes
    BY <1>1, Zenon DEF StreamInv, TabInv
<1>3. b \in Nat /\ TextFrom(wire[r], b) /\ LogOf(simLog[t], r, b \div 2)
          /\ buffer[t] = Taken(b)
    BY <1>1, <1>2, Zenon DEF ReadsOn
<1>4. n \in Nat /\ wire = [q \in Runs |-> wire[q]] /\ said \in [Runs -> Nat]
    BY <1>2 DEF StreamTypes
<1>5. said' = [said EXCEPT ![r] = n + 1] /\ said'[r] = n + 1
    BY <1>4 DEF Write
<1>6. wire' = [wire EXCEPT ![r] = wire[r] \o line] /\ wire'[r] = wire[r] \o line
    BY <1>4, <1>5 DEF Write
<1>7. /\ call' = call /\ myRun' = myRun /\ runs' = runs /\ simLog' = simLog
          /\ buffer' = buffer
    BY DEF panelVars
<1>8. Len(wire[r]) \in Nat /\ b + Len(wire[r]) = 2 * n
    <2>1. Len(wire[r]) \in Nat
        BY <1>3 DEF TextFrom
    <2>2. b = 2 * n - Len(wire[r])
        BY <1>1 DEF After
    <2> QED
        BY <1>4, <2>1, <2>2
<1>9. Len(line) = 2
    OBVIOUS
<1>10. TextFrom(line, b + Len(wire[r]))
    <2>1. TextFrom(line, 2 * n)
        BY <1>4, LinePieces
    <2> QED
        BY <1>8, <2>1
<1> HIDE DEF b, line
<1>11. TextFrom(wire[r] \o line, b) /\ Len(wire[r] \o line) = Len(wire[r]) + 2
    <2>1. TextFrom(wire[r] \o line, b) /\ Len(wire[r] \o line) = Len(wire[r]) + Len(line)
        BY <1>3, <1>10, TextJoins
    <2> QED
        BY <1>9, <2>1
<1>12. After(t)' = b
    <2>1. After(t)' = 2 * (n + 1) - Len(wire[r] \o line)
        BY <1>1, <1>5, <1>6, <1>7 DEF After
    <2> QED
        BY <1>3, <1>4, <1>8, <1>11, <2>1
<1>13. TabInv(t)'
    <2>1. /\ After(t)' \in Nat /\ TextFrom(wire'[myRun'[t]], After(t)')
          /\ buffer'[t] = Taken(After(t)')
          /\ LogOf(simLog'[t], myRun'[t], After(t)' \div 2)
        BY <1>1, <1>3, <1>6, <1>7, <1>11, <1>12
    <2>2. ReadsOn(t)'
        BY <2>1, Zenon DEF ReadsOn
    <2>3. call'[t] = "streaming"
        BY <1>1, <1>7
    <2> QED
        BY <2>2, <2>3, Zenon DEF TabInv
<1>14. ASSUME NEW u \in Tabs, u # t PROVE TabInv(u)'
    <2>1. call[t] # "none"
        BY <1>1
    <2>2. myRun[u] # r
        BY <1>1, <1>14, <2>1, OthersRun
    <2>3. call[u] # "none" => wire'[myRun[u]] = wire[myRun[u]]
              /\ said'[myRun[u]] = said[myRun[u]]
        <3>1. call[u] # "none" => myRun[u] \in Runs
            BY CallsRun
        <3> QED
            BY <1>4, <1>5, <1>6, <2>2, <3>1
    <2>4. TabInv(u)
        BY DEF StreamInv
    <2>5. simLog'[u] = simLog[u] /\ buffer'[u] = buffer[u] /\ call'[u] = call[u]
              /\ myRun'[u] = myRun[u]
        BY <1>7
    <2> QED
        BY <2>3, <2>4, <2>5, TabKept
<1>15. StreamTypes'
    <2>1. said' \in [Runs -> Nat] /\ wire' = [q \in Runs |-> wire'[q]]
        <3>1. said' \in [Runs -> Nat]
            BY <1>4, <1>5
        <3> DEFINE w == wire[r] \o line
        <3>2. wire' = [wire EXCEPT ![r] = w]
            BY <1>6
        <3> HIDE DEF w
        <3>3. wire' = [q \in Runs |-> wire'[q]]
            BY <1>4, <3>2
        <3> QED
            BY <3>1, <3>3
    <2>2. r <= runs /\ runs \in Nat /\ r \in Nat
        BY <1>1 DEF CallInv, Runs
    <2>3. \A q \in Runs : q > runs' => wire'[q] = << >> /\ said'[q] = 0
        <3>1. \A q \in Runs : q > runs => q # r
            BY <2>2
        <3> QED
            BY <1>2, <1>4, <1>5, <1>6, <1>7, <3>1 DEF StreamTypes
    <2> QED
        BY <1>2, <1>7, <2>1, <2>3 DEF StreamTypes
<1> QED
    BY <1>13, <1>14, <1>15, Zenon DEF StreamInv

(* The end of a call. *)
LEMMA EndStream ==
    ASSUME CallInv, StreamInv, NEW t \in Tabs, call[t] # "none", RunEnds(t),
           UNCHANGED said,
           \E n \in Int : LogOf(simLog'[t], myRun[t], n),
           simLog' = [u \in Tabs |-> simLog'[u]], \A u \in Tabs : u # t =>
               simLog'[u] = simLog[u],
           \/ wire' = wire \/ wire' = [wire EXCEPT ![myRun[t]] = << >>]
    PROVE  StreamInv'
<1>1. /\ call' = [call EXCEPT ![t] = "none"] /\ buffer' = [buffer EXCEPT ![t] = << >>]
      /\ myRun' = myRun /\ runs' = runs
    BY Zenon DEF RunEnds
<1>2. StreamTypes
    BY DEF StreamInv
<1>3. call' \in [Tabs -> {"none", "posting", "streaming"}] /\ call'[t] = "none"
          /\ \A u \in Tabs : u # t => call'[u] = call[u]
    BY <1>1 DEF CallInv
<1>4. buffer' = [u \in Tabs |-> buffer'[u]] /\ buffer'[t] = << >>
          /\ \A u \in Tabs : u # t => buffer'[u] = buffer[u]
    BY <1>1, <1>2 DEF StreamTypes
<1>5. wire' = [q \in Runs |-> wire'[q]]
          /\ \A q \in Runs : wire'[q] = wire[q] \/ (wire'[q] = << >> /\ q = myRun[t])
    BY <1>2 DEF StreamTypes
<1>6. TabInv(t)'
    <2>1. Rests(t)'
        BY <1>1, <1>4, Zenon DEF Rests
    <2>2. call'[t] # "streaming" /\ call'[t] # "posting"
        BY <1>3
    <2> QED
        BY <2>1, <2>2, Zenon DEF TabInv
<1>7. ASSUME NEW u \in Tabs, u # t PROVE TabInv(u)'
    <2>1. myRun[u] # myRun[t]
        BY <1>7, OthersRun
    <2>2. call[u] # "none" => wire'[myRun[u]] = wire[myRun[u]]
              /\ said'[myRun[u]] = said[myRun[u]]
        <3>1. call[u] # "none" => myRun[u] \in Runs
            BY CallsRun
        <3> QED
            BY <1>5, <2>1, <3>1
    <2>3. TabInv(u)
        BY DEF StreamInv
    <2>4. simLog'[u] = simLog[u] /\ buffer'[u] = buffer[u] /\ call'[u] = call[u]
              /\ myRun'[u] = myRun[u]
        BY <1>1, <1>3, <1>4, <1>7
    <2> QED
        BY <2>2, <2>3, <2>4, TabKept
<1>8. StreamTypes'
    BY <1>1, <1>2, <1>4, <1>5 DEF StreamTypes
<1> QED
    BY <1>6, <1>7, <1>8, Zenon DEF StreamInv

(* The log of a tab is of its launch. *)
LEMMA LogKnown ==
    ASSUME StreamInv, CallInv, NEW t \in Tabs
    PROVE  \E n \in Int : LogOf(simLog[t], myRun[t], n)
<1>1. TabInv(t)
    BY DEF StreamInv
<1>2. CASE call[t] = "streaming"
    <2>1. After(t) \in Nat /\ LogOf(simLog[t], myRun[t], After(t) \div 2)
        BY <1>1, <1>2, Zenon DEF TabInv, ReadsOn
    <2>2. After(t) \div 2 \in Int
        BY <2>1
    <2> QED
        BY <2>1, <2>2, Zenon
<1>3. CASE call[t] = "posting"
    <2>1. call[t] # "streaming" /\ 0 \in Int
        BY <1>3
    <2>2. LogOf(simLog[t], myRun[t], 0)
        BY <1>1, <1>3, <2>1, Zenon DEF TabInv, StillWaits
    <2> QED
        BY <2>1, <2>2, Zenon
<1>4. CASE call[t] # "streaming" /\ call[t] # "posting"
    BY <1>1, <1>4, Zenon DEF TabInv, Rests
<1> QED
    BY <1>2, <1>3, <1>4

LEMMA ErrorLogged ==
    ASSUME CallInv, StreamInv, NEW t \in Tabs, call[t] # "none",
           simLog' = [simLog EXCEPT ![t] = appendLog(@, Entry(myRun[t], -1, "error"))]
    PROVE  /\ \E n \in Int : LogOf(simLog'[t], myRun[t], n)
           /\ simLog' = [u \in Tabs |-> simLog'[u]]
           /\ \A u \in Tabs : u # t => simLog'[u] = simLog[u]
<1>1. PICK n \in Int : LogOf(simLog[t], myRun[t], n)
    BY LogKnown
<1>2. myRun[t] \in Nat /\ -1 \in Int
    BY CallsRun
<1> DEFINE e == Entry(myRun[t], -1, "error")
<1>3. e \in Entries /\ e.run = myRun[t] /\ e.line = -1
    BY <1>2, EntryFields
<1> HIDE DEF e
<1>4. LogOf(appendLog(simLog[t], e), myRun[t], -1)
    BY <1>1, <1>2, <1>3, LogGrows
<1> DEFINE l == appendLog(simLog[t], e)
<1>5. simLog' = [simLog EXCEPT ![t] = l] /\ simLog = [u \in Tabs |-> simLog[u]]
    BY DEF StreamInv, StreamTypes, e
<1>6. LogOf(l, myRun[t], -1)
    BY <1>4
<1> HIDE DEF l
<1>7. simLog'[t] = l /\ simLog' = [u \in Tabs |-> simLog'[u]]
          /\ \A u \in Tabs : u # t => simLog'[u] = simLog[u]
    BY <1>5
<1> QED
    BY <1>2, <1>6, <1>7

BusyInv ==
    /\ simRunning = [t \in Tabs |-> simRunning[t]]
    /\ \A t \in Tabs : call[t] # "none" => simRunning[t] = TRUE

LEMMA BusyStep == ASSUME CallInv, BusyInv, [SimNext]_simVars PROVE BusyInv'
<1>1. ASSUME UNCHANGED <<simRunning, call>> PROVE BusyInv'
    BY <1>1 DEF BusyInv
<1>2. ASSUME NEW t \in Tabs, NEW a \in Attacks, Launch(t, a) PROVE BusyInv'
    <2>1. simRunning' = [simRunning EXCEPT ![t] = TRUE]
              /\ call' = [call EXCEPT ![t] = "posting"]
        BY <1>2, Zenon DEF Launch
    <2> QED
        BY <2>1 DEF BusyInv, CallInv
<1>3. ASSUME NEW t \in Tabs, RunEnds(t) PROVE BusyInv'
    <2>1. simRunning' = [simRunning EXCEPT ![t] = FALSE]
              /\ call' = [call EXCEPT ![t] = "none"]
        BY <1>3, Zenon DEF RunEnds
    <2> QED
        BY <2>1 DEF BusyInv, CallInv
<1>4. ASSUME NEW t \in Tabs, Admit(t) PROVE BusyInv'
    <2>1. simRunning' = simRunning /\ call' = [call EXCEPT ![t] = "streaming"]
              /\ call[t] = "posting"
        BY <1>4, Zenon DEF Admit
    <2> QED
        BY <2>1 DEF BusyInv, CallInv
<1>5. ASSUME NEW t \in Tabs, CallStep(t) PROVE BusyInv'
    <2>1. CASE Read(t)
        BY <1>1, <2>1 DEF Read
    <2> QED
        BY <1>3, <1>4, <1>5, <2>1 DEF CallStep, Refuse409, ReadDone, ConnectionFails
<1>6. ASSUME NEW r \in Runs, GeneratorStep(r) PROVE BusyInv'
    <2>1. UNCHANGED panelVars
        BY <1>6
        DEF GeneratorStep, SayLine, MarkRunning, ScriptPrints, ScriptExits, Unmark,
            GeneratorClosed
    <2> QED
        BY <1>1, <2>1 DEF panelVars
<1>7. CASE UNCHANGED simVars
    BY <1>1, <1>7 DEF simVars, panelVars
<1>8. ASSUME NEW t \in Tabs, clearLog(t) PROVE BusyInv'
    BY <1>1, <1>8 DEF clearLog
<1> QED
    BY <1>2, <1>5, <1>6, <1>7, <1>8 DEF SimNext

LEMMA LaunchStream ==
    ASSUME CallInv, BusyInv, StreamInv, NEW t \in Tabs, NEW a \in Attacks, Launch(t, a)
    PROVE  StreamInv'
<1>1. /\ runs' = runs + 1 /\ runs < MaxRuns
      /\ myRun' = [myRun EXCEPT ![t] = runs'] /\ call' = [call EXCEPT ![t] = "posting"]
      /\ simLog' = [simLog EXCEPT ![t] = appendLog(<< >>, Entry(runs', 0, "start"))]
      /\ UNCHANGED <<buffer, running, plan, said, wire>> /\ ~simRunning[t]
    BY Zenon DEF Launch
<1>2. StreamTypes
    BY DEF StreamInv
<1> DEFINE l == appendLog(<< >>, Entry(runs', 0, "start"))
<1>3. runs \in Nat /\ runs' \in Nat /\ runs' \in Runs /\ runs' > runs
    BY <1>1, SimBounds DEF CallInv, Runs
<1>4. LogOf(l, runs', 0)
    <2> DEFINE e == Entry(runs', 0, "start")
    <2>1. e \in Entries /\ e.run = runs' /\ e.line = 0
        BY <1>3, EntryFields
    <2>2. LogOf(<< >>, runs', -1) /\ -1 \in Int /\ 0 \in {-1 + 1, -1}
        BY EmptyLog
    <2> HIDE DEF e
    <2>3. LogOf(appendLog(<< >>, e), runs', 0)
        BY <1>3, <2>1, <2>2, LogGrows
    <2> QED
        BY <2>3 DEF e
<1>5. call[t] = "none"
    <2>1. simRunning[t] # TRUE
        BY <1>1, Zenon
    <2> QED
        BY <2>1 DEF BusyInv
<1>6. buffer[t] = << >>
    <2>1. TabInv(t) /\ call[t] # "streaming" /\ call[t] # "posting"
        BY <1>5 DEF StreamInv
    <2> QED
        BY <2>1, Zenon DEF TabInv, Rests
<1> HIDE DEF l
<1>7. simLog' = [simLog EXCEPT ![t] = l] /\ simLog'[t] = l
          /\ simLog' = [u \in Tabs |-> simLog'[u]]
          /\ \A u \in Tabs : u # t => simLog'[u] = simLog[u]
    <2>1. simLog' = [simLog EXCEPT ![t] = l]
        BY <1>1 DEF l
    <2> QED
        BY <1>2, <2>1 DEF StreamTypes
<1>8. call'[t] = "posting" /\ myRun'[t] = runs'
          /\ \A u \in Tabs : u # t => call'[u] = call[u] /\ myRun'[u] = myRun[u]
    BY <1>1 DEF CallInv
<1>9. wire' = wire /\ said' = said /\ buffer' = buffer
    BY <1>1
<1>10. TabInv(t)'
    <2>1. wire'[myRun'[t]] = << >> /\ said'[myRun'[t]] = 0
        BY <1>2, <1>3, <1>8, <1>9 DEF StreamTypes
    <2>2. StillWaits(t)'
        BY <1>4, <1>6, <1>7, <1>8, <1>9, <2>1, Zenon DEF StillWaits
    <2>3. call'[t] # "streaming"
        BY <1>8
    <2> QED
        BY <1>8, <2>2, <2>3, Zenon DEF TabInv
<1>11. ASSUME NEW u \in Tabs, u # t PROVE TabInv(u)'
    <2>1. /\ simLog'[u] = simLog[u] /\ buffer'[u] = buffer[u] /\ call'[u] = call[u]
          /\ myRun'[u] = myRun[u]
        BY <1>7, <1>8, <1>9, <1>11
    <2>2. TabInv(u) /\ wire'[myRun[u]] = wire[myRun[u]]
              /\ said'[myRun[u]] = said[myRun[u]]
        BY <1>9 DEF StreamInv
    <2> QED
        BY <2>1, <2>2, TabKept
<1>12. StreamTypes'
    <2>1. \A q \in Runs : q > runs' => q > runs
        BY <1>3 DEF Runs
    <2> QED
        BY <1>2, <1>7, <1>9, <2>1 DEF StreamTypes
<1> QED
    BY <1>10, <1>11, <1>12, Zenon DEF StreamInv

LEMMA StreamStep == ASSUME CallInv, BusyInv, StreamInv, [SimNext]_simVars PROVE StreamInv'
<1>1. ASSUME UNCHANGED <<panelVars, said, wire, runs>> PROVE StreamInv'
    <2>1. StreamTypes'
        BY <1>1 DEF StreamInv, StreamTypes, panelVars
    <2>2. ASSUME NEW u \in Tabs PROVE TabInv(u)'
        <3>1. TabInv(u)
            BY DEF StreamInv
        <3>2. call' = call /\ myRun' = myRun /\ buffer' = buffer /\ simLog' = simLog
                  /\ wire' = wire /\ said' = said
            BY <1>1 DEF panelVars
        <3> QED
            BY <3>1, <3>2, TabKept
    <2> QED
        BY <2>1, <2>2, Zenon DEF StreamInv
<1>2. ASSUME NEW t \in Tabs, clearLog(t) PROVE StreamInv'
    <2>1. /\ simLog' = [simLog EXCEPT ![t] = << >>]
          /\ UNCHANGED <<call, myRun, buffer, said, wire, runs>>
        BY <1>2, Zenon DEF clearLog
    <2>2. StreamTypes
        BY DEF StreamInv
    <2>3. simLog' = [u \in Tabs |-> simLog'[u]] /\ simLog'[t] = << >>
              /\ \A u \in Tabs : u # t => simLog'[u] = simLog[u]
        BY <2>1, <2>2 DEF StreamTypes
    <2>4. StreamTypes'
        BY <2>1, <2>2, <2>3 DEF StreamTypes
    <2>5. ASSUME NEW u \in Tabs, u # t PROVE TabInv(u)'
        <3>1. TabInv(u)
            BY DEF StreamInv
        <3> QED
            BY <2>1, <2>3, <2>5, <3>1, TabKept
    <2>6. TabInv(t)'
        <3>1. \A r, n : LogOf(<< >>, r, n)
            BY EmptyLog
        <3>2. TabInv(t)
            BY DEF StreamInv
        <3>3. CASE call[t] = "streaming"
            <4>1. ReadsOn(t)'
                BY <2>1, <2>3, <3>1, <3>2, <3>3, Zenon DEF TabInv, ReadsOn, After
            <4> QED
                BY <2>1, <3>3, <4>1, Zenon DEF TabInv
        <3>4. CASE call[t] = "posting"
            <4>1. call[t] # "streaming"
                BY <3>4
            <4>2. StillWaits(t)'
                BY <2>1, <2>3, <3>1, <3>2, <3>4, <4>1, Zenon DEF TabInv, StillWaits
            <4> QED
                BY <2>1, <3>4, <4>1, <4>2, Zenon DEF TabInv
        <3>5. CASE call[t] # "streaming" /\ call[t] # "posting"
            <4>1. 0 \in Int
                OBVIOUS
            <4>2. Rests(t)'
                BY <2>1, <2>3, <3>1, <3>2, <3>5, <4>1, Zenon DEF TabInv, Rests
            <4> QED
                BY <2>1, <3>5, <4>2, Zenon DEF TabInv
        <3> QED
            BY <3>3, <3>4, <3>5
    <2> QED
        BY <2>4, <2>5, <2>6, Zenon DEF StreamInv
<1>3. ASSUME NEW t \in Tabs, Admit(t) PROVE StreamInv'
    <2>1. /\ call' = [call EXCEPT ![t] = "streaming"] /\ call[t] = "posting"
          /\ UNCHANGED <<simLog, myRun, buffer, said, wire, runs>>
        BY <1>3, Zenon DEF Admit
    <2>2. call[t] # "streaming" /\ TabInv(t)
        BY <2>1 DEF StreamInv
    <2>3. StillWaits(t)
        BY <2>1, <2>2, Zenon DEF TabInv
    <2>4. call'[t] = "streaming" /\ \A u \in Tabs : u # t => call'[u] = call[u]
        BY <2>1 DEF CallInv
    <2>5. wire[myRun[t]] = << >> /\ said[myRun[t]] = 0 /\ buffer[t] = << >>
              /\ LogOf(simLog[t], myRun[t], 0)
        BY <2>3, Zenon DEF StillWaits
    <2>6. After(t)' = 0
        <3>1. After(t)' = 2 * 0 - Len(<< >>)
            BY <2>1, <2>5 DEF After
        <3>2. Len(<< >>) = 0
            BY EmptySeq
        <3>3. \A l : l = 0 => 2 * 0 - l = 0
            OBVIOUS
        <3> QED
            BY <3>1, <3>2, <3>3, Zenon
    <2>7. 0 \in Nat /\ 0 \div 2 = 0 /\ Taken(0) = << >>
        BY DEF Taken
    <2>8. TextFrom(<< >>, 0)
        BY EmptyText
    <2>9. /\ After(t)' \in Nat /\ TextFrom(wire'[myRun'[t]], After(t)')
          /\ buffer'[t] = Taken(After(t)')
          /\ LogOf(simLog'[t], myRun'[t], After(t)' \div 2)
        BY <2>1, <2>5, <2>6, <2>7, <2>8
    <2>10. TabInv(t)'
        BY <2>4, <2>9, Zenon DEF TabInv, ReadsOn
    <2>11. ASSUME NEW u \in Tabs, u # t PROVE TabInv(u)'
        <3>1. TabInv(u)
            BY DEF StreamInv
        <3> QED
            BY <2>1, <2>4, <2>11, <3>1, TabKept
    <2>12. StreamTypes'
        BY <2>1 DEF StreamInv, StreamTypes
    <2> QED
        BY <2>10, <2>11, <2>12, Zenon DEF StreamInv
<1>4. ASSUME NEW t \in Tabs, ReadDone(t) PROVE StreamInv'
    <2>1. /\ call[t] # "none" /\ RunEnds(t) /\ UNCHANGED <<simLog, said, wire>>
        BY <1>4 DEF ReadDone
    <2>2. \E n \in Int : LogOf(simLog[t], myRun[t], n)
        BY LogKnown
    <2>3. simLog = [u \in Tabs |-> simLog[u]]
        BY DEF StreamInv, StreamTypes
    <2> QED
        BY <2>1, <2>2, <2>3, EndStream
<1>5. ASSUME NEW t \in Tabs, ConnectionFails(t) PROVE StreamInv'
    <2>1. /\ call[t] # "none" /\ RunEnds(t) /\ UNCHANGED said
          /\ simLog' = [simLog EXCEPT ![t] = appendLog(@, Entry(myRun[t], -1, "error"))]
          /\ wire' = [wire EXCEPT ![myRun[t]] = << >>]
        BY <1>5 DEF ConnectionFails
    <2> QED
        BY <2>1, ErrorLogged, EndStream
<1>6. ASSUME NEW t \in Tabs, Refuse409(t) PROVE StreamInv'
    <2>1. /\ call[t] # "none" /\ RunEnds(t) /\ UNCHANGED <<said, wire>>
          /\ simLog' = [simLog EXCEPT ![t] = appendLog(@, Entry(myRun[t], -1, "error"))]
        BY <1>6 DEF Refuse409
    <2> QED
        BY <2>1, ErrorLogged, EndStream
<1>7. ASSUME NEW r \in Runs, GeneratorStep(r) PROVE StreamInv'
    <2>1. ASSUME Outputs(r), Write(r), UNCHANGED <<panelVars, runs>> PROVE StreamInv'
        <3>1. Reader(r) # {}
            BY <2>1, Zenon DEF Outputs
        <3> QED
            BY <2>1, <3>1, WriteStream
    <2>2. CASE SayLine(r)
        BY <2>1, <2>2 DEF SayLine
    <2>3. CASE ScriptPrints(r)
        BY <2>1, <2>3 DEF ScriptPrints
    <2>4. CASE Unmark(r)
        BY <2>1, <2>4 DEF Unmark
    <2>5. CASE MarkRunning(r)
        BY <1>1, <2>5 DEF MarkRunning
    <2>6. CASE ScriptExits(r)
        BY <1>1, <2>6 DEF ScriptExits
    <2>7. CASE GeneratorClosed(r)
        BY <1>1, <2>7 DEF GeneratorClosed
    <2> QED
        BY <1>7, <2>2, <2>3, <2>4, <2>5, <2>6, <2>7 DEF GeneratorStep
<1>8. CASE UNCHANGED simVars
    BY <1>1, <1>8 DEF simVars
<1> QED
    BY <1>2, <1>3, <1>4, <1>5, <1>6, <1>7, <1>8, LaunchStream, ReadStream
        DEF SimNext, CallStep

LEMMA BusyInit == SimInit => BusyInv
<1> SUFFICES ASSUME SimInit PROVE BusyInv
    OBVIOUS
<1>1. simRunning = [t \in Tabs |-> FALSE] /\ call = [t \in Tabs |-> "none"]
    BY Zenon DEF SimInit
<1> QED
    BY <1>1 DEF BusyInv

(* App.jsx:529-609.  The log on screen is the output of its tab's last launch:   *)
(* all of one run, its lines without a gap from where it was cut, whatever the  *)
(* pieces the stream arrived in; a run whose stream was read to the end is      *)
(* shown to its last line.                                                     *)
THEOREM LogIsOfTheStream == SimSpec => []LogIsTheStream
<1>1. SimInit => CallInv /\ BusyInv /\ StreamInv
    BY SimInitInv, BusyInit, StreamInit DEF SimIInv
<1>2. CallInv /\ BusyInv /\ StreamInv
          /\ [SimNext]_simVars => (CallInv /\ BusyInv /\ StreamInv)'
    BY CallInvStep, BusyStep, StreamStep
<1> QED
    BY <1>1, <1>2, StreamAgrees, PTL DEF SimSpec

(* Types of the panel. *)
TypesShown == Attacks \cup {""}
PanelInv == simRunning \in [Tabs -> BOOLEAN] /\ simRunningType \in [Tabs -> TypesShown]

LEMMA PanelStep == ASSUME PanelInv, [SimNext]_simVars PROVE PanelInv'
<1>1. ASSUME UNCHANGED <<simRunning, simRunningType>> PROVE PanelInv'
    BY <1>1 DEF PanelInv
<1>2. ASSUME NEW t \in Tabs, NEW b \in BOOLEAN, NEW a \in TypesShown,
             simRunning' = [simRunning EXCEPT ![t] = b],
             simRunningType' = [simRunningType EXCEPT ![t] = a]
      PROVE  PanelInv'
    BY <1>2 DEF PanelInv
<1>3. ASSUME NEW t \in Tabs, NEW a \in Attacks, Launch(t, a) PROVE PanelInv'
    <2>1. /\ simRunning' = [simRunning EXCEPT ![t] = TRUE] /\ TRUE \in BOOLEAN
          /\ simRunningType' = [simRunningType EXCEPT ![t] = a] /\ a \in TypesShown
        BY <1>3, Zenon DEF Launch, TypesShown
    <2> QED
        BY <1>2, <2>1, Zenon
<1>4. ASSUME NEW t \in Tabs, RunEnds(t) PROVE PanelInv'
    <2>1. \E a \in TypesShown :
              /\ simRunning' = [simRunning EXCEPT ![t] = FALSE] /\ FALSE \in BOOLEAN
              /\ simRunningType' = [simRunningType EXCEPT ![t] = a]
        BY <1>4, Zenon DEF RunEnds, TypesShown
    <2> QED
        BY <1>2, <2>1, Zenon
<1>5. ASSUME NEW t \in Tabs, CallStep(t) PROVE PanelInv'
    <2>1. CASE Read(t)
        BY <1>1, <2>1 DEF Read
    <2>2. CASE Admit(t)
        BY <1>1, <2>2 DEF Admit
    <2> QED
        BY <1>4, <1>5, <2>1, <2>2 DEF CallStep, Refuse409, ReadDone, ConnectionFails
<1>6. ASSUME NEW r \in Runs, GeneratorStep(r) PROVE PanelInv'
    <2>1. UNCHANGED panelVars
        BY <1>6
        DEF GeneratorStep, SayLine, MarkRunning, ScriptPrints, ScriptExits, Unmark,
            GeneratorClosed
    <2> QED
        BY <1>1, <2>1 DEF panelVars
<1>7. CASE UNCHANGED simVars
    BY <1>1, <1>7 DEF simVars, panelVars
<1>8. ASSUME NEW t \in Tabs, clearLog(t) PROVE PanelInv'
    BY <1>1, <1>8 DEF clearLog
<1> QED
    BY <1>3, <1>5, <1>6, <1>7, <1>8 DEF SimNext

LEMMA TabTypes ==
    ASSUME CallInv, StreamInv, NEW t \in Tabs
    PROVE  Len(simLog[t]) <= LOG_MAX /\ Len(buffer[t]) <= 1
<1>1. TabInv(t) /\ call[t] \in {"none", "posting", "streaming"}
    BY DEF StreamInv, CallInv
<1>2. CASE call[t] = "streaming"
    <2>1. buffer[t] = Taken(After(t)) /\ Len(simLog[t]) <= LOG_MAX
        BY <1>1, <1>2 DEF TabInv, ReadsOn, LogOf
    <2>2. Len(Taken(After(t))) <= 1
        BY EmptySeq DEF Taken
    <2> QED
        BY <2>1, <2>2
<1>3. CASE call[t] # "streaming"
    <2>1. buffer[t] = << >> /\ Len(simLog[t]) <= LOG_MAX
        BY <1>1, <1>3 DEF TabInv, StillWaits, Rests, LogOf
    <2> QED
        BY <2>1, EmptySeq
<1> QED
    BY <1>2, <1>3

LEMMA SimTypesHold == SimInit /\ [][SimNext]_simVars => []SimTypeOK
<1> DEFINE Inv == SimIInv /\ BusyInv /\ StreamInv /\ PanelInv
<1>1. SimInit => PanelInv
    <2> SUFFICES ASSUME SimInit PROVE PanelInv
        OBVIOUS
    <2>1. \E a \in TypesShown : simRunning = [t \in Tabs |-> FALSE]
                                  /\ simRunningType = [t \in Tabs |-> a]
        BY Zenon DEF SimInit, TypesShown
    <2> QED
        BY <2>1 DEF PanelInv
<1>2. SimInit => Inv
    BY <1>1, SimInitInv, BusyInit, StreamInit
<1>3. Inv /\ [SimNext]_simVars => Inv'
    BY CallInvStep, PlanInvStep, MarkInvStep, BusyStep, StreamStep, PanelStep DEF SimIInv
<1>4. Inv => SimTypeOK
    <2> SUFFICES ASSUME Inv PROVE SimTypeOK
        OBVIOUS
    <2>1. simRunning \in [Tabs -> BOOLEAN] /\ simRunningType \in [Tabs -> Attacks \cup {""}]
        BY Zenon DEF PanelInv, TypesShown
    <2>2. /\ call \in [Tabs -> {"none", "posting", "streaming"}]
          /\ myRun \in [Tabs -> 0 .. runs] /\ runs \in 0 .. MaxRuns
        BY SimBounds DEF SimIInv, CallInv
    <2>3. running \in [SCRIPTS -> BOOLEAN]
        BY DEF SimIInv, MarkInv
    <2>4. \A r \in Runs :
              plan[r] \in Seq([op : {"say", "mark", "output", "unmark"}, script : Attacks])
        BY DEF SimIInv, PlanInv, WellFormed, Ops
    <2>5. \A t \in Tabs : Len(simLog[t]) <= LOG_MAX /\ Len(buffer[t]) <= 1
        BY TabTypes DEF SimIInv
    <2> QED
        BY <2>1, <2>2, <2>3, <2>4, <2>5, Zenon DEF SimTypeOK
<1> QED
    BY <1>2, <1>3, <1>4, PTL

(* The types of the simulator, and with them that a log is cut to its size and  *)
(* that less than a line is ever left over (App.jsx:529-609).                   *)
THEOREM SimTypeCorrect == SimSpec => []SimTypeOK
BY SimTypesHold, PTL DEF SimSpec
=============================================================================
