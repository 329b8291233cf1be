------------------------ MODULE TelemetryStoreProofs ------------------------
(***************************************************************************)
(* Proofs about TelemetryStore, for any finite set of devices and any      *)
(* capacity of the queue.  The argument: a device has one POST at a time,  *)
(* so the record it queues is the latest news of it (PostIsLatest) and the *)
(* queue holds the news of each device in order, after the row on disk and *)
(* before the memory (NewsInOrder).  Writing the head keeps that order,    *)
(* and so does losing it; a restart reads the rows back.                   *)
(***************************************************************************)
EXTENDS TelemetryStore, SequenceTheorems, FiniteSetTheorems, TLAPS

(* What Tail leaves of the queue: every record moves up by one.             *)
LEMMA TailFacts ==
    ASSUME TypeOK, queue # <<>>
    PROVE  /\ Len(queue) \in Nat \ {0}
           /\ Head(queue) = queue[1] /\ queue[1] \in RecordType
           /\ Tail(queue) \in Seq(RecordType)
           /\ Len(Tail(queue)) = Len(queue) - 1
           /\ \A i \in 1 .. Len(Tail(queue)) : Tail(queue)[i] = queue[i + 1]
<1>1. queue \in Seq(RecordType)
  BY DEF TypeOK
<1>2. Len(queue) \in Nat \ {0} /\ queue[1] \in RecordType
  BY <1>1
<1>3. Head(queue) = queue[1]
  BY <1>1
<1> QED
  BY <1>1, <1>2, <1>3, HeadTailProperties

(* What Append does to the queue: a new record at the end.                  *)
LEMMA AppendFacts ==
    ASSUME TypeOK, NEW rec \in RecordType
    PROVE  LET q == Append(queue, rec) IN
              /\ q \in Seq(RecordType)
              /\ Len(q) = Len(queue) + 1
              /\ \A i \in 1 .. Len(queue) : q[i] = queue[i]
              /\ q[Len(queue) + 1] = rec
  BY AppendProperties DEF TypeOK

(* The records of the queue have the fields of a record.                    *)
LEMMA QueueFacts ==
    ASSUME TypeOK
    PROVE  /\ Len(queue) \in Nat
           /\ \A i \in 1 .. Len(queue) :
                 /\ queue[i] \in RecordType
                 /\ queue[i].dev \in Devices
                 /\ queue[i].seen \in Nat /\ queue[i].rendered \in Nat
<1>1. queue \in Seq(RecordType)
  BY DEF TypeOK
<1>2. Len(queue) \in Nat /\ \A i \in 1 .. Len(queue) : queue[i] \in RecordType
  BY <1>1
<1>3. \A r \in RecordType : r.dev \in Devices /\ r.seen \in Nat /\ r.rendered \in Nat
  BY TelemetryStoreAssumption DEF RecordType, Time
<1> QED
  BY <1>2, <1>3

(* A store that starts with an empty sink.                                  *)
LEMMA InitInv == Init => StoreInv
<1> SUFFICES ASSUME Init PROVE StoreInv
  OBVIOUS
<1> USE TelemetryStoreAssumption DEF Init
<1>1. TypeOK
  <2>1. 0 \in Time
    BY DEF Time
  <2>2. Unknown \in StateType /\ NoPost \in PostType /\ NoRow \in RowType
    BY <2>1 DEF StateType, PostType, RowType, Unknown, NoPost, NoRow
  <2>3. NoCount \in [{"ingested", "written", "failed", "dropped"} -> Nat]
    BY DEF NoCount
  <2>4. queue \in Seq(RecordType) /\ Len(queue) <= QueueSize
    BY EmptySeq
  <2>5. /\ mem \in [Devices -> StateType]
        /\ post \in [Devices -> PostType]
        /\ disk \in [Devices -> RowType]
    BY <2>2
  <2>6. restarts \in 0 .. MaxRestarts /\ now \in Time
    BY <2>1
  <2> HIDE DEF Init
  <2> QED
    BY <2>3, <2>4, <2>5, <2>6 DEF TypeOK, Init
<1>2. NoSendAfterClose /\ StoppingFirst
  BY DEF NoSendAfterClose, StoppingFirst
<1>3. RepaintsAreReported /\ PostIsLatest /\ NewsInOrder
  BY DEF RepaintsAreReported, PostIsLatest, NewsInOrder, NotAfter, Unknown, NoPost, NoRow
<1>4. EveryReportAccounted
  <2>1. {d \in Devices : post[d].pc # "idle"} = {}
    BY DEF NoPost
  <2>2. Len(queue) = 0
    BY EmptySeq
  <2>3. Cardinality({d \in Devices : post[d].pc # "idle"}) = 0
    BY <2>1, FS_EmptySet
  <2>4. /\ count.ingested = 0 /\ count.written = 0
        /\ count.failed = 0 /\ count.dropped = 0
    BY DEF NoCount
  <2> HIDE DEF Init
  <2> QED
    BY <2>2, <2>3, <2>4 DEF EveryReportAccounted
<1>5. ReportedMeansSeen /\ DrainLeavesLateOnly
  BY DEF ReportedMeansSeen, DrainLeavesLateOnly, Unknown
<1> QED
  BY <1>1, <1>2, <1>3, <1>4, <1>5 DEF StoreInv

(* One POST begins or ends: the number of those under way follows.          *)
LEMMA UnderWay ==
    ASSUME TypeOK, NEW d \in Devices, NEW p \in PostType,
           post' = [post EXCEPT ![d] = p]
    PROVE  LET before == Cardinality({e \in Devices : post[e].pc # "idle"})
               after == Cardinality({e \in Devices : post'[e].pc # "idle"})
           IN  /\ before \in Nat
               /\ (post[d].pc = "idle") = (p.pc = "idle") => after = before
               /\ post[d].pc = "idle" /\ p.pc # "idle" => after = before + 1
               /\ post[d].pc # "idle" /\ p.pc = "idle" => after = before - 1
<1> DEFINE A == {e \in Devices : post[e].pc # "idle"}
           B == {e \in Devices : post'[e].pc # "idle"}
<1>1. IsFiniteSet(A) /\ Cardinality(A) \in Nat
  BY TelemetryStoreAssumption, FS_Subset, FS_CardinalityType
<1>2. /\ post'[d] = p
      /\ \A e \in Devices : e # d => post'[e] = post[e]
  BY DEF TypeOK
<1>3. (post[d].pc = "idle") = (p.pc = "idle") => B = A
  BY <1>2
<1>4. post[d].pc = "idle" /\ p.pc # "idle" => B = A \cup {d} /\ d \notin A
  BY <1>2
<1>5. post[d].pc # "idle" /\ p.pc = "idle" => B = A \ {d} /\ d \in A
  BY <1>2
<1>6. post[d].pc = "idle" /\ p.pc # "idle" => Cardinality(B) = Cardinality(A) + 1
  BY <1>1, <1>4, FS_AddElement
<1>7. post[d].pc # "idle" /\ p.pc = "idle" => Cardinality(B) = Cardinality(A) - 1
  BY <1>1, <1>5, FS_RemoveElement
<1> QED
  BY <1>1, <1>3, <1>6, <1>7

(* The numbers EveryReportAccounted adds up are numbers.                    *)
LEMMA CountFacts ==
    ASSUME TypeOK
    PROVE  /\ count.ingested \in Nat /\ count.written \in Nat
           /\ count.failed \in Nat /\ count.dropped \in Nat
           /\ Len(queue) \in Nat
           /\ Cardinality({e \in Devices : post[e].pc # "idle"}) \in Nat
<1>1. IsFiniteSet({e \in Devices : post[e].pc # "idle"})
  BY TelemetryStoreAssumption, FS_Subset
<1> QED
  BY <1>1, QueueFacts, FS_CardinalityType DEF TypeOK

(* A report that comes in (Ingest): it is later than anything known of its  *)
(* device, and one more report is under way.                                *)
LEMMA IngestInv ==
    ASSUME StoreInv, NEW d \in Devices, NEW rendered \in BOOLEAN, Ingest(d, rendered)
    PROVE  StoreInv'
<1> DEFINE paint == IF rendered THEN now' ELSE mem[d].rendered
           state == [mem[d] EXCEPT !.seen = now', !.rendered = paint, !.reported = TRUE]
           p == [pc |-> "stored", seen |-> now', rendered |-> paint]
<1>0. TypeOK
  BY DEF StoreInv
<1>1. /\ mem' = [mem EXCEPT ![d] = state]
      /\ post' = [post EXCEPT ![d] = p]
      /\ post[d].pc = "idle"
      /\ now < MaxReports /\ now' = now + 1
      /\ count' = [count EXCEPT !.ingested = @ + 1]
      /\ UNCHANGED <<queue, writer, closer, stopping, disk, restarts>>
  BY DEF Ingest
<1>2. now \in Nat /\ now' \in Time
  BY <1>0, <1>1, TelemetryStoreAssumption DEF TypeOK, Time
<1>3. mem[d] \in StateType /\ paint \in Time
  BY <1>0, <1>2 DEF TypeOK, StateType
<1>4. state \in StateType /\ p \in PostType
  BY <1>2, <1>3 DEF StateType, PostType
<1>5. /\ mem' \in [Devices -> StateType] /\ post' \in [Devices -> PostType]
      /\ mem'[d] = state /\ post'[d] = p
      /\ \A e \in Devices : e # d => mem'[e] = mem[e] /\ post'[e] = post[e]
  BY <1>0, <1>1, <1>4 DEF TypeOK
<1>6. /\ state.seen = now + 1 /\ state.rendered = paint /\ state.reported = TRUE
      /\ p.pc = "stored" /\ p.seen = now + 1 /\ p.rendered = paint
      /\ paint \in {now + 1, mem[d].rendered}
  BY <1>1, <1>3 DEF StateType
<1> HIDE DEF state, p, paint
<1>7. /\ mem[d].seen \in Nat /\ mem[d].rendered \in Nat
      /\ mem[d].rendered <= mem[d].seen /\ mem[d].seen <= now
  BY <1>0, <1>3, TelemetryStoreAssumption DEF StateType, Time, StoreInv, RepaintsAreReported
<1>8. paint \in Nat /\ mem[d].rendered <= paint /\ paint <= now + 1
  BY <1>2, <1>6, <1>7
<1>9. TypeOK'
  <2>1. count' \in [{"ingested", "written", "failed", "dropped"} -> Nat]
    BY <1>0, <1>1 DEF TypeOK
  <2> QED
    BY <1>0, <1>1, <1>2, <1>5, <2>1 DEF TypeOK
<1>10. NoSendAfterClose' /\ StoppingFirst' /\ DrainLeavesLateOnly'
  BY <1>1, <1>5, <1>6 DEF StoreInv, NoSendAfterClose, StoppingFirst, DrainLeavesLateOnly
<1>11. RepaintsAreReported'
  <2>1. \A e \in Devices : mem'[e].rendered <= mem'[e].seen /\ mem'[e].seen <= now'
    <3> TAKE e \in Devices
    <3>1. CASE e = d
      BY <1>1, <1>2, <1>5, <1>6, <1>8, <3>1
    <3>2. CASE e # d
      <4>1. mem[e].seen \in Nat /\ mem[e].seen <= now /\ mem[e].rendered <= mem[e].seen
        BY <1>0, TelemetryStoreAssumption
        DEF TypeOK, StateType, Time, StoreInv, RepaintsAreReported
      <4> QED
        BY <1>1, <1>2, <1>5, <3>2, <4>1
    <3> QED
      BY <3>1, <3>2
  <2> QED
    BY <1>1, <2>1 DEF StoreInv, RepaintsAreReported
<1>12. PostIsLatest'
  BY <1>5, <1>6 DEF StoreInv, PostIsLatest
<1>13. NewsInOrder'
  <2>1. ASSUME NEW x, x.seen \in Nat, x.rendered \in Nat, NotAfter(x, mem[d])
        PROVE  NotAfter(x, mem'[d])
    BY <1>2, <1>5, <1>6, <1>7, <1>8, <2>1 DEF NotAfter
  <2>2. \A e \in Devices : NotAfter(disk[e], mem'[e])
    <3> TAKE e \in Devices
    <3>1. NotAfter(disk[e], mem[e])
      BY DEF StoreInv, NewsInOrder
    <3>2. disk[e].seen \in Nat /\ disk[e].rendered \in Nat
      BY <1>0, TelemetryStoreAssumption DEF TypeOK, RowType, Time
    <3> QED
      BY <1>5, <2>1, <3>1, <3>2
  <2>3. \A i \in 1 .. Len(queue) : NotAfter(queue[i], mem'[queue[i].dev])
    <3> TAKE i \in 1 .. Len(queue)
    <3>1. NotAfter(queue[i], mem[queue[i].dev])
      BY DEF StoreInv, NewsInOrder
    <3>2. queue[i].dev \in Devices /\ queue[i].seen \in Nat /\ queue[i].rendered \in Nat
      BY <1>0, QueueFacts
    <3> QED
      BY <1>5, <2>1, <3>1, <3>2
  <2>4. NewsInOrder
    BY DEF StoreInv
  <2> QED
    BY <1>1, <2>2, <2>3, <2>4 DEF NewsInOrder
<1>14. EveryReportAccounted'
  <2>1. /\ count'.ingested = count.ingested + 1 /\ count'.written = count.written
        /\ count'.failed = count.failed /\ count'.dropped = count.dropped
    BY <1>0, <1>1 DEF TypeOK
  <2>2. /\ count.ingested \in Nat /\ count.written \in Nat
        /\ count.failed \in Nat /\ count.dropped \in Nat /\ Len(queue) \in Nat
    BY <1>0, QueueFacts DEF TypeOK
  <2>3. /\ Cardinality({e \in Devices : post[e].pc # "idle"}) \in Nat
        /\ Cardinality({e \in Devices : post'[e].pc # "idle"})
             = Cardinality({e \in Devices : post[e].pc # "idle"}) + 1
    BY <1>0, <1>1, <1>4, <1>6, UnderWay
  <2>4. EveryReportAccounted
    BY DEF StoreInv
  <2> QED
    BY <1>1, <2>1, <2>2, <2>3, <2>4 DEF EveryReportAccounted
<1>15. ReportedMeansSeen'
  BY <1>2, <1>5, <1>6 DEF StoreInv, ReportedMeansSeen
<1> QED
  BY <1>9, <1>10, <1>11, <1>12, <1>13, <1>14, <1>15 DEF StoreInv

(* A POST that looks whether the store is closed (StartSend): it drops its  *)
(* record, counted, or goes on with closeMu in hand.                        *)
LEMMA StartSendInv ==
    ASSUME StoreInv, NEW d \in Devices, StartSend(d)
    PROVE  StoreInv'
<1> USE DEF StoreInv
<1>1. /\ post[d].pc = "stored" /\ closer # "locked"
      /\ UNCHANGED <<mem, queue, writer, closer, stopping, disk, now, restarts>>
  BY DEF StartSend
<1>2. PICK p \in {NoPost, [post[d] EXCEPT !.pc = "sending"]} :
         /\ post' = [post EXCEPT ![d] = p]
         /\ IF Closed THEN p = NoPost /\ count' = [count EXCEPT !.dropped = @ + 1]
                      ELSE p = [post[d] EXCEPT !.pc = "sending"] /\ count' = count
  BY DEF StartSend
<1>3. post[d] \in PostType
  BY DEF TypeOK
<1>4. /\ p \in PostType
      /\ p.pc = IF Closed THEN "idle" ELSE "sending"
      /\ ~Closed => p.seen = post[d].seen /\ p.rendered = post[d].rendered
  BY <1>2, <1>3, TelemetryStoreAssumption DEF PostType, NoPost, Time
<1>5. /\ post' \in [Devices -> PostType]
      /\ post'[d] = p
      /\ \A e \in Devices : e # d => post'[e] = post[e]
  BY <1>2, <1>4 DEF TypeOK
<1>6. /\ count' \in [{"ingested", "written", "failed", "dropped"} -> Nat]
      /\ count'.ingested = count.ingested /\ count'.written = count.written
      /\ count'.failed = count.failed
      /\ count'.dropped = count.dropped + (IF Closed THEN 1 ELSE 0)
  BY <1>2, CountFacts DEF TypeOK
<1>7. TypeOK'
  BY <1>1, <1>5, <1>6 DEF TypeOK
<1>8. NoSendAfterClose'
  <2>1. CASE Closed
    BY <1>1, <1>4, <1>5, <2>1 DEF NoSendAfterClose
  <2>2. CASE ~Closed
    BY <1>1, <2>2 DEF NoSendAfterClose, Closed, TypeOK
  <2> QED
    BY <2>1, <2>2
<1>9. PostIsLatest'
  BY <1>1, <1>4, <1>5 DEF PostIsLatest
<1>10. EveryReportAccounted'
  <2> DEFINE before == Cardinality({e \in Devices : post[e].pc # "idle"})
             after == Cardinality({e \in Devices : post'[e].pc # "idle"})
  <2>1. /\ p.pc = "idle" => after = before - 1
        /\ p.pc # "idle" => after = before
    BY <1>1, <1>2, <1>4, UnderWay
  <2>2. /\ before \in Nat /\ Len(queue) \in Nat
        /\ count.written \in Nat /\ count.failed \in Nat /\ count.dropped \in Nat
        /\ count.ingested = count.written + count.failed + count.dropped + Len(queue) + before
    BY CountFacts DEF EveryReportAccounted
  <2> HIDE DEF before, after
  <2>3. CASE Closed
    <3>1. after = before - 1
      BY <1>4, <2>1, <2>3
    <3>2. /\ count'.dropped = count.dropped + 1 /\ count'.ingested = count.ingested
          /\ count'.written = count.written /\ count'.failed = count.failed
          /\ Len(queue') = Len(queue)
      BY <1>1, <1>6, <2>3
    <3>3. count'.ingested = count'.written + count'.failed + count'.dropped + Len(queue') + after
      BY <2>2, <3>1, <3>2
    <3> QED
      BY <3>3 DEF EveryReportAccounted, after
  <2>4. CASE ~Closed
    <3>1. after = before
      BY <1>4, <2>1, <2>4
    <3>2. count'.dropped = count.dropped
      BY <1>6, <2>4, CountFacts
    <3>3. count'.ingested = count'.written + count'.failed + count'.dropped + Len(queue') + after
      BY <1>1, <1>6, <2>2, <3>1, <3>2, CountFacts
    <3> QED
      BY <3>3 DEF EveryReportAccounted, after
  <2> QED
    BY <2>3, <2>4
<1>11. /\ StoppingFirst' /\ RepaintsAreReported' /\ NewsInOrder'
       /\ ReportedMeansSeen' /\ DrainLeavesLateOnly'
  BY <1>1 DEF StoppingFirst, RepaintsAreReported, NewsInOrder, ReportedMeansSeen,
              DrainLeavesLateOnly
<1> QED
  BY <1>7, <1>8, <1>9, <1>10, <1>11

(* The send (Send): the record joins the end of the queue as the latest     *)
(* news of its device, or is dropped and counted.                           *)
LEMMA SendInv ==
    ASSUME StoreInv, NEW d \in Devices, Send(d)
    PROVE  StoreInv'
<1> USE DEF StoreInv
<1>1. /\ post[d].pc = "sending"
      /\ post' = [post EXCEPT ![d] = NoPost]
      /\ UNCHANGED <<mem, writer, closer, stopping, disk, now, restarts>>
  BY DEF Send
<1>2. NoPost \in PostType /\ NoPost.pc = "idle"
  BY TelemetryStoreAssumption DEF PostType, NoPost, Time
<1>3. /\ post' \in [Devices -> PostType]
      /\ post'[d] = NoPost
      /\ \A e \in Devices : e # d => post'[e] = post[e]
  BY <1>1, <1>2 DEF TypeOK
<1>4. /\ NoSendAfterClose' /\ StoppingFirst' /\ PostIsLatest' /\ ReportedMeansSeen'
  BY <1>1, <1>2, <1>3
  DEF NoSendAfterClose, StoppingFirst, PostIsLatest, ReportedMeansSeen
<1>5. Cardinality({e \in Devices : post'[e].pc # "idle"})
        = Cardinality({e \in Devices : post[e].pc # "idle"}) - 1
  BY <1>1, <1>2, UnderWay
<1>6. ASSUME Len(queue) >= QueueSize
      PROVE  StoreInv'
  <2>1. queue' = queue /\ count' = [count EXCEPT !.dropped = @ + 1]
    BY <1>6, TelemetryStoreAssumption, CountFacts DEF Send
  <2>2. /\ count' \in [{"ingested", "written", "failed", "dropped"} -> Nat]
        /\ count'.ingested = count.ingested /\ count'.written = count.written
        /\ count'.failed = count.failed /\ count'.dropped = count.dropped + 1
    BY <2>1, CountFacts DEF TypeOK
  <2>3. TypeOK'
    BY <1>1, <1>3, <2>1, <2>2 DEF TypeOK
  <2>4. EveryReportAccounted'
    BY <1>5, <2>1, <2>2, CountFacts DEF EveryReportAccounted
  <2>5. RepaintsAreReported' /\ NewsInOrder' /\ DrainLeavesLateOnly'
    BY <1>1, <2>1 DEF RepaintsAreReported, NewsInOrder, DrainLeavesLateOnly
  <2> QED
    BY <1>4, <2>3, <2>4, <2>5
<1>7. ASSUME Len(queue) < QueueSize
      PROVE  StoreInv'
  <2> DEFINE rec == Record(d)
  <2>1. queue' = Append(queue, rec) /\ count' = count
    BY <1>7 DEF Send
  <2>2. /\ rec \in RecordType /\ rec.dev = d /\ rec.late = stopping
        /\ rec.seen = mem[d].seen /\ rec.rendered = mem[d].rendered
    BY <1>1 DEF Record, RecordType, PostIsLatest, TypeOK, PostType
  <2>3. /\ mem[d].seen \in Nat /\ mem[d].rendered \in Nat
    BY TelemetryStoreAssumption DEF TypeOK, StateType, Time
  <2> HIDE DEF rec
  <2>4. /\ queue' \in Seq(RecordType) /\ Len(queue) \in Nat
        /\ Len(queue') = Len(queue) + 1
        /\ \A i \in 1 .. Len(queue) : queue'[i] = queue[i]
        /\ queue'[Len(queue) + 1] = rec
    BY <2>1, <2>2, AppendFacts, QueueFacts
  <2>5. \A i \in 1 .. Len(queue') : i \in 1 .. Len(queue) \/ i = Len(queue) + 1
    BY <2>4
  <2>6. TypeOK'
    BY <1>1, <1>3, <1>7, <2>1, <2>4, TelemetryStoreAssumption DEF TypeOK
  <2>7. EveryReportAccounted'
    BY <1>5, <2>1, <2>4, CountFacts DEF EveryReportAccounted
  <2>8. RepaintsAreReported'
    BY <1>1, <2>2, <2>4, <2>5 DEF RepaintsAreReported
  <2>9. DrainLeavesLateOnly'
    BY <1>1, <2>2, <2>4, <2>5 DEF DrainLeavesLateOnly, StoppingFirst
  <2>10. NewsInOrder'
    <3>1. NotAfter(rec, mem[d]) /\ NotAfter(disk[d], rec)
      BY <2>2, <2>3 DEF NotAfter, NewsInOrder
    <3>2. ASSUME NEW i \in 1 .. Len(queue), queue[i].dev = d
          PROVE  NotAfter(queue[i], rec)
      BY <2>2, <3>2 DEF NotAfter, NewsInOrder
    <3>3. \A i \in 1 .. Len(queue') :
             /\ NotAfter(disk'[queue'[i].dev], queue'[i])
             /\ NotAfter(queue'[i], mem'[queue'[i].dev])
      BY <1>1, <2>2, <2>4, <2>5, <3>1 DEF NewsInOrder
    <3>4. \A i, j \in 1 .. Len(queue') :
             i < j /\ queue'[j].dev = queue'[i].dev => NotAfter(queue'[i], queue'[j])
      <4> SUFFICES ASSUME NEW i \in 1 .. Len(queue'), NEW j \in 1 .. Len(queue'),
                          i < j, queue'[j].dev = queue'[i].dev
                   PROVE  NotAfter(queue'[i], queue'[j])
        OBVIOUS
      <4>1. i \in 1 .. Len(queue) /\ queue'[i] = queue[i]
        BY <2>4, <2>5
      <4>2. CASE j \in 1 .. Len(queue)
        BY <2>4, <4>1, <4>2 DEF NewsInOrder
      <4>3. CASE j = Len(queue) + 1
        BY <2>2, <2>4, <3>2, <4>1, <4>3
      <4> QED
        BY <2>5, <4>2, <4>3
    <3>5. \A e \in Devices : NotAfter(disk'[e], mem'[e])
      BY <1>1 DEF NewsInOrder
    <3> QED
      BY <3>3, <3>4, <3>5 DEF NewsInOrder
  <2> QED
    BY <1>4, <2>6, <2>7, <2>8, <2>9, <2>10
<1> QED
  BY <1>6, <1>7, TelemetryStoreAssumption, CountFacts

(* The row that the oldest record leaves is the record's: a record that     *)
(* knows no repaint meets no row that knows one.                            *)
LEMMA HeadRow ==
    ASSUME TypeOK, NewsInOrder, queue # <<>>
    PROVE  Row(disk[queue[1].dev], queue[1])
             = [seen |-> queue[1].seen, rendered |-> queue[1].rendered]
<1>1. 1 \in 1 .. Len(queue) /\ queue[1].dev \in Devices
  BY TailFacts, QueueFacts
<1>2. NotAfter(disk[queue[1].dev], queue[1])
  BY <1>1 DEF NewsInOrder
<1>3. disk[queue[1].dev].rendered \in Nat
  BY <1>1, TelemetryStoreAssumption DEF TypeOK, RowType, Time
<1>4. queue[1].rendered = 0 => disk[queue[1].dev].rendered = 0
  BY <1>2, <1>3 DEF NotAfter
<1> QED
  BY <1>4 DEF Row

(* The writer takes the oldest record, whether the transaction commits      *)
(* (AppendRecord) or not (AppendFails): the queue moves up, at most one     *)
(* row becomes that record, and one counter counts it.                      *)
LEMMA WriteInv ==
    ASSUME StoreInv, AppendRecord \/ AppendFails
    PROVE  StoreInv'
<1> DEFINE h == queue[1]
<1> USE DEF StoreInv
<1>1. /\ queue # <<>> /\ writer \in {"running", "draining"}
      /\ queue' = Tail(queue) /\ Head(queue) = h
      /\ UNCHANGED <<mem, post, writer, closer, stopping, now, restarts>>
  BY TailFacts DEF AppendRecord, AppendFails
<1>2. /\ Len(queue) \in Nat \ {0} /\ h \in RecordType
      /\ queue' \in Seq(RecordType)
      /\ Len(queue') = Len(queue) - 1
      /\ \A i \in 1 .. Len(queue') : queue'[i] = queue[i + 1]
  BY <1>1, TailFacts
<1>3. /\ h.dev \in Devices /\ h.seen \in Time /\ h.rendered \in Time
      /\ 1 \in 1 .. Len(queue)
      /\ \A i \in 1 .. Len(queue') : i + 1 \in 1 .. Len(queue) /\ 1 < i + 1
  BY <1>2 DEF RecordType
<1>4. PICK row \in {disk[h.dev], [seen |-> h.seen, rendered |-> h.rendered]} :
         disk' = [disk EXCEPT ![h.dev] = row]
  <2>1. CASE AppendRecord
    BY <1>1, <2>1, HeadRow DEF AppendRecord
  <2>2. CASE AppendFails
    <3>1. disk' = [disk EXCEPT ![h.dev] = disk[h.dev]]
      BY <1>3, <2>2 DEF AppendFails, TypeOK
    <3> QED
      BY <3>1
  <2> QED
    BY <2>1, <2>2
<1>5. row \in RowType
  BY <1>3 DEF TypeOK, RowType
<1>6. /\ disk' \in [Devices -> RowType]
      /\ disk'[h.dev] = row
      /\ \A e \in Devices : e # h.dev => disk'[e] = disk[e]
  BY <1>3, <1>4, <1>5 DEF TypeOK
<1>7. PICK c \in {"written", "failed"} : count' = [count EXCEPT ![c] = @ + 1]
  BY DEF AppendRecord, AppendFails
<1>8. /\ count' \in [{"ingested", "written", "failed", "dropped"} -> Nat]
      /\ count'.ingested = count.ingested /\ count'.dropped = count.dropped
      /\ count'.written + count'.failed = count.written + count.failed + 1
  <2>1. count \in [{"ingested", "written", "failed", "dropped"} -> Nat]
    BY DEF TypeOK
  <2>2. CASE c = "written"
    <3>1. count' = [count EXCEPT !.written = @ + 1]
      BY <1>7, <2>2
    <3> QED
      BY <2>1, <3>1
  <2>3. CASE c = "failed"
    <3>1. count' = [count EXCEPT !.failed = @ + 1]
      BY <1>7, <2>3
    <3> QED
      BY <2>1, <3>1
  <2> QED
    BY <2>2, <2>3
<1> HIDE DEF h
<1>9. TypeOK'
  BY <1>1, <1>2, <1>6, <1>8, TelemetryStoreAssumption DEF TypeOK
<1>10. /\ NoSendAfterClose' /\ StoppingFirst' /\ PostIsLatest'
       /\ ReportedMeansSeen' /\ DrainLeavesLateOnly'
  BY <1>1 DEF NoSendAfterClose, StoppingFirst, PostIsLatest, ReportedMeansSeen,
              DrainLeavesLateOnly
<1>11. EveryReportAccounted'
  <2>1. /\ count.written \in Nat /\ count.failed \in Nat /\ count.dropped \in Nat
        /\ count'.written \in Nat /\ count'.failed \in Nat
        /\ Cardinality({e \in Devices : post[e].pc # "idle"}) \in Nat
    BY <1>8, CountFacts
  <2> QED
    BY <1>1, <1>2, <1>8, <2>1 DEF EveryReportAccounted
<1>12. RepaintsAreReported'
  <2>1. row.rendered <= row.seen
    <3>1. h.rendered <= h.seen
      BY <1>3 DEF RepaintsAreReported, h
    <3>2. disk[h.dev].rendered <= disk[h.dev].seen
      BY <1>3 DEF RepaintsAreReported
    <3> QED
      BY <3>1, <3>2
  <2>2. \A i \in 1 .. Len(queue') : queue'[i].rendered <= queue'[i].seen
    BY <1>2, <1>3 DEF RepaintsAreReported
  <2>3. \A e \in Devices : disk'[e].rendered <= disk'[e].seen
    BY <1>6, <2>1 DEF RepaintsAreReported
  <2> QED
    BY <1>1, <2>2, <2>3 DEF RepaintsAreReported
<1>13. NewsInOrder'
  <2>1. ASSUME NEW e \in Devices, NEW x, e = h.dev => NotAfter(h, x), NotAfter(disk[e], x)
        PROVE  NotAfter(disk'[e], x)
    <3>1. CASE e # h.dev
      BY <1>6, <2>1, <3>1
    <3>2. CASE e = h.dev
      <4>1. NotAfter([seen |-> h.seen, rendered |-> h.rendered], x)
        BY <2>1, <3>2 DEF NotAfter
      <4> QED
        BY <1>6, <2>1, <3>2, <4>1
    <3> QED
      BY <3>1, <3>2
  <2>2. \A e \in Devices : NotAfter(disk'[e], mem'[e])
    <3> TAKE e \in Devices
    <3>1. NotAfter(disk[e], mem[e])
      BY DEF NewsInOrder
    <3>2. NotAfter(h, mem[h.dev])
      BY <1>3 DEF NewsInOrder, h
    <3> QED
      BY <1>1, <2>1, <3>1, <3>2
  <2>3. \A i \in 1 .. Len(queue') :
           /\ NotAfter(disk'[queue'[i].dev], queue'[i])
           /\ NotAfter(queue'[i], mem'[queue'[i].dev])
    <3> TAKE i \in 1 .. Len(queue')
    <3>1. i + 1 \in 1 .. Len(queue) /\ queue'[i] = queue[i + 1]
      BY <1>2, <1>3
    <3>2. /\ NotAfter(disk[queue'[i].dev], queue'[i])
          /\ NotAfter(queue'[i], mem[queue'[i].dev])
      BY <3>1 DEF NewsInOrder
    <3>3. queue'[i].dev = h.dev => NotAfter(h, queue'[i])
      BY <1>3, <3>1 DEF NewsInOrder, h
    <3>4. queue'[i].dev \in Devices
      BY <3>1, QueueFacts
    <3> QED
      BY <1>1, <2>1, <3>2, <3>3, <3>4
  <2>4. \A i, j \in 1 .. Len(queue') :
           i < j /\ queue'[j].dev = queue'[i].dev => NotAfter(queue'[i], queue'[j])
    <3> SUFFICES ASSUME NEW i \in 1 .. Len(queue'), NEW j \in 1 .. Len(queue'),
                        i < j, queue'[j].dev = queue'[i].dev
                 PROVE  NotAfter(queue'[i], queue'[j])
      OBVIOUS
    <3>1. /\ i + 1 \in 1 .. Len(queue) /\ queue'[i] = queue[i + 1]
          /\ j + 1 \in 1 .. Len(queue) /\ queue'[j] = queue[j + 1]
          /\ i + 1 < j + 1
      BY <1>2, <1>3
    <3> QED
      BY <3>1 DEF NewsInOrder
  <2> QED
    BY <2>2, <2>3, <2>4 DEF NewsInOrder
<1> QED
  BY <1>9, <1>10, <1>11, <1>12, <1>13

(* What the poller and the display handler store of a device besides its    *)
(* reports (SetRoomStatus, SetExpectedWake) touches none of them.           *)
LEMMA NoteInv ==
    ASSUME StoreInv, NEW d \in Devices, SetRoomStatus(d) \/ SetExpectedWake(d)
    PROVE  StoreInv'
<1> USE DEF StoreInv
<1>1. PICK s \in {[mem[d] EXCEPT !.room = TRUE], [mem[d] EXCEPT !.wake = TRUE]} :
         mem' = [mem EXCEPT ![d] = s]
  BY DEF SetRoomStatus, SetExpectedWake
<1>2. UNCHANGED <<post, queue, writer, closer, stopping, disk, count, now, restarts>>
  BY DEF SetRoomStatus, SetExpectedWake
<1>3. mem[d] \in StateType
  BY DEF TypeOK
<1>4. /\ s \in StateType /\ s.seen = mem[d].seen /\ s.rendered = mem[d].rendered
      /\ s.reported = mem[d].reported
  BY <1>3 DEF StateType
<1>5. /\ mem' \in [Devices -> StateType]
      /\ \A e \in Devices : /\ mem'[e].seen = mem[e].seen
                            /\ mem'[e].rendered = mem[e].rendered
                            /\ mem'[e].reported = mem[e].reported
  BY <1>1, <1>4 DEF TypeOK
<1>6. TypeOK'
  BY <1>2, <1>5 DEF TypeOK
<1>7. RepaintsAreReported' /\ PostIsLatest' /\ ReportedMeansSeen'
  BY <1>2, <1>5 DEF RepaintsAreReported, PostIsLatest, ReportedMeansSeen
<1>8. NewsInOrder'
  BY <1>2, <1>5, QueueFacts DEF NewsInOrder, NotAfter
<1>9. NoSendAfterClose' /\ StoppingFirst' /\ EveryReportAccounted' /\ DrainLeavesLateOnly'
  BY <1>2 DEF NoSendAfterClose, StoppingFirst, EveryReportAccounted, DrainLeavesLateOnly
<1> QED
  BY <1>6, <1>7, <1>8, <1>9

(* The end of the process: the stop, the writer that leaves and Close.      *)
LEMMA ShutdownInv ==
    ASSUME StoreInv,
           \/ Stop \/ WriterSeesDone \/ WriterStops
           \/ CloseLocks \/ CloseQueue \/ CloseReturns
    PROVE  StoreInv'
<1> USE DEF StoreInv
<1>1. UNCHANGED <<mem, post, queue, disk, count, now, restarts>>
  BY DEF Stop, WriterSeesDone, WriterStops, CloseLocks, CloseQueue, CloseReturns
<1>2. TypeOK'
  BY <1>1 DEF TypeOK, Stop, WriterSeesDone, WriterStops, CloseLocks, CloseQueue, CloseReturns
<1>3. StoppingFirst'
  BY DEF StoppingFirst, Stop, WriterSeesDone, WriterStops, CloseLocks, CloseQueue,
         CloseReturns, Closed
<1>4. NoSendAfterClose'
  BY <1>1 DEF NoSendAfterClose, Stop, WriterSeesDone, WriterStops, CloseLocks, CloseQueue,
              CloseReturns
<1>5. DrainLeavesLateOnly'
  <2>1. CASE WriterStops
    <3>1. Len(queue) = 0
      BY <2>1 DEF WriterStops
    <3> QED
      BY <1>1, <3>1 DEF DrainLeavesLateOnly
  <2>2. CASE ~WriterStops
    BY <1>1, <2>2 DEF DrainLeavesLateOnly, Stop, WriterSeesDone, CloseLocks, CloseQueue,
                      CloseReturns
  <2> QED
    BY <2>1, <2>2
<1>6. /\ RepaintsAreReported' /\ PostIsLatest' /\ NewsInOrder'
      /\ EveryReportAccounted' /\ ReportedMeansSeen'
  BY <1>1 DEF RepaintsAreReported, PostIsLatest, NewsInOrder, EveryReportAccounted,
              ReportedMeansSeen
<1> QED
  BY <1>2, <1>3, <1>4, <1>5, <1>6

(* A broker that starts from the rows of its sink.                          *)
LEMMA RestartInv ==
    ASSUME StoreInv, Restart
    PROVE  StoreInv'
<1> USE DEF StoreInv
<1> DEFINE warm(d) == IF disk[d].seen = 0 THEN Unknown
                      ELSE [seen |-> disk[d].seen, rendered |-> disk[d].rendered,
                            reported |-> TRUE, room |-> FALSE, wake |-> FALSE]
<1>1. /\ mem' = [d \in Devices |-> warm(d)]
      /\ post' = [d \in Devices |-> NoPost]
      /\ queue' = <<>> /\ writer' = "running" /\ closer' = "no" /\ stopping' = FALSE
      /\ count' = NoCount
      /\ restarts < MaxRestarts /\ restarts' = restarts + 1
      /\ UNCHANGED <<disk, now>>
  BY DEF Restart
<1>2. 0 \in Time /\ Time \subseteq Nat
  BY TelemetryStoreAssumption DEF Time
<1> HIDE DEF warm
<1>3. \A d \in Devices : /\ disk[d].seen \in Time /\ disk[d].rendered \in Time
                        /\ disk[d].rendered <= disk[d].seen
                        /\ disk[d].seen <= mem[d].seen /\ mem[d].seen <= now
                        /\ mem[d].seen \in Nat /\ now \in Nat
  BY <1>2 DEF TypeOK, RowType, StateType, RepaintsAreReported, NewsInOrder, NotAfter
<1>4. \A d \in Devices : /\ mem'[d] \in StateType
                        /\ mem'[d].seen = disk[d].seen
                        /\ mem'[d].rendered = disk[d].rendered
  <2> TAKE d \in Devices
  <2>1. mem'[d] = warm(d)
    BY <1>1
  <2>2. CASE disk[d].seen = 0
    <3>1. disk[d].rendered \in Nat /\ disk[d].rendered <= disk[d].seen
      BY <1>2, <1>3
    <3>2. disk[d].rendered = 0
      BY <2>2, <3>1
    <3>3. mem'[d] = Unknown
      BY <2>1, <2>2 DEF warm
    <3>4. /\ Unknown \in StateType /\ Unknown.seen = 0 /\ Unknown.rendered = 0
      BY <1>2 DEF Unknown, StateType
    <3> QED
      BY <2>2, <3>2, <3>3, <3>4
  <2>3. CASE disk[d].seen # 0
    <3> DEFINE r == [seen |-> disk[d].seen, rendered |-> disk[d].rendered,
                     reported |-> TRUE, room |-> FALSE, wake |-> FALSE]
    <3>1. mem'[d] = r
      BY <2>1, <2>3 DEF warm
    <3>2. /\ r \in StateType /\ r.seen = disk[d].seen /\ r.rendered = disk[d].rendered
      BY <1>3 DEF StateType
    <3> HIDE DEF r
    <3> QED
      BY <2>3, <3>1, <3>2
  <2> QED
    BY <2>2, <2>3
<1>5. /\ Len(queue') = 0 /\ queue' \in Seq(RecordType)
      /\ 1 .. Len(queue') = {}
  BY <1>1, EmptySeq
<1>6. TypeOK'
  <2>1. NoPost \in PostType
    BY <1>2 DEF PostType, NoPost
  <2>2. NoCount \in [{"ingested", "written", "failed", "dropped"} -> Nat]
    BY DEF NoCount
  <2>3. restarts' \in 0 .. MaxRestarts
    BY <1>1, TelemetryStoreAssumption DEF TypeOK
  <2>4. mem' \in [Devices -> StateType]
    BY <1>1, <1>4
  <2> QED
    <3>1. post' \in [Devices -> PostType]
      BY <1>1, <2>1
    <3>2. count' \in [{"ingested", "written", "failed", "dropped"} -> Nat]
      BY <1>1, <2>2
    <3>3. Len(queue') <= QueueSize
      BY <1>5, TelemetryStoreAssumption
    <3>4. /\ writer' \in {"running", "draining", "stopped"}
          /\ closer' \in {"no", "locked", "waiting", "done"}
          /\ stopping' \in BOOLEAN
          /\ disk' \in [Devices -> RowType] /\ now' \in Time
      BY <1>1 DEF TypeOK
    <3> QED
      BY <1>5, <2>3, <2>4, <3>1, <3>2, <3>3, <3>4 DEF TypeOK
<1>7. NoSendAfterClose' /\ StoppingFirst' /\ DrainLeavesLateOnly'
  BY <1>1 DEF NoSendAfterClose, StoppingFirst, DrainLeavesLateOnly
<1>8. PostIsLatest'
  BY <1>1 DEF PostIsLatest, NoPost
<1>9. RepaintsAreReported'
  <2>1. now \in Nat
    BY <1>2 DEF TypeOK
  <2>2. \A d \in Devices : mem'[d].seen <= now'
    <3> TAKE d \in Devices
    <3>1. /\ disk[d].seen \in Nat /\ disk[d].seen <= mem[d].seen /\ mem[d].seen <= now
          /\ mem[d].seen \in Nat
      BY <1>2, <1>3
    <3>2. disk[d].seen <= now
      BY <2>1, <3>1
    <3>3. mem'[d].seen = disk[d].seen /\ now' = now
      BY <1>1, <1>4
    <3> QED
      BY <3>2, <3>3
  <2>3. disk' = disk
    BY <1>1
  <2> QED
    BY <1>3, <1>4, <1>5, <2>2, <2>3 DEF RepaintsAreReported
<1>10. NewsInOrder'
  <2>1. disk' = disk
    BY <1>1
  <2>2. \A d \in Devices : disk[d].seen \in Nat /\ disk[d].rendered \in Nat
    BY <1>2, <1>3
  <2>3. \A d \in Devices : NotAfter(disk'[d], mem'[d])
    BY <1>4, <2>1, <2>2 DEF NotAfter
  <2> QED
    BY <1>5, <2>3 DEF NewsInOrder
<1>11. ReportedMeansSeen'
  <2> SUFFICES ASSUME NEW d \in Devices
               PROVE  mem'[d].reported <=> mem'[d].seen # 0
    BY DEF ReportedMeansSeen
  <2>1. mem'[d] = warm(d)
    BY <1>1
  <2>2. CASE disk[d].seen = 0
    BY <2>1, <2>2 DEF warm, Unknown
  <2>3. CASE disk[d].seen # 0
    BY <2>1, <2>3 DEF warm
  <2> QED
    BY <2>2, <2>3
<1>12. EveryReportAccounted'
  <2>1. {d \in Devices : post'[d].pc # "idle"} = {}
    BY <1>1 DEF NoPost
  <2>2. Cardinality({d \in Devices : post'[d].pc # "idle"}) = 0
    BY <2>1, FS_EmptySet
  <2>3. /\ count'.ingested = 0 /\ count'.written = 0
        /\ count'.failed = 0 /\ count'.dropped = 0
    BY <1>1 DEF NoCount
  <2> QED
    BY <1>5, <2>2, <2>3 DEF EveryReportAccounted
<1> QED
  BY <1>6, <1>7, <1>8, <1>9, <1>10, <1>11, <1>12

(* Every step of the store keeps the invariant.                             *)
LEMMA StepInv == StoreInv /\ [Next]_vars => StoreInv'
<1> SUFFICES ASSUME StoreInv, [Next]_vars PROVE StoreInv'
  OBVIOUS
<1>1. ASSUME NEW d \in Devices, NEW rendered \in BOOLEAN, Ingest(d, rendered)
      PROVE  StoreInv'
  BY <1>1, IngestInv
<1>2. ASSUME NEW d \in Devices, Post(d)
      PROVE  StoreInv'
  BY <1>2, StartSendInv, SendInv DEF Post
<1>3. ASSUME NEW d \in Devices, SetRoomStatus(d) \/ SetExpectedWake(d)
      PROVE  StoreInv'
  BY <1>3, NoteInv
<1>4. CASE Write
  BY <1>4, WriteInv, ShutdownInv DEF Write
<1>5. CASE Stop \/ Close
  BY <1>5, ShutdownInv DEF Close
<1>6. CASE Restart
  BY <1>6, RestartInv
<1>7. CASE UNCHANGED vars
  BY <1>7 DEF vars, StoreInv, TypeOK, NoSendAfterClose, StoppingFirst, RepaintsAreReported,
              PostIsLatest, NewsInOrder, EveryReportAccounted, ReportedMeansSeen,
              DrainLeavesLateOnly
<1> QED
  BY <1>1, <1>2, <1>3, <1>4, <1>5, <1>6, <1>7 DEF Next

(* The store's invariant (telemetry.go): no send meets a closed channel, no *)
(* report vanishes uncounted, and what is known of a device is in order on  *)
(* its way from the memory to the disk.                                     *)
THEOREM StoreInvariant == Spec => []StoreInv
  BY InitInv, StepInv, PTL DEF Spec

(* Every report is written, counted as failed or dropped, or under way      *)
(* (Ingest, Run: the counters of dropped and failed records).               *)
THEOREM ReportsAccounted == Spec => []EveryReportAccounted
<1>1. StoreInv => EveryReportAccounted
  BY DEF StoreInv
<1> QED
  BY <1>1, StoreInvariant, PTL

(* What the writer left behind was queued after the broker was told to stop *)
(* (Run's drain on ctx.Done).                                               *)
THEOREM DrainHolds == Spec => []DrainLeavesLateOnly
<1>1. StoreInv => DrainLeavesLateOnly
  BY DEF StoreInv
<1> QED
  BY <1>1, StoreInvariant, PTL

(* The sink is never ahead of the memory, across restarts (NewWithSink).    *)
THEOREM DiskBehind == Spec => []DiskBehindMemory
<1>1. StoreInv => DiskBehindMemory
  BY DEF StoreInv, NewsInOrder, NotAfter, DiskBehindMemory
<1> QED
  BY <1>1, StoreInvariant, PTL

(* A latest report on disk brings its last repaint with it, even if the     *)
(* report of that repaint was dropped (Ingest carries LastRendered over).   *)
THEOREM LatestCarriesRepaint == Spec => []LatestReportCarriesRepaint
<1>1. StoreInv => LatestReportCarriesRepaint
  BY DEF StoreInv, NewsInOrder, NotAfter, LatestReportCarriesRepaint
<1> QED
  BY <1>1, StoreInvariant, PTL

(* A row of the devices table is only replaced by a later one               *)
(* (SQLiteSink.Append upserts what it is given, without comparing times).   *)
THEOREM DiskMonotone == Spec => DiskNeverGoesBack
<1>1. StoreInv /\ [Next]_vars =>
        [\A d \in Devices : /\ disk'[d].seen >= disk[d].seen
                            /\ disk'[d].rendered >= disk[d].rendered]_vars
  <2> SUFFICES ASSUME StoreInv, Next, NEW d \in Devices
               PROVE  disk'[d].seen >= disk[d].seen /\ disk'[d].rendered >= disk[d].rendered
    OBVIOUS
  <2> USE DEF StoreInv
  <2>1. disk[d].seen \in Nat /\ disk[d].rendered \in Nat
    BY TelemetryStoreAssumption DEF TypeOK, RowType, Time
  <2>2. CASE disk' = disk
    BY <2>1, <2>2
  <2>3. CASE AppendRecord
    <3> DEFINE h == queue[1]
    <3>1. queue # <<>> /\ disk' = [disk EXCEPT ![h.dev] = Row(@, h)]
      BY <2>3, TailFacts DEF AppendRecord
    <3>2. 1 \in 1 .. Len(queue) /\ h.dev \in Devices /\ h.seen \in Nat /\ h.rendered \in Nat
      BY <3>1, TailFacts, QueueFacts
    <3>3. NotAfter(disk[h.dev], h)
      BY <3>2 DEF NewsInOrder
    <3>4. disk'[h.dev] = [seen |-> h.seen, rendered |-> h.rendered]
      BY <3>1, <3>2, HeadRow DEF TypeOK
    <3>5. d # h.dev => disk'[d] = disk[d]
      BY <3>1, <3>2 DEF TypeOK
    <3> HIDE DEF h
    <3>6. CASE d = h.dev
      BY <2>1, <3>2, <3>3, <3>4, <3>6 DEF NotAfter
    <3>7. CASE d # h.dev
      BY <2>1, <3>5, <3>7
    <3> QED
      BY <3>6, <3>7
  <2>4. disk' = disk \/ AppendRecord
    BY DEF Next, Ingest, Post, StartSend, Send, SetRoomStatus, SetExpectedWake, Write,
           AppendFails, WriterSeesDone, WriterStops, Stop, Close, CloseLocks, CloseQueue,
           CloseReturns, Restart
  <2> QED
    BY <2>2, <2>3, <2>4
<1> QED
  BY <1>1, StoreInvariant, PTL DEF Spec, DiskNeverGoesBack

(* Only a restart forgets what the poller, the display handler and the      *)
(* reports stored of a device (Ingest, SetRoomStatus, SetExpectedWake).     *)
THEOREM Remembered == Spec => OnlyRestartForgets
<1>1. ASSUME StoreInv, Next, restarts' = restarts, NEW d \in Devices
      PROVE  /\ mem[d].room => mem'[d].room
             /\ mem[d].wake => mem'[d].wake
             /\ mem[d].seen <= mem'[d].seen
             /\ mem[d].rendered <= mem'[d].rendered
  <2> USE <1>1 DEF StoreInv
  <2>1. /\ mem[d] \in StateType /\ now \in Nat
        /\ mem[d].seen \in Nat /\ mem[d].rendered \in Nat
        /\ mem[d].rendered <= mem[d].seen /\ mem[d].seen <= now
    BY TelemetryStoreAssumption DEF TypeOK, StateType, Time, RepaintsAreReported
  <2>2. CASE mem' = mem
    BY <2>1, <2>2
  <2>3. ASSUME NEW e \in Devices, NEW rendered \in BOOLEAN, Ingest(e, rendered)
        PROVE  /\ mem[d].room => mem'[d].room
               /\ mem[d].wake => mem'[d].wake
               /\ mem[d].seen <= mem'[d].seen
               /\ mem[d].rendered <= mem'[d].rendered
    <3> DEFINE paint == IF rendered THEN now' ELSE mem[e].rendered
               state == [mem[e] EXCEPT !.seen = now', !.rendered = paint, !.reported = TRUE]
    <3>1. mem' = [mem EXCEPT ![e] = state] /\ now' = now + 1
      BY <2>3 DEF Ingest
    <3>2. mem[e] \in StateType
      BY DEF TypeOK
    <3>3. /\ state.seen = now' /\ state.rendered = paint
          /\ state.room = mem[e].room /\ state.wake = mem[e].wake
      BY <3>2 DEF StateType
    <3>4. d = e => paint \in {now + 1, mem[d].rendered}
      BY <3>1
    <3> HIDE DEF state, paint
    <3>5. CASE d = e
      <4>1. mem'[d] = state
        BY <3>1, <3>5 DEF TypeOK
      <4>2. mem[d].seen <= now' /\ mem[d].rendered <= paint
        BY <2>1, <3>1, <3>4, <3>5
      <4> QED
        BY <3>3, <3>5, <4>1, <4>2
    <3>6. CASE d # e
      <4>1. mem'[d] = mem[d]
        BY <3>1, <3>6 DEF TypeOK
      <4> QED
        BY <2>1, <4>1
    <3> QED
      BY <3>5, <3>6
  <2>4. ASSUME NEW e \in Devices, SetRoomStatus(e) \/ SetExpectedWake(e)
        PROVE  /\ mem[d].room => mem'[d].room
               /\ mem[d].wake => mem'[d].wake
               /\ mem[d].seen <= mem'[d].seen
               /\ mem[d].rendered <= mem'[d].rendered
    <3>1. /\ mem'[d].seen = mem[d].seen /\ mem'[d].rendered = mem[d].rendered
          /\ mem[d].room => mem'[d].room
          /\ mem[d].wake => mem'[d].wake
      BY <2>1, <2>4 DEF SetRoomStatus, SetExpectedWake, TypeOK, StateType
    <3> QED
      BY <2>1, <3>1
  <2>5. ~Restart
    <3>1. restarts \in Nat
      BY TelemetryStoreAssumption DEF TypeOK
    <3> QED
      BY <3>1 DEF Restart
  <2>6. \/ mem' = mem
        \/ \E e \in Devices : \/ \E rendered \in BOOLEAN : Ingest(e, rendered)
                              \/ SetRoomStatus(e) \/ SetExpectedWake(e)
    BY <2>5 DEF Next, Post, StartSend, Send, Write, AppendRecord, AppendFails, WriterSeesDone,
                WriterStops, Stop, Close, CloseLocks, CloseQueue, CloseReturns
  <2> QED
    BY <2>2, <2>3, <2>4, <2>6
<1>2. StoreInv /\ [Next]_vars =>
        [\A d \in Devices : restarts' = restarts =>
            /\ mem[d].room => mem'[d].room
            /\ mem[d].wake => mem'[d].wake
            /\ mem[d].seen <= mem'[d].seen
            /\ mem[d].rendered <= mem'[d].rendered]_vars
  BY <1>1
<1> QED
  BY <1>2, StoreInvariant, PTL DEF Spec, OnlyRestartForgets
-----------------------------------------------------------------------------
(* The refinement of ReportBook.                                            *)

(* Nothing is under way that was not, if no report came in: what leaves its *)
(* POST goes to the queue, and what leaves the queue goes to the sink.      *)
LEMMA NothingComesBack ==
    ASSUME StoreInv, Next, ~Restart,
           \A d \in Devices, rendered \in BOOLEAN : ~Ingest(d, rendered)
    PROVE  Book!Fewer
<1> USE DEF StoreInv
<1>1. SUFFICES ASSUME NEW e \in Devices, NEW x \in Queued(e)' \cup Posted(e)'
               PROVE  x \in Queued(e) \cup Posted(e)
  BY DEF Underway, Book!Fewer
<1>2. CASE UNCHANGED <<queue, post>>
  BY <1>2 DEF Queued, Posted
<1>3. ASSUME NEW d \in Devices, StartSend(d)
      PROVE  x \in Queued(e) \cup Posted(e)
  <2>1. Queued(e)' = Queued(e)
    BY <1>3 DEF StartSend, Queued
  <2>2. PICK p \in {NoPost, [post[d] EXCEPT !.pc = "sending"]} :
           post' = [post EXCEPT ![d] = p] /\ post[d].pc = "stored"
    BY <1>3 DEF StartSend
  <2>3. Posted(e)' \subseteq Posted(e)
    <3>1. CASE e # d
      BY <2>2, <3>1 DEF Posted, TypeOK
    <3>2. CASE e = d
      <4>1. post'[d] = p
        BY <2>2 DEF TypeOK
      <4>2. post[d] \in PostType
        BY DEF TypeOK
      <4> QED
        BY <2>2, <3>2, <4>1, <4>2 DEF Posted, PostType, NoPost, Report
    <3> QED
      BY <3>1, <3>2
  <2> QED
    BY <1>1, <2>1, <2>3
<1>4. ASSUME NEW d \in Devices, Send(d)
      PROVE  x \in Queued(e) \cup Posted(e)
  <2>1. /\ post[d].pc = "sending" /\ post' = [post EXCEPT ![d] = NoPost]
        /\ queue' \in {queue, Append(queue, Record(d))}
    BY <1>4 DEF Send
  <2>2. CASE x \in Posted(e)'
    <3>1. e # d
      BY <2>1, <2>2 DEF Posted, TypeOK, NoPost
    <3> QED
      BY <2>1, <2>2, <3>1 DEF Posted, TypeOK
  <2>3. CASE x \in Queued(e)'
    <3>1. PICK i \in 1 .. Len(queue') : queue'[i].dev = e /\ x = Report(queue'[i])
      BY <2>3 DEF Queued
    <3>2. CASE queue' = queue
      BY <3>1, <3>2 DEF Queued
    <3>3. CASE queue' = Append(queue, Record(d))
      <4>1. post[d] \in PostType /\ Record(d) \in RecordType
        BY DEF TypeOK, PostType, RecordType, Record
      <4>2. /\ Len(queue') = Len(queue) + 1 /\ Len(queue) \in Nat
            /\ \A j \in 1 .. Len(queue) : queue'[j] = queue[j]
            /\ queue'[Len(queue) + 1] = Record(d)
        BY <3>3, <4>1, AppendFacts, QueueFacts
      <4>3. CASE i = Len(queue) + 1
        BY <2>1, <3>1, <4>2, <4>3 DEF Posted, Record, Report
      <4>4. CASE i \in 1 .. Len(queue)
        BY <3>1, <4>2, <4>4 DEF Queued
      <4> QED
        BY <4>2, <4>3, <4>4
    <3> QED
      BY <2>1, <3>2, <3>3
  <2> QED
    BY <1>1, <2>2, <2>3
<1>5. CASE AppendRecord \/ AppendFails
  <2>1. queue # <<>> /\ queue' = Tail(queue) /\ post' = post
    BY <1>5 DEF AppendRecord, AppendFails
  <2>2. CASE x \in Posted(e)'
    BY <2>1, <2>2 DEF Posted
  <2>3. CASE x \in Queued(e)'
    <3>1. PICK i \in 1 .. Len(queue') : queue'[i].dev = e /\ x = Report(queue'[i])
      BY <2>3 DEF Queued
    <3>2. i + 1 \in 1 .. Len(queue) /\ queue'[i] = queue[i + 1]
      BY <2>1, TailFacts
    <3> QED
      BY <3>1, <3>2 DEF Queued
  <2> QED
    BY <1>1, <2>2, <2>3
<1> QED
  BY <1>2, <1>3, <1>4, <1>5
     DEF Next, Post, SetRoomStatus, SetExpectedWake, Write, WriterSeesDone, WriterStops, Stop,
         Close, CloseLocks, CloseQueue, CloseReturns

(* A report that comes in is known at once and under way.                   *)
LEMMA IngestIsHeard ==
    ASSUME StoreInv, NEW d \in Devices, NEW rendered \in BOOLEAN, Ingest(d, rendered)
    PROVE  \E t \in Time : Book!Hear(d, t, rendered)
<1> USE DEF StoreInv
<1> DEFINE paint == IF rendered THEN now' ELSE mem[d].rendered
           report == [seen |-> now', rendered |-> paint]
           state == [mem[d] EXCEPT !.seen = now', !.rendered = paint, !.reported = TRUE]
           entry == [pc |-> "stored", seen |-> now', rendered |-> paint]
<1>1. /\ post[d].pc = "idle" /\ now' = now + 1 /\ now < MaxReports
      /\ mem' = [mem EXCEPT ![d] = state] /\ post' = [post EXCEPT ![d] = entry]
      /\ UNCHANGED <<queue, disk>>
  BY DEF Ingest
<1>2. now' \in Time /\ mem[d].seen < now'
  BY <1>1, TelemetryStoreAssumption DEF TypeOK, Time, RepaintsAreReported, StateType
<1>3. mem[d] \in StateType
  BY DEF TypeOK
<1>4. Report(state) = report /\ Report(entry) = report
  BY <1>3 DEF Report, StateType
<1>5. Known[d].seen = mem[d].seen /\ Known[d].rendered = mem[d].rendered
  BY DEF Known, Report
<1>6. Known' = [Known EXCEPT ![d] = report]
  <2>1. \A e \in Devices : mem'[e] = IF e = d THEN state ELSE mem[e]
    BY <1>1 DEF TypeOK
  <2> HIDE DEF state, report
  <2> QED
    BY <1>4, <2>1 DEF Known
<1>7. Underway' = [Underway EXCEPT ![d] = @ \cup {report}]
  <2>1. \A e \in Devices : post'[e] = IF e = d THEN entry ELSE post[e]
    BY <1>1 DEF TypeOK
  <2>2. \A e \in Devices : Queued(e)' = Queued(e)
    BY <1>1 DEF Queued
  <2>3. Posted(d) = {} /\ Posted(d)' = {report}
    <3>1. entry.pc # "idle"
      OBVIOUS
    <3> HIDE DEF entry, report
    <3> QED
      BY <1>1, <1>4, <2>1, <3>1 DEF Posted
  <2>4. \A e \in Devices : e # d => Posted(e)' = Posted(e)
    BY <2>1 DEF Posted
  <2> HIDE DEF report
  <2> QED
    BY <2>2, <2>3, <2>4 DEF Underway
<1> QED
  BY <1>1, <1>2, <1>5, <1>6, <1>7 DEF Book!Hear

(* The writer keeps what was at the head of the queue.                      *)
LEMMA AppendIsKept ==
    ASSUME StoreInv, AppendRecord, Book!Fewer
    PROVE  \E d \in Devices : Book!Keep(d)
<1> USE DEF StoreInv
<1> DEFINE h == queue[1]
           report == [seen |-> h.seen, rendered |-> h.rendered]
<1>1. queue # <<>> /\ disk' = [disk EXCEPT ![h.dev] = Row(disk[h.dev], h)] /\ mem' = mem
  BY TailFacts DEF AppendRecord
<1>2. 1 \in 1 .. Len(queue) /\ h.dev \in Devices /\ h.seen \in Nat /\ h.rendered \in Nat
  BY <1>1, TailFacts, QueueFacts
<1>3. disk' = [disk EXCEPT ![h.dev] = report]
  BY <1>1, HeadRow
<1>4. NotAfter(disk[h.dev], h)
  BY <1>2 DEF NewsInOrder
<1>5. report \in Underway[h.dev]
  BY <1>2 DEF Underway, Queued, Report
<1>6. report.seen >= disk[h.dev].seen /\ report.rendered >= disk[h.dev].rendered
  <2>1. disk[h.dev].seen \in Nat /\ disk[h.dev].rendered \in Nat
    BY <1>2, TelemetryStoreAssumption DEF TypeOK, RowType, Time
  <2> QED
    BY <1>2, <1>4, <2>1 DEF NotAfter
<1>7. UNCHANGED Known
  BY <1>1 DEF Known
<1> HIDE DEF report
<1>8. Book!Keep(h.dev)
  BY <1>3, <1>5, <1>6, <1>7 DEF Book!Keep
<1> QED
  BY <1>2, <1>8

(* A restart knows the rows and has nothing under way.                      *)
LEMMA RestartReads ==
    ASSUME StoreInv, Restart
    PROVE  Book!StartAgain
<1> USE DEF StoreInv
<1>1. disk' = disk /\ queue' = <<>> /\ post' = [d \in Devices |-> NoPost]
  BY DEF Restart
<1>2. \A d \in Devices : Underway'[d] = {}
  BY <1>1 DEF Underway, Queued, Posted, NoPost
<1>3. ASSUME NEW d \in Devices PROVE Report(mem'[d]) = disk[d]
  <2>1. disk[d] \in RowType /\ disk[d].rendered <= disk[d].seen
        /\ disk[d].rendered \in Nat /\ disk[d].seen \in Nat
    BY TelemetryStoreAssumption DEF TypeOK, RowType, Time, RepaintsAreReported
  <2>2. mem'[d].seen = disk[d].seen /\ mem'[d].rendered = disk[d].rendered
    BY <2>1 DEF Restart, Unknown
  <2> QED
    BY <2>1, <2>2 DEF Report, RowType
<1>4. Known' = disk
  BY <1>3 DEF Known, TypeOK
<1>5. Underway' = [d \in Devices |-> {}]
  BY <1>2 DEF Underway
<1> QED
  BY <1>1, <1>4, <1>5 DEF Book!StartAgain

(* The store implements ReportBook: what the sink keeps is a report that    *)
(* came in, whole, and a start knows just that (Ingest, Append, NewWithSink).*)
THEOREM StoreRefinesBook == Spec => StoreIsABook
<1>1. Init => Book!BookInit
  <2> SUFFICES ASSUME Init PROVE Book!BookInit
    OBVIOUS
  <2>1. \A d \in Devices : Report(mem[d]) = Book!NoReport
    BY DEF Init, Unknown, Report, Book!NoReport
  <2>2. \A d \in Devices : Queued(d) \cup Posted(d) = {}
    BY DEF Init, NoPost, Queued, Posted
  <2>3. disk = [d \in Devices |-> Book!NoReport]
    BY DEF Init, NoRow, Book!NoReport
  <2> QED
    BY <2>1, <2>2, <2>3 DEF Book!BookInit, Known, Underway
<1>2. StoreInv /\ [Next]_vars => [Book!BookNext]_(Book!book)
  <2> SUFFICES ASSUME StoreInv, [Next]_vars
               PROVE  Book!BookNext \/ UNCHANGED Book!book
    OBVIOUS
  <2>1. CASE UNCHANGED vars
    BY <2>1 DEF vars, Book!book, Known, Underway, Queued, Posted
  <2>2. CASE Restart
    BY <2>2, RestartReads DEF Book!BookNext
  <2>3. CASE \E d \in Devices, rendered \in BOOLEAN : Ingest(d, rendered)
    BY <2>3, IngestIsHeard DEF Book!BookNext
  <2>4. CASE Next /\ ~Restart /\ \A d \in Devices, rendered \in BOOLEAN : ~Ingest(d, rendered)
    <3>1. Book!Fewer
      BY <2>4, NothingComesBack
    <3>2. CASE AppendRecord
      BY <3>1, <3>2, AppendIsKept DEF Book!BookNext
    <3>3. CASE ~AppendRecord
      <4>1. disk' = disk /\ \A d \in Devices : Report(mem'[d]) = Report(mem[d])
        BY <2>4, <3>3 DEF Next, Post, StartSend, Send, SetRoomStatus, SetExpectedWake, Write,
               AppendFails, WriterSeesDone, WriterStops, Stop, Close, CloseLocks, CloseQueue,
               CloseReturns, StoreInv, TypeOK, StateType, Report
      <4>2. Known' = Known
        BY <4>1 DEF Known
      <4> QED
        BY <3>1, <4>1, <4>2 DEF Book!BookNext, Book!Lose
    <3> QED
      BY <3>2, <3>3
  <2> QED
    BY <2>1, <2>2, <2>3, <2>4
<1> QED
  BY <1>1, <1>2, StoreInvariant, PTL DEF Spec, StoreIsABook, Book!BookSpec
=============================================================================
