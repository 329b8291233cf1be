--------------------------- MODULE TelemetryStore ---------------------------
(***************************************************************************)
(* The telemetry store (telemetry.go) with a durable sink behind it        *)
(* (sqlite.go).  Ingest updates the latest report of a device in memory    *)
(* and hands a record to a bounded queue without ever waiting; one writer  *)
(* goroutine moves the queue to the sink.  When the broker stops, the      *)
(* writer sees ctx.Done and Close shuts the queue, while HTTP handlers are *)
(* still running: nothing stops the server.                                *)
(*                                                                         *)
(* Reports are told apart by the time they came in.  A device has one      *)
(* report under way at most: it posts once per wake and wakes are at least *)
(* a minute apart.                                                         *)
(***************************************************************************)
EXTENDS Naturals, Sequences, FiniteSets

CONSTANTS Devices,
          QueueSize,                 \* capacity of the channel (256 by default)
          MaxReports, MaxRestarts    \* bounds

ASSUME TelemetryStoreAssumption ==
    /\ IsFiniteSet(Devices)
    /\ QueueSize \in Nat \ {0}
    /\ MaxReports \in Nat
    /\ MaxRestarts \in Nat

VARIABLES mem,       \* Device -> state (Store.m)
          post,      \* Device -> its POST: step and the record to be queued
          queue,     \* the channel Store.q
          writer,    \* Run's goroutine: "running", "draining" or "stopped"
          closer,    \* Close: "no", "locked", "waiting" for the writer, "done"
          stopping,  \* ctx is done: the broker was told to stop
          disk,      \* Device -> its row of the devices table
          count,     \* what became of the reports since the start
          now, restarts

vars == <<mem, post, queue, writer, closer, stopping, disk, count, now, restarts>>

\* Time 0 is Go's zero time: never.
Unknown == [seen |-> 0, rendered |-> 0, reported |-> FALSE, room |-> FALSE, wake |-> FALSE]
NoPost == [pc |-> "idle", seen |-> 0, rendered |-> 0]
NoCount == [ingested |-> 0, written |-> 0, failed |-> 0, dropped |-> 0]
NoRow == [seen |-> 0, rendered |-> 0]

\* Close has closed the channel.
Closed == closer \in {"waiting", "done"}

Init ==
    /\ mem = [d \in Devices |-> Unknown]
    /\ post = [d \in Devices |-> NoPost]
    /\ queue = <<>>
    /\ writer = "running"
    /\ closer = "no"
    /\ stopping = FALSE
    /\ disk = [d \in Devices |-> NoRow]
    /\ count = NoCount
    /\ now = 0
    /\ restarts = 0

\* The record tells of its own report only, not of the last known repaint.
BugRecordOfThisReport(d, rendered) ==
    /\ post[d].pc = "idle"
    /\ now < MaxReports
    /\ now' = now + 1
    /\ mem' = [mem EXCEPT ![d] = [@ EXCEPT !.seen = now', !.reported = TRUE,
                                           !.rendered = IF rendered THEN now' ELSE @]]
    /\ post' = [post EXCEPT ![d] = [pc |-> "stored", seen |-> now',
                                    rendered |-> IF rendered THEN now' ELSE 0]]
    /\ count' = [count EXCEPT !.ingested = @ + 1]
    /\ UNCHANGED <<queue, writer, closer, stopping, disk, restarts>>

(* The first half of Ingest, under mu: the report replaces the last one;    *)
(* the time of the last repaint, the room's status and the expected wake    *)
(* are carried over.                                                        *)
Ingest(d, rendered) ==
    /\ post[d].pc = "idle"
    /\ now < MaxReports
    /\ now' = now + 1
    /\ LET paint == IF rendered THEN now' ELSE mem[d].rendered IN
           /\ mem' = [mem EXCEPT ![d] = [@ EXCEPT !.seen = now', !.rendered = paint,
                                                  !.reported = TRUE]]
           /\ post' = [post EXCEPT ![d] = [pc |-> "stored", seen |-> now', rendered |-> paint]]
    /\ count' = [count EXCEPT !.ingested = @ + 1]
    /\ UNCHANGED <<queue, writer, closer, stopping, disk, restarts>>

(* The second half takes closeMu for reading and looks whether the store is *)
(* closed: then the record is dropped and counted.                          *)
StartSend(d) ==
    /\ post[d].pc = "stored"
    /\ closer # "locked"
    /\ IF Closed
       THEN /\ post' = [post EXCEPT ![d] = NoPost]
            /\ count' = [count EXCEPT !.dropped = @ + 1]
       ELSE /\ post' = [post EXCEPT ![d].pc = "sending"]
            /\ UNCHANGED count
    /\ UNCHANGED <<mem, queue, writer, closer, stopping, disk, now, restarts>>

\* The record Ingest queues.  late (history) tells whether ctx was done then.
Record(d) == [dev |-> d, seen |-> post[d].seen, rendered |-> post[d].rendered,
              late |-> stopping]

\* The send waits for room in the queue, closeMu in hand.
BugSendBlocks(d) ==
    /\ post[d].pc = "sending"
    /\ Len(queue) < QueueSize
    /\ queue' = Append(queue, Record(d))
    /\ post' = [post EXCEPT ![d] = NoPost]
    /\ UNCHANGED <<mem, writer, closer, stopping, disk, count, now, restarts>>

(* The send that does not block: a full queue drops the record.             *)
Send(d) ==
    /\ post[d].pc = "sending"
    /\ IF Len(queue) < QueueSize
       THEN /\ queue' = Append(queue, Record(d))
            /\ UNCHANGED count
       ELSE /\ count' = [count EXCEPT !.dropped = @ + 1]
            /\ UNCHANGED queue
    /\ post' = [post EXCEPT ![d] = NoPost]
    /\ UNCHANGED <<mem, writer, closer, stopping, disk, now, restarts>>

(* SetRoomStatus: the poller, for every display, whether it ever reported   *)
(* or not.                                                                  *)
SetRoomStatus(d) ==
    /\ mem' = [mem EXCEPT ![d].room = TRUE]
    /\ UNCHANGED <<post, queue, writer, closer, stopping, disk, count, now, restarts>>

(* SetExpectedWake: the display handler, with the sleep it just sent. *)
SetExpectedWake(d) ==
    /\ mem' = [mem EXCEPT ![d].wake = TRUE]
    /\ UNCHANGED <<post, queue, writer, closer, stopping, disk, count, now, restarts>>

\* The arguments of COALESCE are swapped.
BugRowKeepsRepaint(row, rec) ==
    [seen |-> rec.seen,
     rendered |-> IF row.rendered # 0 THEN row.rendered ELSE rec.rendered]

(* SQLiteSink.Append: the devices row becomes the record's; a record that   *)
(* knows no repaint keeps the row's (COALESCE).                             *)
Row(row, rec) == [seen |-> rec.seen,
                  rendered |-> IF rec.rendered # 0 THEN rec.rendered ELSE row.rendered]

(* The writer takes the oldest record and the transaction commits. *)
AppendRecord ==
    /\ writer \in {"running", "draining"}
    /\ queue # <<>>
    /\ disk' = [disk EXCEPT ![Head(queue).dev] = Row(@, Head(queue))]
    /\ queue' = Tail(queue)
    /\ count' = [count EXCEPT !.written = @ + 1]
    /\ UNCHANGED <<mem, post, writer, closer, stopping, now, restarts>>

(* Append fails (a full disk): counted, logged, and the record is gone. *)
AppendFails ==
    /\ writer \in {"running", "draining"}
    /\ queue # <<>>
    /\ queue' = Tail(queue)
    /\ count' = [count EXCEPT !.failed = @ + 1]
    /\ UNCHANGED <<mem, post, writer, closer, stopping, disk, now, restarts>>

(* The writer's select picks ctx.Done, which it may do with records waiting. *)
WriterSeesDone ==
    /\ writer = "running"
    /\ stopping
    /\ writer' = "draining"
    /\ UNCHANGED <<mem, post, queue, closer, stopping, disk, count, now, restarts>>

(* The writer ends: it finds the queue empty while it drains, or empty and  *)
(* closed.                                                                  *)
WriterStops ==
    /\ queue = <<>>
    /\ writer = "draining" \/ (writer = "running" /\ Closed)
    /\ writer' = "stopped"
    /\ UNCHANGED <<mem, post, queue, closer, stopping, disk, count, now, restarts>>

(* SIGTERM, or the HTTP server fails: main cancels ctx and falls through to *)
(* the deferred Close.                                                      *)
Stop ==
    /\ ~stopping
    /\ stopping' = TRUE
    /\ UNCHANGED <<mem, post, queue, writer, closer, disk, count, now, restarts>>

\* Close does not wait for the sends under way.
BugCloseWithoutLock ==
    /\ stopping
    /\ closer = "no"
    /\ closer' = "locked"
    /\ UNCHANGED <<mem, post, queue, writer, stopping, disk, count, now, restarts>>

(* Close takes closeMu for writing: no send is under way. *)
CloseLocks ==
    /\ stopping
    /\ closer = "no"
    /\ \A d \in Devices : post[d].pc # "sending"
    /\ closer' = "locked"
    /\ UNCHANGED <<mem, post, queue, writer, stopping, disk, count, now, restarts>>

(* closed = true, close(q), and closeMu is free again. *)
CloseQueue ==
    /\ closer = "locked"
    /\ closer' = "waiting"
    /\ UNCHANGED <<mem, post, queue, writer, stopping, disk, count, now, restarts>>

(* wg.Wait returns, the sink is closed and main returns. *)
CloseReturns ==
    /\ closer = "waiting"
    /\ writer = "stopped"
    /\ closer' = "done"
    /\ UNCHANGED <<mem, post, queue, writer, stopping, disk, count, now, restarts>>

(* The process ends, after Close or in a crash, and starts again: the sink  *)
(* fills the memory (NewWithSink); what is not in a record is unknown until *)
(* the poller's first tick and the device's next fetch.                     *)
Restart ==
    /\ restarts < MaxRestarts
    /\ mem' = [d \in Devices |->
                  IF disk[d].seen = 0 THEN Unknown
                  ELSE [seen |-> disk[d].seen, rendered |-> disk[d].rendered,
                        reported |-> TRUE, room |-> FALSE, wake |-> FALSE]]
    /\ post' = [d \in Devices |-> NoPost]
    /\ queue' = <<>>
    /\ writer' = "running"
    /\ closer' = "no"
    /\ stopping' = FALSE
    /\ count' = NoCount
    /\ restarts' = restarts + 1
    /\ UNCHANGED <<disk, now>>

Post(d) == StartSend(d) \/ Send(d)
Write == AppendRecord \/ AppendFails \/ WriterSeesDone \/ WriterStops
Close == CloseLocks \/ CloseQueue \/ CloseReturns

Running == closer # "done"      \* main has not returned

Next ==
    \/ /\ Running
       /\ \/ \E d \in Devices :
                \/ \E rendered \in BOOLEAN : Ingest(d, rendered)
                \/ Post(d)
                \/ SetRoomStatus(d)
                \/ SetExpectedWake(d)
          \/ Write
          \/ Stop
          \/ Close
    \/ Restart

Spec == Init /\ [][Next]_vars

(* Go runs the handlers, the writer and main.  A Close that waits for       *)
(* closeMu lets no new reader in, so it gets the lock once those inside are *)
(* done: strong fairness.                                                   *)
Fairness ==
    /\ \A d \in Devices : WF_vars(Running /\ Post(d))
    /\ WF_vars(Running /\ Write)
    /\ WF_vars(CloseQueue \/ CloseReturns)
    /\ SF_vars(CloseLocks)

FairSpec == Spec /\ Fairness

-----------------------------------------------------------------------------
Time == 0 .. MaxReports
StateType == [seen : Time, rendered : Time, reported : BOOLEAN, room : BOOLEAN, wake : BOOLEAN]
PostType == [pc : {"idle", "stored", "sending"}, seen : Time, rendered : Time]
RecordType == [dev : Devices, seen : Time, rendered : Time, late : BOOLEAN]
RowType == [seen : Time, rendered : Time]

(* Type invariant of the store's state. *)
TypeOK ==
    /\ mem \in [Devices -> StateType]
    /\ post \in [Devices -> PostType]
    /\ queue \in Seq(RecordType)
    /\ Len(queue) <= QueueSize
    /\ writer \in {"running", "draining", "stopped"}
    /\ closer \in {"no", "locked", "waiting", "done"}
    /\ stopping \in BOOLEAN
    /\ disk \in [Devices -> RowType]
    /\ count \in [{"ingested", "written", "failed", "dropped"} -> Nat]
    /\ now \in Time
    /\ restarts \in 0 .. MaxRestarts

(* A send and the closing of the channel exclude each other (closeMu): a    *)
(* send on a closed channel would panic in a device's POST.                 *)
NoSendAfterClose == closer # "no" => \A d \in Devices : post[d].pc # "sending"

(* The writer leaves and Close begins only once ctx is done. *)
StoppingFirst == writer # "running" \/ closer # "no" => stopping

(* a tells no later news of a device than b, nor other news of the same     *)
(* report; a and b are records, rows or states in memory.                   *)
NotAfter(a, b) ==
    /\ a.seen <= b.seen
    /\ a.rendered <= b.rendered
    /\ a.seen = b.seen => a.rendered = b.rendered

(* A repaint is reported by the report that followed it, and no report is   *)
(* from the future.                                                         *)
RepaintsAreReported ==
    /\ \A d \in Devices : /\ mem[d].rendered <= mem[d].seen
                          /\ mem[d].seen <= now
                          /\ disk[d].rendered <= disk[d].seen
    /\ \A i \in 1 .. Len(queue) : queue[i].rendered <= queue[i].seen

(* A device has one POST at a time, so its record is the latest there is.   *)
PostIsLatest ==
    \A d \in Devices : post[d].pc # "idle" => /\ post[d].seen = mem[d].seen
                                             /\ post[d].rendered = mem[d].rendered

(* What the store knows of a device is in order on its way: the row, then   *)
(* the records from the head of the queue to its end, then the memory.      *)
NewsInOrder ==
    /\ \A d \in Devices : NotAfter(disk[d], mem[d])
    /\ \A i \in 1 .. Len(queue) :
          /\ NotAfter(disk[queue[i].dev], queue[i])
          /\ NotAfter(queue[i], mem[queue[i].dev])
          /\ \A j \in 1 .. Len(queue) :
                i < j /\ queue[j].dev = queue[i].dev => NotAfter(queue[i], queue[j])

(* No report vanishes without a trace: each is written, counted as failed   *)
(* or dropped, or still under way (in its POST or in the queue).            *)
EveryReportAccounted ==
    count.ingested = count.written + count.failed + count.dropped + Len(queue)
                     + Cardinality({d \in Devices : post[d].pc # "idle"})

(* A device counts as having reported exactly when a report of it is known, *)
(* before or after a restart, whatever the poller and the display handler   *)
(* stored about it: a display that never phoned home shows no battery.      *)
ReportedMeansSeen ==
    \A d \in Devices : mem[d].reported <=> mem[d].seen # 0

(* The sink is never ahead of the memory, a restart included: a report that *)
(* reached the disk is one the broker knows of.                             *)
DiskBehindMemory ==
    \A d \in Devices : /\ disk[d].seen <= mem[d].seen
                       /\ disk[d].rendered <= mem[d].rendered

(* When the device's latest report is the one on disk, its last repaint is  *)
(* on disk too, even if the report of that repaint was dropped: records     *)
(* carry the last known repaint.                                            *)
LatestReportCarriesRepaint ==
    \A d \in Devices : disk[d].seen = mem[d].seen => disk[d].rendered = mem[d].rendered

(* "Drain whatever is already queued before exiting": what the writer left  *)
(* behind was queued after the broker was told to stop.                     *)
DrainLeavesLateOnly ==
    writer = "stopped" => \A i \in 1 .. Len(queue) : queue[i].late

(* The inductive invariant. *)
StoreInv ==
    /\ TypeOK
    /\ NoSendAfterClose
    /\ StoppingFirst
    /\ RepaintsAreReported
    /\ PostIsLatest
    /\ NewsInOrder
    /\ EveryReportAccounted
    /\ ReportedMeansSeen
    /\ DrainLeavesLateOnly

(* A row of the devices table is only replaced by a later one. *)
DiskNeverGoesBack ==
    [][\A d \in Devices : /\ disk'[d].seen >= disk[d].seen
                          /\ disk'[d].rendered >= disk[d].rendered]_vars

(* Only a restart forgets: a report does not lose what the poller and the   *)
(* display handler stored, nor do they lose the report.                     *)
OnlyRestartForgets ==
    [][\A d \in Devices : restarts' = restarts =>
          /\ mem[d].room => mem'[d].room
          /\ mem[d].wake => mem'[d].wake
          /\ mem[d].seen <= mem'[d].seen
          /\ mem[d].rendered <= mem'[d].rendered]_vars

(* What a report of a device is to the next start: known in memory, in its  *)
(* POST or in the queue, in the sink.                                       *)
Report(r) == [seen |-> r.seen, rendered |-> r.rendered]
Queued(d) == {Report(queue[i]) : i \in {i \in 1 .. Len(queue) : queue[i].dev = d}}
Posted(d) == IF post[d].pc = "idle" THEN {} ELSE {Report(post[d])}

Known == [d \in Devices |-> Report(mem[d])]
Underway == [d \in Devices |-> Queued(d) \cup Posted(d)]

Book == INSTANCE ReportBook WITH
    Times <- Time, known <- Known, underway <- Underway, kept <- disk

(* The store keeps book of the reports: a row is a report that came in,     *)
(* never parts of two, and never an older one than before; a restart knows  *)
(* all of the rows and nothing else (NewWithSink, SQLiteSink.LoadLatest).   *)
StoreIsABook == Book!BookSpec

(* A stop ends: Close returns, whatever POSTs, full queues and failing      *)
(* writes it meets, unless the process is killed first.                     *)
StopEnds == stopping ~> (closer = "done" \/ ~stopping)
=============================================================================
