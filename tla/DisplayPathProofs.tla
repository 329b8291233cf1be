-------------------------- MODULE DisplayPathProofs --------------------------
(***************************************************************************)
(* Proofs about RoomPoller and, on top of them, about DisplayPath, for any *)
(* devices, rooms, contents and bounds.                                    *)
(*                                                                         *)
(* The poller: a goroutine owns the displays left to it, so nobody else    *)
(* writes their cache entries while it holds an answer (WorkersAreDisjoint *)
(* and WorkersAreNotBehind); calendars only grow (EntriesAreGenuine), so   *)
(* an answer is never behind what was published before it was asked for.   *)
(*                                                                         *)
(* The path to the panel, for a true 304: RTC memory names the frame on    *)
(* the panel or none (Remembered), what a device asks about is what RTC    *)
(* memory named when it woke, and it does not paint while it waits.        *)
(***************************************************************************)
EXTENDS DisplayPath, TLAPS

-----------------------------------------------------------------------------
(* The poller (RoomPoller).                                                 *)

(* The initial state satisfies the inductive invariant: nothing is cached   *)
(* and Run has not started its first tick.                                  *)
LEMMA InitInv == Init => PollerInv
<1> SUFFICES ASSUME Init PROVE PollerInv
  OBVIOUS
<1> USE RoomPollerAssumption DEF Init
<1>1. TypeOK
  <2>1. ASSUME NEW r \in Rooms
        PROVE  calendar[r] \in Seq(Contents) /\ Len(calendar[r]) = 1
    <3>1. PICK c \in Contents : calendar[r] = <<c>>
      OBVIOUS
    <3> HIDE DEF Init
    <3>2. <<c>> \in Seq(Contents) /\ Len(<<c>>) = 1
      OBVIOUS
    <3> QED
      BY <3>1, <3>2
  <2>2. calendar \in [Rooms -> Seq(Contents)]
    BY <2>1
  <2>3. cache \in [Devices -> Entry]
    BY DEF NoEntry, Entry
  <2>4. tick \in [running : BOOLEAN, rooms : Assignments, todo : SUBSET Rooms]
    BY DEF Assignments
  <2>5. workers \in SUBSET Worker /\ config \in Assignments /\ writes \in Nat /\ restarts \in Nat
    OBVIOUS
  <2>6. 1 \in 1..MaxVersion
    OBVIOUS
  <2> QED
    BY <2>1, <2>2, <2>3, <2>4, <2>5, <2>6 DEF TypeOK
<1>2. WorkersAreDisjoint
  BY DEF WorkersAreDisjoint
<1>3. EntriesAreGenuine
  BY DEF EntriesAreGenuine, NoEntry
<1>4. WorkersAreNotBehind
  BY DEF WorkersAreNotBehind
<1> QED
  BY <1>1, <1>2, <1>3, <1>4 DEF PollerInv

(* Append keeps the old entries of a sequence where they were.              *)
LEMMA AppendFacts ==
    ASSUME NEW S, NEW s \in Seq(S), NEW e \in S
    PROVE  /\ Append(s, e) \in Seq(S)
           /\ Len(Append(s, e)) = Len(s) + 1
           /\ Len(s) \in Nat
           /\ \A i \in 1..Len(s) : Append(s, e)[i] = s[i] /\ s[i] \in S
  OBVIOUS

(* A goroutine that moves on replaces itself and touches no other.          *)
LEMMA BecomeFacts ==
    ASSUME NEW w, NEW new \in Worker, workers \in SUBSET Worker, Become(w, new)
    PROVE  /\ workers' \in SUBSET Worker
           /\ \A x \in workers' : (x \in workers /\ x # w) \/ (x = new /\ new.left # {})
  BY DEF Become

(* CalendarChange only appends: what was genuine stays genuine.             *)
LEMMA CalendarChangeInv ==
    ASSUME PollerInv, NEW r \in Rooms, CalendarChange(r)
    PROVE  PollerInv'
<1> USE RoomPollerAssumption DEF PollerInv
<1>1. PICK c \in Contents : calendar' = [calendar EXCEPT ![r] = Append(@, c)]
  BY DEF CalendarChange
<1>2. UNCHANGED <<config, cache, tick, workers, writes, restarts>>
  BY DEF CalendarChange
<1>3. \A q \in Rooms : /\ calendar'[q] \in Seq(Contents)
                       /\ Len(calendar[q]) \in Nat
                       /\ Len(calendar'[q]) >= Len(calendar[q])
                       /\ Len(calendar'[q]) <= MaxVersion
                       /\ \A i \in 1..Len(calendar[q]) : calendar'[q][i] = calendar[q][i]
  <2> SUFFICES ASSUME NEW q \in Rooms
               PROVE  /\ calendar'[q] \in Seq(Contents)
                      /\ Len(calendar[q]) \in Nat
                      /\ Len(calendar'[q]) >= Len(calendar[q])
                      /\ Len(calendar'[q]) <= MaxVersion
                      /\ \A i \in 1..Len(calendar[q]) : calendar'[q][i] = calendar[q][i]
    OBVIOUS
  <2>1. calendar[q] \in Seq(Contents) /\ Len(calendar[q]) \in 1..MaxVersion
    BY DEF TypeOK
  <2>2. CASE q = r
    <3>1. calendar'[q] = Append(calendar[q], c)
      BY <1>1, <2>2 DEF TypeOK
    <3>2. Len(calendar[q]) < MaxVersion
      BY <2>2 DEF CalendarChange
    <3> HIDE DEF PollerInv
    <3> QED
      BY <3>1, <3>2, <2>1, AppendFacts
  <2>3. CASE q # r
    BY <2>1, <2>3, <1>1 DEF TypeOK
  <2> QED
    BY <2>2, <2>3
<1>4. TypeOK'
  BY <1>1, <1>2, <1>3 DEF TypeOK
<1>5. WorkersAreDisjoint'
  BY <1>2 DEF WorkersAreDisjoint, Group
<1>6. EntriesAreGenuine'
  <2>1. ASSUME NEW d \in Devices, cache[d].version # 0
        PROVE  /\ cache[d].room \in Rooms
               /\ cache[d].version <= Len(calendar'[cache[d].room])
               /\ cache[d].content = calendar'[cache[d].room][cache[d].version]
    <3>1. cache[d].room \in Rooms /\ cache[d].version \in 1..Len(calendar[cache[d].room])
      BY <2>1, <1>3 DEF EntriesAreGenuine, TypeOK, Entry
    <3> QED
      BY <3>1, <2>1, <1>3 DEF EntriesAreGenuine
  <2>2. ASSUME NEW w \in workers, w.st = "publishing"
        PROVE  w.version \in 1..Len(calendar'[w.room])
    <3>1. w.room \in Rooms /\ w.version \in 1..Len(calendar[w.room])
      BY <2>2 DEF EntriesAreGenuine, TypeOK, Worker
    <3> QED
      BY <3>1, <1>3
  <2> QED
    BY <2>1, <2>2, <1>2 DEF EntriesAreGenuine
<1>7. WorkersAreNotBehind'
  BY <1>2 DEF WorkersAreNotBehind
<1> QED
  BY <1>4, <1>5, <1>6, <1>7

(* An admin's write does not touch what the tick works from, its snapshot.  *)
LEMMA ConfigWriteInv ==
    ASSUME PollerInv, NEW d \in Devices, NEW r \in Rooms \cup {NoRoom}, ConfigWrite(d, r)
    PROVE  PollerInv'
<1>1. TypeOK'
  BY DEF PollerInv, TypeOK, ConfigWrite, Assignments
<1> QED
  BY <1>1 DEF PollerInv, ConfigWrite, WorkersAreDisjoint, EntriesAreGenuine,
              WorkersAreNotBehind, Group

(* A tick starts when the last one has ended, so with no goroutine running. *)
LEMMA StartTickInv ==
    ASSUME PollerInv, StartTick
    PROVE  PollerInv'
<1>1. workers = {}
  BY DEF PollerInv, WorkersAreDisjoint, StartTick
<1>2. TypeOK'
  <2>1. {config[d] : d \in Devices} \ {NoRoom} \in SUBSET Rooms
    BY DEF PollerInv, TypeOK, Assignments
  <2> QED
    BY <2>1 DEF PollerInv, TypeOK, StartTick
<1>3. \A r \in tick'.todo : Group(tick'.rooms, r) # {}
  BY DEF StartTick, Group
<1>4. WorkersAreDisjoint'
  BY <1>1, <1>3 DEF PollerInv, StartTick, WorkersAreDisjoint
<1> QED
  BY <1>1, <1>2, <1>4 DEF PollerInv, StartTick, EntriesAreGenuine, WorkersAreNotBehind

(* The new goroutine's room was waiting for one, so it has no other.        *)
LEMMA SpawnInv ==
    ASSUME PollerInv, NEW r \in Rooms, Spawn(r)
    PROVE  PollerInv'
<1> DEFINE new == [room |-> r, st |-> "fetching", version |-> 0, left |-> Group(tick.rooms, r)]
<1>1. new \in Worker
  BY DEF Worker, Group
<1>2. /\ tick' = [tick EXCEPT !.todo = @ \ {r}]
      /\ workers' = workers \cup {new}
      /\ UNCHANGED <<calendar, config, cache, writes, restarts>>
      /\ r \in tick.todo
  BY DEF Spawn
<1>3. TypeOK'
  BY <1>1, <1>2 DEF PollerInv, TypeOK
<1>4. /\ tick'.rooms = tick.rooms
      /\ tick'.running = tick.running
      /\ tick'.todo = tick.todo \ {r}
      /\ tick.running
      /\ new.left # {}
  <2>1. tick.running
    BY <1>2 DEF PollerInv, WorkersAreDisjoint
  <2> QED
    BY <1>2, <2>1 DEF PollerInv, TypeOK, WorkersAreDisjoint
<1>5. WorkersAreDisjoint'
  <2>1. new.room = r /\ new.left = Group(tick.rooms, r) /\ new.st = "fetching"
    OBVIOUS
  <2> HIDE DEF new
  <2>2. \A w \in workers : w.room # r
    BY <1>2 DEF PollerInv, WorkersAreDisjoint
  <2>3. \A w \in workers' : /\ w.left # {}
                            /\ w.left \subseteq Group(tick'.rooms, w.room)
                            /\ w.room \notin tick'.todo
    BY <1>2, <1>4, <2>1 DEF PollerInv, WorkersAreDisjoint
  <2>4. \A w1, w2 \in workers' : w1.room = w2.room => w1 = w2
    BY <1>2, <2>1, <2>2 DEF PollerInv, WorkersAreDisjoint
  <2> QED
    BY <2>3, <2>4, <1>4 DEF PollerInv, WorkersAreDisjoint
<1>6. EntriesAreGenuine' /\ WorkersAreNotBehind'
  BY <1>2 DEF PollerInv, EntriesAreGenuine, WorkersAreNotBehind
<1> QED
  BY <1>3, <1>5, <1>6 DEF PollerInv

(* The answer is the calendar's latest version: no display can be ahead.    *)
LEMMA FetchAnsweredInv ==
    ASSUME PollerInv, NEW w \in workers, FetchAnswered(w)
    PROVE  PollerInv'
<1> DEFINE new == [w EXCEPT !.st = "publishing", !.version = Len(calendar[w.room])]
<1>1. /\ Become(w, new)
      /\ UNCHANGED <<calendar, config, cache, tick, writes, restarts>>
  BY DEF FetchAnswered
<1>2. w \in Worker
  BY DEF PollerInv, TypeOK
<1>3. Len(calendar[w.room]) \in Nat \ {0}
  BY <1>2, RoomPollerAssumption DEF PollerInv, TypeOK, Worker
<1>4. /\ new \in Worker
      /\ new.room = w.room
      /\ new.left = w.left
      /\ new.version = Len(calendar[w.room])
  BY <1>2, <1>3 DEF Worker
<1>5. /\ workers' \in SUBSET Worker
      /\ \A x \in workers' : (x \in workers /\ x # w) \/ (x = new /\ new.left # {})
  <2> HIDE DEF new
  <2> QED
    BY <1>1, <1>4, BecomeFacts DEF PollerInv, TypeOK
<1> HIDE DEF new
<1>6. TypeOK'
  BY <1>1, <1>5 DEF PollerInv, TypeOK
<1>7. WorkersAreDisjoint'
  BY <1>1, <1>4, <1>5 DEF PollerInv, WorkersAreDisjoint, Group
<1>8. EntriesAreGenuine'
  BY <1>1, <1>3, <1>4, <1>5 DEF PollerInv, EntriesAreGenuine
<1>9. WorkersAreNotBehind'
  <2>1. ASSUME NEW d \in Devices, cache[d].room = w.room
        PROVE  cache[d].version <= Len(calendar[w.room])
    BY <2>1, <1>3 DEF PollerInv, TypeOK, Entry, EntriesAreGenuine
  <2> QED
    BY <2>1, <1>1, <1>4, <1>5 DEF PollerInv, TypeOK, Worker, WorkersAreNotBehind
<1> QED
  BY <1>6, <1>7, <1>8, <1>9 DEF PollerInv

(* A failed fetch leaves an old goroutine with nothing to publish.          *)
LEMMA FetchFailedInv ==
    ASSUME PollerInv, NEW w \in workers, FetchFailed(w)
    PROVE  PollerInv'
<1> DEFINE new == [w EXCEPT !.st = "failing"]
<1>1. /\ Become(w, new)
      /\ UNCHANGED <<calendar, config, cache, tick, writes, restarts>>
  BY DEF FetchFailed
<1>2. /\ new \in Worker
      /\ new.room = w.room
      /\ new.left = w.left
      /\ new.st = "failing"
  BY DEF PollerInv, TypeOK, Worker
<1>3. /\ workers' \in SUBSET Worker
      /\ \A x \in workers' : (x \in workers /\ x # w) \/ (x = new /\ new.left # {})
  <2> HIDE DEF new
  <2> QED
    BY <1>1, <1>2, BecomeFacts DEF PollerInv, TypeOK
<1> HIDE DEF new
<1>4. TypeOK'
  BY <1>1, <1>3 DEF PollerInv, TypeOK
<1>5. WorkersAreDisjoint'
  BY <1>1, <1>2, <1>3 DEF PollerInv, WorkersAreDisjoint, Group
<1>6. EntriesAreGenuine' /\ WorkersAreNotBehind'
  BY <1>1, <1>2, <1>3 DEF PollerInv, EntriesAreGenuine, WorkersAreNotBehind
<1> QED
  BY <1>4, <1>5, <1>6 DEF PollerInv

(* A goroutine is done with the display it just updated: the others keep    *)
(* the invariant because that display is left to no one else.               *)
LEMMA OneLessLeft ==
    ASSUME PollerInv, NEW w \in workers, NEW d \in w.left,
           Become(w, [w EXCEPT !.left = @ \ {d}]), UNCHANGED tick
    PROVE  /\ workers' \in SUBSET Worker
           /\ WorkersAreDisjoint'
           /\ \A x \in workers' : \E y \in workers :
                  /\ x.room = y.room /\ x.st = y.st /\ x.version = y.version
                  /\ x.left \subseteq y.left /\ d \notin x.left
<1> DEFINE new == [w EXCEPT !.left = @ \ {d}]
<1>1. /\ new \in Worker
      /\ new.room = w.room
      /\ new.st = w.st
      /\ new.version = w.version
      /\ new.left = w.left \ {d}
  BY DEF PollerInv, TypeOK, Worker
<1>2. Become(w, new)
  OBVIOUS
<1> HIDE DEF new
<1>3. /\ workers' \in SUBSET Worker
      /\ \A x \in workers' : (x \in workers /\ x # w) \/ (x = new /\ new.left # {})
  BY <1>1, <1>2, BecomeFacts DEF PollerInv, TypeOK
<1>4. WorkersAreDisjoint'
  BY <1>1, <1>3 DEF PollerInv, WorkersAreDisjoint, Group
<1>5. \A x \in workers : x # w => d \notin x.left
  BY DEF PollerInv, WorkersAreDisjoint, Group
<1>6. ASSUME NEW x \in workers'
      PROVE  \E y \in workers : /\ x.room = y.room /\ x.st = y.st /\ x.version = y.version
                                /\ x.left \subseteq y.left /\ d \notin x.left
  <2>1. CASE x \in workers /\ x # w
    BY <2>1, <1>5
  <2>2. CASE x = new
    BY <2>2, <1>1
  <2> QED
    BY <2>1, <2>2, <1>3
<1> QED
  BY <1>3, <1>4, <1>6

(* What a publication stores: the version of the answer, rendered.          *)
LEMMA PublishedEntry ==
    ASSUME PollerInv, NEW w \in workers, NEW d \in Devices, Publish(w, d)
    PROVE  /\ w.room \in Rooms /\ w.version \in 1..Len(calendar[w.room])
           /\ cache'[d] \in Entry
           /\ cache'[d].room = w.room /\ cache'[d].version = w.version
           /\ cache'[d].content = calendar[w.room][w.version]
           /\ \A e \in Devices : e # d => cache'[e] = cache[e]
           /\ cache' \in [Devices -> Entry]
<1>1. w.room \in Rooms /\ w.version \in 1..Len(calendar[w.room])
  BY DEF PollerInv, TypeOK, Worker, EntriesAreGenuine, Publish
<1>2. Len(calendar[w.room]) \in Nat /\ calendar[w.room][w.version] \in Contents
  <2>1. calendar[w.room] \in Seq(Contents)
    BY <1>1 DEF PollerInv, TypeOK
  <2> QED
    BY <2>1, <1>1
<1>3. cache' = [cache EXCEPT ![d] = Render(w.room, w.version)]
  BY DEF Publish, Stored
<1>4. Render(w.room, w.version) \in Entry
  BY <1>1, <1>2 DEF Render, Entry
<1>5. cache \in [Devices -> Entry]
  BY DEF PollerInv, TypeOK
<1> QED
  BY <1>1, <1>3, <1>4, <1>5 DEF Render

(* Publishing: the entry gets the version of the answer, which is genuine.  *)
LEMMA PublishInv ==
    ASSUME PollerInv, NEW w \in workers, NEW d \in w.left, Publish(w, d)
    PROVE  PollerInv'
<1>1. /\ Become(w, [w EXCEPT !.left = @ \ {d}])
      /\ UNCHANGED <<calendar, config, tick, writes, restarts>>
      /\ d \in Devices
  BY DEF Publish, PollerInv, TypeOK, Worker
<1>2. /\ workers' \in SUBSET Worker
      /\ WorkersAreDisjoint'
      /\ \A x \in workers' : \E y \in workers :
             /\ x.room = y.room /\ x.st = y.st /\ x.version = y.version
             /\ x.left \subseteq y.left /\ d \notin x.left
  BY <1>1, OneLessLeft
<1>3. /\ w.room \in Rooms /\ w.version \in 1..Len(calendar[w.room])
      /\ cache'[d].room = w.room /\ cache'[d].version = w.version
      /\ cache'[d].content = calendar[w.room][w.version]
      /\ \A e \in Devices : e # d => cache'[e] = cache[e]
      /\ cache' \in [Devices -> Entry]
  BY <1>1, PublishedEntry
<1>4. TypeOK'
  BY <1>1, <1>2, <1>3 DEF PollerInv, TypeOK
<1>5. EntriesAreGenuine'
  <2>1. ASSUME NEW e \in Devices, cache'[e].version # 0
        PROVE  /\ cache'[e].room \in Rooms
               /\ cache'[e].version <= Len(calendar'[cache'[e].room])
               /\ cache'[e].content = calendar'[cache'[e].room][cache'[e].version]
    <3>1. CASE e = d
      BY <3>1, <1>1, <1>3
    <3>2. CASE e # d
      BY <3>2, <2>1, <1>1, <1>3 DEF PollerInv, EntriesAreGenuine
    <3> QED
      BY <3>1, <3>2
  <2>2. ASSUME NEW x \in workers', x.st = "publishing"
        PROVE  x.version \in 1..Len(calendar'[x.room])
    BY <2>2, <1>1, <1>2 DEF PollerInv, EntriesAreGenuine
  <2> QED
    BY <2>1, <2>2 DEF EntriesAreGenuine
<1>6. WorkersAreNotBehind'
  <2> SUFFICES ASSUME NEW x \in workers', x.st = "publishing",
                      NEW e \in x.left, e \in Devices, cache'[e].room = x.room
               PROVE  cache'[e].version <= x.version
    BY <1>2 DEF WorkersAreNotBehind, Worker
  <2>1. PICK y \in workers : /\ x.room = y.room /\ x.st = y.st /\ x.version = y.version
                             /\ x.left \subseteq y.left /\ d \notin x.left
    BY <1>2
  <2>2. cache'[e] = cache[e]
    BY <2>1, <1>3
  <2> QED
    BY <2>1, <2>2 DEF PollerInv, WorkersAreNotBehind
<1> QED
  BY <1>2, <1>4, <1>5, <1>6 DEF PollerInv

(* SetError changes nothing the invariant reads.                            *)
LEMMA RecordErrorInv ==
    ASSUME PollerInv, NEW w \in workers, NEW d \in w.left, RecordError(w, d)
    PROVE  PollerInv'
<1>1. /\ Become(w, [w EXCEPT !.left = @ \ {d}])
      /\ UNCHANGED <<calendar, config, tick, writes, restarts>>
      /\ d \in Devices
      /\ cache' = [cache EXCEPT ![d] = WithError(@)]
      /\ cache \in [Devices -> Entry]
  BY DEF RecordError, PollerInv, TypeOK, Worker
<1>2. /\ workers' \in SUBSET Worker
      /\ WorkersAreDisjoint'
      /\ \A x \in workers' : \E y \in workers :
             /\ x.room = y.room /\ x.st = y.st /\ x.version = y.version
             /\ x.left \subseteq y.left /\ d \notin x.left
  BY <1>1, OneLessLeft
<1>3. \A e \in Devices : /\ cache'[e] \in Entry
                         /\ cache'[e].room = cache[e].room
                         /\ cache'[e].version = cache[e].version
                         /\ cache'[e].content = cache[e].content
  BY <1>1 DEF Entry, WithError
<1>4. cache' \in [Devices -> Entry]
  BY <1>1, <1>3
<1>5. TypeOK'
  BY <1>1, <1>2, <1>4 DEF PollerInv, TypeOK
<1>6. EntriesAreGenuine'
  BY <1>1, <1>2, <1>3 DEF PollerInv, EntriesAreGenuine
<1>7. WorkersAreNotBehind'
  <2> SUFFICES ASSUME NEW x \in workers', x.st = "publishing",
                      NEW e \in x.left, e \in Devices, cache'[e].room = x.room
               PROVE  cache'[e].version <= x.version
    BY <1>2 DEF WorkersAreNotBehind, Worker
  <2> QED
    BY <1>2, <1>3 DEF PollerInv, WorkersAreNotBehind
<1> QED
  BY <1>2, <1>5, <1>6, <1>7 DEF PollerInv

(* wg.Wait has returned: the end of a tick leaves no goroutine behind.       *)
LEMMA EndTickInv ==
    ASSUME PollerInv, EndTick
    PROVE  PollerInv'
<1>1. TypeOK'
  BY DEF PollerInv, TypeOK, EndTick
<1>2. tick'.todo = {} /\ workers' = {}
  BY DEF PollerInv, TypeOK, EndTick
<1> QED
  BY <1>1, <1>2 DEF PollerInv, EndTick, WorkersAreDisjoint, EntriesAreGenuine,
                    WorkersAreNotBehind

(* A restart empties the cache and takes every goroutine with it.           *)
LEMMA RestartInv ==
    ASSUME PollerInv, Restart
    PROVE  PollerInv'
<1>1. NoEntry \in Entry
  BY DEF NoEntry, Entry
<1>2. TypeOK'
  BY <1>1 DEF PollerInv, TypeOK, Restart, Assignments
<1> QED
  BY <1>2 DEF PollerInv, Restart, WorkersAreDisjoint, EntriesAreGenuine,
              WorkersAreNotBehind, NoEntry

(* Every step keeps the invariant.                                          *)
LEMMA StepInv == PollerInv /\ [PollerNext]_pollerVars => PollerInv'
<1> SUFFICES ASSUME PollerInv, [PollerNext]_pollerVars
             PROVE  PollerInv'
  OBVIOUS
<1>1. ASSUME NEW r \in Rooms, CalendarChange(r) PROVE PollerInv'
  BY <1>1, CalendarChangeInv
<1>2. ASSUME NEW r \in Rooms, Spawn(r) PROVE PollerInv'
  BY <1>2, SpawnInv
<1>3. ASSUME NEW d \in Devices, NEW r \in Rooms \cup {NoRoom}, ConfigWrite(d, r)
      PROVE  PollerInv'
  BY <1>3, ConfigWriteInv
<1>4. CASE StartTick
  BY <1>4, StartTickInv
<1>5. ASSUME NEW w \in workers, Work(w) PROVE PollerInv'
  BY <1>5, FetchAnsweredInv, FetchFailedInv, PublishInv, RecordErrorInv DEF Work
<1>6. CASE EndTick
  BY <1>6, EndTickInv
<1>7. CASE Restart
  BY <1>7, RestartInv
<1>8. CASE UNCHANGED pollerVars
  BY <1>8 DEF pollerVars, PollerInv, TypeOK, WorkersAreDisjoint, EntriesAreGenuine,
              WorkersAreNotBehind, Group
<1> QED
  BY <1>1, <1>2, <1>3, <1>4, <1>5, <1>6, <1>7, <1>8 DEF PollerNext

-----------------------------------------------------------------------------
(* The poller's invariant holds in every reachable state: each display is   *)
(* left to at most one goroutine, and no goroutine holds an answer older    *)
(* than what its displays already have.                                     *)
THEOREM PollerInvariant == Spec => []PollerInv
<1>1. Init => PollerInv
  BY InitInv
<1>2. PollerInv /\ [PollerNext]_pollerVars => PollerInv'
  BY StepInv
<1> QED
  BY <1>1, <1>2, PTL DEF Spec

(* The types are right in every reachable state.                            *)
THEOREM PollerTypes == Spec => []TypeOK
<1>1. PollerInv => TypeOK
  BY DEF PollerInv
<1> QED
  BY <1>1, PollerInvariant, PTL

(* A step leaves the room and version of an entry alone, or publishes a     *)
(* later version of its room there, or is a restart.                        *)
LEMMA CacheStep ==
    ASSUME PollerInv, [PollerNext]_pollerVars
    PROVE  \/ /\ calendar' = calendar
              /\ \E d \in Devices, r \in Rooms : \E v \in 1..Len(calendar[r]) :
                    /\ cache[d].room = r => v >= cache[d].version
                    /\ cache'[d].room = r /\ cache'[d].version = v
                    /\ \A e \in Devices : e # d => cache'[e] = cache[e]
           \/ /\ \A e \in Devices : /\ cache'[e].room = cache[e].room
                                    /\ cache'[e].version = cache[e].version
              /\ calendar' = calendar \/ \E r \in Rooms : CalendarChange(r)
           \/ Restart
<1> DEFINE Same == /\ \A e \in Devices : /\ cache'[e].room = cache[e].room
                                         /\ cache'[e].version = cache[e].version
                   /\ calendar' = calendar \/ \E r \in Rooms : CalendarChange(r)
<1>1. ASSUME NEW w \in workers, NEW d \in w.left, Publish(w, d)
      PROVE  /\ calendar' = calendar
             /\ \E e \in Devices, r \in Rooms : \E v \in 1..Len(calendar[r]) :
                    /\ cache[e].room = r => v >= cache[e].version
                    /\ cache'[e].room = r /\ cache'[e].version = v
                    /\ \A f \in Devices : f # e => cache'[f] = cache[f]
  <2>1. d \in Devices /\ w.st = "publishing" /\ calendar' = calendar
    BY <1>1 DEF PollerInv, TypeOK, Worker, Publish
  <2>2. /\ w.room \in Rooms /\ w.version \in 1..Len(calendar[w.room])
        /\ cache'[d].room = w.room /\ cache'[d].version = w.version
        /\ \A f \in Devices : f # d => cache'[f] = cache[f]
    BY <1>1, <2>1, PublishedEntry
  <2>3. cache[d].room = w.room => w.version >= cache[d].version
    <3>1. w.version \in Nat /\ cache[d].version \in Nat
      BY <2>1 DEF PollerInv, TypeOK, Worker, Entry
    <3> QED
      BY <3>1, <2>1, <1>1 DEF PollerInv, WorkersAreNotBehind
  <2> QED
    BY <2>1, <2>2, <2>3
<1>2. ASSUME NEW w \in workers, NEW d \in w.left, RecordError(w, d)
      PROVE  Same
  <2>1. /\ cache' = [cache EXCEPT ![d] = WithError(@)]
        /\ cache \in [Devices -> Entry]
        /\ calendar' = calendar
    BY <1>2 DEF RecordError, PollerInv, TypeOK
  <2> QED
    BY <2>1 DEF Entry, WithError
<1>3. ASSUME NEW w \in workers, FetchAnswered(w) \/ FetchFailed(w)
      PROVE  Same
  BY <1>3 DEF FetchAnswered, FetchFailed
<1>4. ASSUME NEW r \in Rooms, CalendarChange(r)
      PROVE  Same
  BY <1>4 DEF CalendarChange
<1>5. ASSUME \/ \E r \in Rooms : Spawn(r)
             \/ \E d \in Devices, r \in Rooms \cup {NoRoom} : ConfigWrite(d, r)
             \/ StartTick \/ EndTick \/ UNCHANGED pollerVars
      PROVE  Same
  BY <1>5 DEF Spawn, ConfigWrite, StartTick, EndTick, pollerVars
<1> QED
  BY <1>1, <1>2, <1>3, <1>4, <1>5 DEF PollerNext, Work

(* While a device is about one room, its cached payload never goes back to  *)
(* an earlier version of the calendar (poller.go, refreshAll's wg.Wait and  *)
(* the grouping by address).                                                *)
THEOREM CacheMonotone == Spec => CacheNeverGoesBack
<1> DEFINE Ahead == \A d \in Devices :
                       cache'[d].version # 0 /\ cache'[d].room = cache[d].room
                           => cache'[d].version >= cache[d].version
<1>1. PollerInv /\ [PollerNext]_pollerVars => [Ahead]_pollerVars
  <2> SUFFICES ASSUME PollerInv, [PollerNext]_pollerVars, NEW d \in Devices,
                      cache'[d].version # 0, cache'[d].room = cache[d].room
               PROVE  cache'[d].version >= cache[d].version
    OBVIOUS
  <2>1. cache[d].version \in Nat
    BY DEF PollerInv, TypeOK, Entry
  <2>2. ~Restart
    BY DEF Restart, NoEntry
  <2> QED
    BY <2>1, <2>2, CacheStep
<1> QED
  BY <1>1, PollerInvariant, PTL DEF Spec, CacheNeverGoesBack

(* A failing calendar never takes a payload away before the broker restarts *)
(* (cache.go, SetError keeps the old entry).                                *)
THEOREM PayloadSurvives == Spec => PayloadSurvivesErrors
<1> DEFINE Kept == \A d \in Devices : cache[d].version # 0 /\ restarts' = restarts
                                          => cache'[d].version # 0
<1>1. PollerInv /\ [PollerNext]_pollerVars => [Kept]_pollerVars
  <2> SUFFICES ASSUME PollerInv, [PollerNext]_pollerVars, NEW d \in Devices,
                      cache[d].version # 0, restarts' = restarts
               PROVE  cache'[d].version # 0
    OBVIOUS
  <2>1. ~Restart
    BY DEF Restart, PollerInv, TypeOK
  <2> QED
    BY <2>1, CacheStep
<1> QED
  BY <1>1, PollerInvariant, PTL DEF Spec, PayloadSurvivesErrors

(* The cache implements RoomBoard: what a display can be sent is always a   *)
(* version its room's calendar had, and never an earlier one than before.   *)
THEOREM CacheRefinesBoard == Spec => CacheIsABoard
<1> DEFINE board == [d \in Devices |-> [room |-> cache[d].room, version |-> cache[d].version]]
<1>1. Init => CacheBoard!BoardInit
  BY DEF Init, NoEntry, CacheBoard!BoardInit, CacheBoard!Blank
<1>2. PollerInv /\ [PollerNext]_pollerVars
        => [CacheBoard!BoardNext]_<<calendar, board>>
  <2> SUFFICES ASSUME PollerInv, [PollerNext]_pollerVars
               PROVE  CacheBoard!BoardNext \/ UNCHANGED <<calendar, board>>
    OBVIOUS
  <2>1. ASSUME calendar' = calendar,
               NEW d \in Devices, NEW r \in Rooms, NEW v \in 1..Len(calendar[r]),
               cache[d].room = r => v >= cache[d].version,
               cache'[d].room = r, cache'[d].version = v,
               \A e \in Devices : e # d => cache'[e] = cache[e]
        PROVE  CacheBoard!Post(d, r, v)
    BY <2>1 DEF CacheBoard!Post
  <2>2. ASSUME \A e \in Devices : /\ cache'[e].room = cache[e].room
                                  /\ cache'[e].version = cache[e].version
        PROVE  board' = board
    BY <2>2
  <2>3. ASSUME NEW r \in Rooms, CalendarChange(r), board' = board
        PROVE  CacheBoard!Rebook(r)
    BY <2>3 DEF CalendarChange, CacheBoard!Rebook
  <2>4. ASSUME Restart
        PROVE  CacheBoard!Wipe
    BY <2>4 DEF Restart, NoEntry, CacheBoard!Wipe, CacheBoard!Blank
  <2> QED
    BY <2>1, <2>2, <2>3, <2>4, CacheStep DEF CacheBoard!BoardNext
<1> QED
  BY <1>1, <1>2, PollerInvariant, PTL DEF Spec, CacheIsABoard, CacheBoard!BoardSpec
-----------------------------------------------------------------------------
(* Between ticks.  A display the tick is through with carries the outcome   *)
(* of its room's fetch: the displays of the room that had their turn agree, *)
(* with one another and with the goroutine that has the others left.        *)
Updated(d) == /\ tick.rooms[d] # NoRoom
              /\ tick.rooms[d] \notin tick.todo
              /\ \A w \in workers : d \notin w.left
OfItsRoom(d) == ~cache[d].err => cache[d].room = tick.rooms[d] /\ cache[d].version # 0
Agree(d, e) == tick.rooms[d] = tick.rooms[e] =>
                   /\ cache[d].err <=> cache[e].err
                   /\ ~cache[d].err => cache[d].version = cache[e].version
HasOutcome(d, w) == tick.rooms[d] = w.room =>
                        \/ /\ w.st = "publishing"
                           /\ ~cache[d].err
                           /\ cache[d].version = w.version
                        \/ w.st = "failing" /\ cache[d].err

SettledInv == \A d \in Devices : Updated(d) =>
                  /\ OfItsRoom(d)
                  /\ \A e \in Devices : Updated(e) => Agree(d, e)
                  /\ \A w \in workers : HasOutcome(d, w)

(* A goroutine that gets the answer of its calendar has updated nobody yet. *)
LEMMA FetchSettled ==
    ASSUME PollerInv, SettledInv, NEW w \in workers, FetchAnswered(w) \/ FetchFailed(w)
    PROVE  SettledInv'
<1>1. PICK new \in Worker : /\ Become(w, new)
                            /\ new.room = w.room /\ new.left = w.left
  <2>1. w \in Worker /\ Len(calendar[w.room]) \in Nat
    BY DEF PollerInv, TypeOK, Worker
  <2>2. CASE FetchAnswered(w)
    <3> DEFINE new == [w EXCEPT !.st = "publishing", !.version = Len(calendar[w.room])]
    <3>1. new \in Worker /\ new.room = w.room /\ new.left = w.left
      BY <2>1 DEF Worker
    <3>2. Become(w, new)
      BY <2>2 DEF FetchAnswered
    <3> HIDE DEF new
    <3> QED
      BY <3>1, <3>2
  <2>3. CASE FetchFailed(w)
    <3> DEFINE new == [w EXCEPT !.st = "failing"]
    <3>1. new \in Worker /\ new.room = w.room /\ new.left = w.left
      BY <2>1 DEF Worker
    <3>2. Become(w, new)
      BY <2>3 DEF FetchFailed
    <3> HIDE DEF new
    <3> QED
      BY <3>1, <3>2
  <2> QED
    BY <2>2, <2>3
<1>2. w.st = "fetching" /\ UNCHANGED <<cache, tick>> /\ w.left # {}
  BY DEF FetchAnswered, FetchFailed, PollerInv, WorkersAreDisjoint
<1>3. new \in workers' /\ \A x \in workers : x # w => x \in workers'
  BY <1>1, <1>2 DEF Become
<1>4. \A x \in workers' : x \in workers \/ x = new
  BY <1>1 DEF Become
<1>5. ASSUME NEW d \in Devices, Updated(d)'
      PROVE  Updated(d) /\ tick.rooms[d] # w.room
  <2>1. Updated(d)
    BY <1>1, <1>2, <1>3, <1>5 DEF Updated
  <2> QED
    BY <2>1, <1>2 DEF SettledInv, HasOutcome
<1> QED
  BY <1>1, <1>2, <1>4, <1>5 DEF SettledInv, OfItsRoom, Agree, HasOutcome

(* A goroutine that updates one of its displays: that one is done, and so   *)
(* is no other that was not done before.                                    *)
LEMMA OneMoreUpdated ==
    ASSUME PollerInv, NEW w \in workers, NEW d \in w.left,
           Become(w, [w EXCEPT !.left = @ \ {d}]), UNCHANGED tick
    PROVE  /\ d \in Devices /\ tick.rooms[d] = w.room
           /\ \A x \in workers' : \E y \in workers :
                  x.room = y.room /\ x.st = y.st /\ x.version = y.version
           /\ \A x \in workers' : x.room = w.room => x.st = w.st /\ x.version = w.version
           /\ \A e \in Devices : e # d /\ Updated(e)' => Updated(e)
<1> DEFINE new == [w EXCEPT !.left = @ \ {d}]
<1>1. /\ new.room = w.room /\ new.st = w.st /\ new.version = w.version
      /\ new.left = w.left \ {d}
  BY DEF PollerInv, TypeOK, Worker
<1>2. Become(w, new)
  OBVIOUS
<1> HIDE DEF new
<1>3. \A x \in workers' : x = new \/ (x \in workers /\ x # w)
  BY <1>2 DEF Become
<1>4. \A x \in workers : x # w => x \in workers' /\ x.room # w.room
  BY <1>2 DEF Become, PollerInv, WorkersAreDisjoint
<1>5. new.left # {} => new \in workers'
  BY <1>2 DEF Become
<1>6. d \in Devices /\ tick.rooms[d] = w.room
  BY DEF PollerInv, TypeOK, Worker, WorkersAreDisjoint, Group
<1>7. ASSUME NEW e \in Devices, e # d, Updated(e)'
      PROVE  Updated(e)
  <2>1. ASSUME NEW x \in workers, e \in x.left PROVE FALSE
    <3>1. CASE x = w
      <4>1. e \in new.left
        BY <3>1, <2>1, <1>7, <1>1
      <4> QED
        BY <4>1, <1>5, <1>7 DEF Updated
    <3>2. CASE x # w
      BY <3>2, <2>1, <1>4, <1>7 DEF Updated
    <3> QED
      BY <3>1, <3>2
  <2> QED
    BY <2>1, <1>7 DEF Updated
<1> QED
  BY <1>1, <1>3, <1>4, <1>6, <1>7

(* A goroutine that updates a display gives it what the others have.        *)
LEMMA PublishSettled ==
    ASSUME PollerInv, SettledInv, NEW w \in workers, NEW d \in w.left,
           Publish(w, d) \/ RecordError(w, d)
    PROVE  SettledInv'
<1>1. /\ Become(w, [w EXCEPT !.left = @ \ {d}]) /\ UNCHANGED tick
      /\ w.room \in Rooms
  BY DEF Publish, RecordError, PollerInv, TypeOK, Worker
<1>2. /\ d \in Devices /\ tick.rooms[d] = w.room
      /\ \A x \in workers' : \E y \in workers :
             x.room = y.room /\ x.st = y.st /\ x.version = y.version
      /\ \A x \in workers' : x.room = w.room => x.st = w.st /\ x.version = w.version
      /\ \A e \in Devices : e # d /\ Updated(e)' => Updated(e)
  BY <1>1, OneMoreUpdated
<1>3. \A e \in Devices : e # d => cache'[e] = cache[e]
  BY <1>2 DEF Publish, RecordError, PollerInv, TypeOK
<1>4. \/ /\ w.st = "publishing" /\ ~cache'[d].err
         /\ cache'[d].room = w.room /\ cache'[d].version = w.version /\ w.version # 0
      \/ w.st = "failing" /\ cache'[d].err
  <2>1. CASE Publish(w, d)
    <3>1. cache' = [cache EXCEPT ![d] = Render(w.room, w.version)] /\ d \in DOMAIN cache
      BY <1>2, <2>1 DEF Publish, Stored, PollerInv, TypeOK
    <3>2. cache'[d] = Render(w.room, w.version)
      BY <3>1
    <3>3. ~cache'[d].err
      BY <3>2 DEF Render
    <3>4. w.st = "publishing" /\ w.version \in 1..Len(calendar[w.room])
      BY <2>1, <1>2, PublishedEntry DEF Publish
    <3>5. Len(calendar[w.room]) \in Nat
      BY <1>1 DEF PollerInv, TypeOK
    <3> QED
      BY <3>2, <3>3, <3>4, <3>5 DEF Render
  <2>2. CASE RecordError(w, d)
    <3>1. cache' = [cache EXCEPT ![d] = WithError(@)] /\ d \in DOMAIN cache
          /\ cache[d] \in Entry
      BY <1>2, <2>2 DEF RecordError, PollerInv, TypeOK
    <3>2. cache'[d].err
      BY <3>1 DEF WithError, Entry
    <3> QED
      BY <2>2, <3>2 DEF RecordError
  <2> QED
    BY <2>1, <2>2
<1>5. ASSUME NEW e \in Devices, e # d, Updated(e)'
      PROVE  /\ OfItsRoom(e)' /\ Agree(e, d)' /\ Agree(d, e)'
             /\ \A f \in Devices : f # d /\ Updated(f)' => Agree(e, f)'
             /\ \A x \in workers' : HasOutcome(e, x)'
  <2>1. Updated(e) /\ cache'[e] = cache[e]
    BY <1>2, <1>3, <1>5
  <2>2. OfItsRoom(e)' /\ \A x \in workers' : HasOutcome(e, x)'
    BY <2>1, <1>1, <1>2 DEF SettledInv, OfItsRoom, HasOutcome
  <2>3. \A f \in Devices : f # d /\ Updated(f)' => Agree(e, f)'
    BY <2>1, <1>1, <1>2, <1>3 DEF SettledInv, Agree
  <2>4. HasOutcome(e, w)
    BY <2>1 DEF SettledInv
  <2>5. tick.rooms[e] = w.room =>
            /\ cache'[d].err <=> cache'[e].err
            /\ ~cache'[d].err => cache'[d].version = cache'[e].version
    BY <2>1, <2>4, <1>4 DEF HasOutcome
  <2>6. Agree(e, d)' /\ Agree(d, e)'
    BY <2>5, <1>1, <1>2 DEF Agree
  <2> QED
    BY <2>2, <2>3, <2>6
<1>6. OfItsRoom(d)' /\ Agree(d, d)' /\ \A x \in workers' : HasOutcome(d, x)'
  BY <1>1, <1>2, <1>4 DEF OfItsRoom, Agree, HasOutcome
<1> QED
  BY <1>5, <1>6 DEF SettledInv

(* A goroutine starts with every display of its room before it.             *)
LEMMA SpawnSettled ==
    ASSUME PollerInv, SettledInv, NEW r \in Rooms, Spawn(r)
    PROVE  SettledInv'
<1> DEFINE new == [room |-> r, st |-> "fetching", version |-> 0, left |-> Group(tick.rooms, r)]
<1>1. /\ r \in tick.todo /\ UNCHANGED cache
      /\ tick'.rooms = tick.rooms /\ tick'.todo = tick.todo \ {r}
      /\ workers' = workers \cup {new}
  BY DEF Spawn, PollerInv, TypeOK
<1>2. new.room = r /\ new.left = Group(tick.rooms, r)
  OBVIOUS
<1> HIDE DEF new
<1>3. ASSUME NEW d \in Devices, Updated(d)'
      PROVE  Updated(d) /\ tick.rooms[d] # r
  BY <1>1, <1>2, <1>3 DEF Updated, Group
<1> QED
  BY <1>1, <1>2, <1>3 DEF SettledInv, OfItsRoom, Agree, HasOutcome

(* Every step keeps it: a tick starts with nobody done, and what is done    *)
(* stays as it is until the next.                                           *)
LEMMA SettledStep == PollerInv /\ SettledInv /\ [PollerNext]_pollerVars => SettledInv'
<1> SUFFICES ASSUME PollerInv, SettledInv, [PollerNext]_pollerVars PROVE SettledInv'
  OBVIOUS
<1>1. ASSUME UNCHANGED cache, tick'.rooms = tick.rooms, tick'.todo = tick.todo,
             UNCHANGED workers
      PROVE  SettledInv'
  BY <1>1 DEF SettledInv, Updated, OfItsRoom, Agree, HasOutcome
<1>2. CASE \/ \E r \in Rooms : CalendarChange(r)
           \/ \E d \in Devices, r \in Rooms \cup {NoRoom} : ConfigWrite(d, r)
           \/ EndTick \/ UNCHANGED pollerVars
  BY <1>1, <1>2 DEF CalendarChange, ConfigWrite, EndTick, pollerVars, PollerInv, TypeOK
<1>3. CASE StartTick
  <2>1. \A d \in Devices : ~Updated(d)'
    BY <1>3 DEF StartTick, Updated
  <2> QED
    BY <2>1 DEF SettledInv
<1>4. CASE Restart
  <2>1. \A d \in Devices : ~Updated(d)'
    BY <1>4 DEF Restart, Updated
  <2> QED
    BY <2>1 DEF SettledInv
<1>5. ASSUME NEW w \in workers, Work(w) PROVE SettledInv'
  BY <1>5, FetchSettled, PublishSettled DEF Work
<1> QED
  BY <1>2, <1>3, <1>4, <1>5, SpawnSettled DEF PollerNext

(* In the middle of a tick too, the displays that had their turn agree      *)
(* (poller.go, refreshRoom).                                                *)
THEOREM AlwaysSettled == Spec => [](PollerInv /\ SettledInv)
<1>1. Init => SettledInv
  BY DEF Init, SettledInv, Updated
<1> QED
  BY <1>1, InitInv, StepInv, SettledStep, PTL DEF Spec

(* Between ticks everybody had a turn.                                      *)
LEMMA EverybodyUpdated ==
    ASSUME PollerInv, ~tick.running, NEW d \in Devices, tick.rooms[d] # NoRoom
    PROVE  Updated(d)
  BY DEF PollerInv, WorkersAreDisjoint, Updated

(* Two panels of one room agree between ticks: one fetch per address, and   *)
(* both carry its answer or its failure (poller.go, groupByRoomAddress).    *)
THEOREM PanelsOfARoomAgree == Spec => []SettledDisplaysAgree
<1>1. PollerInv /\ SettledInv => SettledDisplaysAgree
  <2> SUFFICES ASSUME PollerInv, SettledInv, ~tick.running,
                      NEW d1 \in Devices, NEW d2 \in Devices,
                      tick.rooms[d1] = tick.rooms[d2], tick.rooms[d1] # NoRoom
               PROVE  /\ cache[d1].err = cache[d2].err
                      /\ ~cache[d1].err => Etag(cache[d1]) = Etag(cache[d2])
                                           /\ cache[d1].version = cache[d2].version
    BY DEF SettledDisplaysAgree
  <2>1. Agree(d1, d2) /\ OfItsRoom(d1) /\ OfItsRoom(d2)
    BY EverybodyUpdated DEF SettledInv
  <2>2. cache[d1].err <=> cache[d2].err
    BY <2>1 DEF Agree
  <2>3. cache[d1].err \in BOOLEAN /\ cache[d2].err \in BOOLEAN
    BY DEF PollerInv, TypeOK, Entry
  <2>4. ASSUME ~cache[d1].err
        PROVE  Etag(cache[d1]) = Etag(cache[d2]) /\ cache[d1].version = cache[d2].version
    BY <2>1, <2>2, <2>4 DEF Agree, OfItsRoom, Etag, PollerInv, EntriesAreGenuine
  <2>5. cache[d1].err = cache[d2].err
    BY <2>2, <2>3, Zenon
  <2> QED
    BY <2>4, <2>5
<1> QED
  BY <1>1, AlwaysSettled, PTL

(* Between ticks a display has its own room's payload or is marked as       *)
(* failing, whatever an administrator pointed it at before (poller.go).     *)
THEOREM PayloadIsOfItsRoom == Spec => []SettledEntryIsOfItsRoom
<1>1. PollerInv /\ SettledInv => SettledEntryIsOfItsRoom
  BY EverybodyUpdated DEF SettledInv, OfItsRoom, SettledEntryIsOfItsRoom
<1> QED
  BY <1>1, AlwaysSettled, PTL

-----------------------------------------------------------------------------
(* From the cache to the panel (DisplayPath).                               *)

(* A cache entry without a payload names no room (cache.go: SetError keeps  *)
(* what there is, be it nothing).                                           *)
EmptyEntries == \A d \in Devices : cache[d].version = 0 => Frame(cache[d]) = NoFrame

Request == [st : {"none", "arrived", "looked"} \cup Replies,
            inm : FrameType, frame : FrameType, forced : BOOLEAN]
Firmware == [st : {"asleep", "waiting", "painting"}, shown : FrameType, got : FrameType]
Panel == [image : FrameType, suspect : BOOLEAN]

(* One device with its request q, firmware v and panel p: RTC memory names  *)
(* what the panel shows, a waiting device asked about what RTC memory       *)
(* names, and a 304 is for a frame of the same pixels.                      *)
Row(q, v, p) ==
    /\ q.st \in {"looked", "ok", "notModified"} => q.frame # NoFrame
    /\ v.st = "painting" => v.got # NoFrame
    /\ v.shown # NoFrame /\ ~p.suspect => p.image = v.shown
    /\ v.st = "waiting" /\ q.st # "none" => q.inm \in {NoFrame, v.shown}
    /\ q.st = "notModified" => q.inm # NoFrame /\ Etag(q.inm) = Etag(q.frame)

Honest(q, v) == Genuine(q.inm) /\ Genuine(q.frame) /\ Genuine(v.shown) /\ Genuine(v.got)

Rows ==
    /\ req \in [Devices -> Request] /\ dev \in [Devices -> Firmware]
    /\ panel \in [Devices -> Panel]
    /\ \A d \in Devices : Row(req[d], dev[d], panel[d]) /\ Honest(req[d], dev[d])

Counters == clock \in [day : 1..MaxDay, inHour : BOOLEAN] /\ crashes \in [Devices -> Nat]

ServedInv == PollerInv /\ EmptyEntries /\ Rows /\ Counters

-----------------------------------------------------------------------------
(* The poller's half.                                                       *)

(* An entry without a payload stays one that names no room.                 *)
LEMMA EmptyStep ==
    ASSUME PollerInv, EmptyEntries, [PollerNext]_pollerVars
    PROVE  EmptyEntries'
<1>1. CASE UNCHANGED cache
  BY <1>1 DEF EmptyEntries
<1>2. ASSUME NEW w \in workers, NEW d \in w.left, Publish(w, d)
      PROVE  EmptyEntries'
  <2>1. d \in Devices
    BY DEF PollerInv, TypeOK, Worker
  <2>2. w.version \in 1..Len(calendar[w.room]) /\ cache'[d].version = w.version
        /\ \A e \in Devices : e # d => cache'[e] = cache[e]
    BY <1>2, <2>1, PublishedEntry
  <2>3. cache'[d].version # 0
    BY <2>2
  <2> QED
    BY <2>2, <2>3 DEF EmptyEntries
<1>3. ASSUME NEW w \in workers, NEW d \in w.left, RecordError(w, d)
      PROVE  EmptyEntries'
  <2>1. d \in Devices /\ cache \in [Devices -> Entry]
    BY DEF PollerInv, TypeOK, Worker
  <2>2. \A e \in Devices : /\ cache'[e].version = cache[e].version
                           /\ cache'[e].room = cache[e].room
                           /\ cache'[e].content = cache[e].content
    BY <1>3, <2>1 DEF RecordError, WithError, Entry
  <2> QED
    BY <2>2 DEF EmptyEntries, Frame
<1>4. CASE Restart
  BY <1>4 DEF Restart, EmptyEntries, NoEntry, Frame, NoFrame
<1> QED
  BY <1>1, <1>2, <1>3, <1>4
     DEF PollerNext, CalendarChange, Spawn, ConfigWrite, StartTick, EndTick, Work, FetchAnswered,
         FetchFailed, pollerVars

(* Calendars only grow: what was genuine stays so.                          *)
LEMMA GenuineStays ==
    ASSUME TypeOK, [PollerNext]_pollerVars, NEW f, Genuine(f)
    PROVE  Genuine(f)'
<1>1. CASE calendar' = calendar
  BY <1>1 DEF Genuine, NoFrame
<1>2. ASSUME NEW r \in Rooms, CalendarChange(r)
      PROVE  Genuine(f)'
  <2>1. CASE f = NoFrame
    BY <2>1 DEF Genuine, NoFrame
  <2>2. CASE f.room \in Rooms /\ f.version \in 1..Len(calendar[f.room])
             /\ f.content = calendar[f.room][f.version]
    <3>1. PICK c \in Contents : calendar' = [calendar EXCEPT ![r] = Append(@, c)]
      BY <1>2 DEF CalendarChange
    <3>2. calendar[f.room] \in Seq(Contents)
      BY <2>2 DEF TypeOK
    <3>3. f.version \in 1..Len(Append(calendar[f.room], c))
          /\ Append(calendar[f.room], c)[f.version] = calendar[f.room][f.version]
      BY <2>2, <3>2, AppendFacts
    <3>4. calendar'[f.room] \in {calendar[f.room], Append(calendar[f.room], c)}
      BY <2>2, <3>1 DEF TypeOK
    <3> QED
      BY <2>2, <3>3, <3>4 DEF Genuine
  <2> QED
    BY <2>1, <2>2 DEF Genuine
<1> QED
  BY <1>1, <1>2
     DEF PollerNext, Spawn, ConfigWrite, StartTick, EndTick, Work, FetchAnswered, FetchFailed,
         Publish, RecordError, Restart, pollerVars

(* Marking a device as forced today changes nothing that the poller's       *)
(* invariant is about.                                                      *)
LEMMA ForcedMark ==
    ASSUME PollerInv, EmptyEntries, clock.day \in Nat, NEW d \in Devices,
           cache' = [cache EXCEPT ![d].forced = IF DueForced(d) THEN clock.day ELSE @],
           UNCHANGED <<calendar, config, tick, workers, writes, restarts>>
    PROVE  PollerInv' /\ EmptyEntries'
<1>1. TypeOK /\ cache \in [Devices -> Entry]
  BY DEF PollerInv, TypeOK
<1>2. /\ cache' \in [Devices -> Entry]
      /\ \A e \in Devices : /\ cache'[e].room = cache[e].room
                            /\ cache'[e].version = cache[e].version
                            /\ cache'[e].content = cache[e].content
  <2> DEFINE day == IF DueForced(d) THEN clock.day ELSE cache[d].forced
  <2>1. day \in Nat
    BY <1>1 DEF Entry
  <2>2. cache' = [cache EXCEPT ![d] = [@ EXCEPT !.forced = day]]
    OBVIOUS
  <2> HIDE DEF day
  <2> QED
    BY <1>1, <2>1, <2>2 DEF Entry
<1>3. TypeOK'
  BY <1>1, <1>2 DEF TypeOK
<1>4. WorkersAreDisjoint' /\ EntriesAreGenuine'
  BY <1>2 DEF PollerInv, WorkersAreDisjoint, EntriesAreGenuine, Group
<1>5. WorkersAreNotBehind'
  <2>1. \A w \in workers : w.left \subseteq Devices
    BY <1>1 DEF TypeOK, Worker
  <2> QED
    BY <1>2, <2>1 DEF PollerInv, WorkersAreNotBehind
<1>6. EmptyEntries'
  BY <1>2 DEF EmptyEntries, Frame
<1> QED
  BY <1>3, <1>4, <1>5, <1>6 DEF PollerInv

-----------------------------------------------------------------------------
(* One device.                                                              *)

(* A step of one device that leaves calendar and counters alone.            *)
LEMMA OneRow ==
    ASSUME Rows, NEW d \in Devices, NEW q \in Request, NEW v \in Firmware, NEW p \in Panel,
           req' = [req EXCEPT ![d] = q], dev' = [dev EXCEPT ![d] = v],
           panel' = [panel EXCEPT ![d] = p], calendar' = calendar,
           Row(q, v, p), Honest(q, v)
    PROVE  Rows'
<1>1. /\ req' \in [Devices -> Request] /\ dev' \in [Devices -> Firmware]
      /\ panel' \in [Devices -> Panel]
  BY DEF Rows
<1>2. /\ req'[d] = q /\ dev'[d] = v /\ panel'[d] = p
      /\ \A e \in Devices : e # d => req'[e] = req[e] /\ dev'[e] = dev[e] /\ panel'[e] = panel[e]
  BY DEF Rows
<1>3. \A f : Genuine(f)' <=> Genuine(f)
  BY DEF Genuine, NoFrame
<1>4. \A e \in Devices : Row(req[e], dev[e], panel[e]) /\ Honest(req[e], dev[e])
  BY DEF Rows
<1>5. ASSUME NEW e \in Devices PROVE (Row(req[e], dev[e], panel[e]) /\ Honest(req[e], dev[e]))'
  <2>1. CASE e = d
    <3>1. Row(req'[d], dev'[d], panel'[d])
      BY <1>2
    <3>2. Genuine(q.inm) /\ Genuine(q.frame) /\ Genuine(v.shown) /\ Genuine(v.got)
      BY DEF Honest
    <3> QED
      BY <1>2, <1>3, <2>1, <3>1, <3>2 DEF Row, Honest, Etag, NoFrame
  <2>2. CASE e # d
    BY <1>2, <1>3, <1>4, <2>2 DEF Row, Honest, Etag, NoFrame
  <2> QED
    BY <2>1, <2>2
<1> QED
  BY <1>1, <1>5 DEF Rows

(* The frames there are, and what the cache holds of one.                   *)
LEMMA Frames ==
    ASSUME PollerInv, EmptyEntries, NEW d \in Devices
    PROVE  /\ NoFrame \in FrameType /\ Genuine(NoFrame)
           /\ Frame(cache[d]) \in FrameType /\ Genuine(Frame(cache[d]))
           /\ cache[d].version # 0 => Frame(cache[d]) # NoFrame
<1>1. NoFrame \in FrameType /\ Genuine(NoFrame)
  BY DEF NoFrame, FrameType, Genuine
<1>2. cache[d] \in Entry
  BY DEF PollerInv, TypeOK
<1>3. Frame(cache[d]) \in FrameType
  BY <1>2 DEF Entry, Frame, FrameType
<1>4. CASE cache[d].version = 0
  BY <1>1, <1>4 DEF EmptyEntries, Frame, FrameType
<1>5. CASE cache[d].version # 0
  <2>1. /\ cache[d].room \in Rooms
        /\ cache[d].version <= Len(calendar[cache[d].room])
        /\ cache[d].content = calendar[cache[d].room][cache[d].version]
    BY <1>5 DEF PollerInv, EntriesAreGenuine
  <2>2. cache[d].version \in Nat /\ Len(calendar[cache[d].room]) \in Nat
    BY <1>2, <2>1 DEF Entry, PollerInv, TypeOK
  <2>3. cache[d].version \in 1..Len(calendar[cache[d].room])
    BY <1>5, <2>1, <2>2
  <2>4. Genuine(Frame(cache[d]))
    BY <2>1, <2>3 DEF Genuine, Frame
  <2>5. Frame(cache[d]) # NoFrame
    BY <1>5 DEF Frame, NoFrame
  <2> QED
    BY <1>1, <1>3, <2>4, <2>5
<1> QED
  BY <1>1, <1>3, <1>4, <1>5

(* A wake that reaches the broker asks about what RTC memory names.         *)
LEMMA WakeRows ==
    ASSUME ServedInv, NEW d \in Devices, NEW touch \in BOOLEAN, Wake(d, touch)
    PROVE  Rows'
<1> DEFINE q == [NoRequest EXCEPT !.st = "arrived", !.inm = IfNoneMatch(d, touch)]
           v == [dev[d] EXCEPT !.st = "waiting"]
<1>1. req[d] \in Request /\ dev[d] \in Firmware /\ panel[d] \in Panel
      /\ Row(req[d], dev[d], panel[d]) /\ Honest(req[d], dev[d])
  BY DEF ServedInv, Rows
<1>2. NoFrame \in FrameType /\ Genuine(NoFrame)
  BY Frames DEF ServedInv
<1>3. IfNoneMatch(d, touch) \in {NoFrame, dev[d].shown}
  BY DEF IfNoneMatch
<1>4. IfNoneMatch(d, touch) \in FrameType /\ Genuine(IfNoneMatch(d, touch))
  BY <1>1, <1>2, <1>3 DEF Firmware, Honest
<1>5. q \in Request /\ q.st = "arrived" /\ q.inm = IfNoneMatch(d, touch) /\ q.frame = NoFrame
  BY <1>2, <1>4 DEF NoRequest, Request
<1>6. v \in Firmware /\ v.st = "waiting" /\ v.shown = dev[d].shown /\ v.got = dev[d].got
  BY <1>1 DEF Firmware
<1>7. Row(q, v, panel[d]) /\ Honest(q, v)
  <2> HIDE DEF q, v
  <2> QED
    BY <1>1, <1>2, <1>3, <1>4, <1>5, <1>6 DEF Row, Honest
<1>8. req' = [req EXCEPT ![d] = q] /\ dev' = [dev EXCEPT ![d] = v]
      /\ panel' = [panel EXCEPT ![d] = panel[d]] /\ calendar' = calendar
  BY DEF Wake, ServedInv, Rows, pollerVars
<1> HIDE DEF q, v
<1> QED
  BY <1>1, <1>5, <1>6, <1>7, <1>8, OneRow DEF ServedInv

(* handleDisplay's copy of the entry, and its answer.                       *)
LEMMA HandleRows ==
    ASSUME ServedInv, NEW d \in Devices, Handle(d)
    PROVE  Rows'
<1>1. req[d] \in Request /\ dev[d] \in Firmware /\ panel[d] \in Panel
      /\ Row(req[d], dev[d], panel[d]) /\ Honest(req[d], dev[d])
  BY DEF ServedInv, Rows
<1>2. NoFrame \in FrameType /\ Genuine(NoFrame)
      /\ Frame(cache[d]) \in FrameType /\ Genuine(Frame(cache[d]))
      /\ (cache[d].version # 0 => Frame(cache[d]) # NoFrame)
  BY Frames DEF ServedInv
<1>3. ASSUME NEW q \in Request, Row(q, dev[d], panel[d]), Honest(q, dev[d]),
             req' = [req EXCEPT ![d] = q], UNCHANGED <<calendar, dev, panel>>
      PROVE  Rows'
  <2>1. dev' = [dev EXCEPT ![d] = dev[d]] /\ panel' = [panel EXCEPT ![d] = panel[d]]
    BY <1>3 DEF ServedInv, Rows
  <2> QED
    BY <1>1, <1>3, <2>1, OneRow DEF ServedInv
<1>4. CASE Lookup(d)
  <2> DEFINE st == IF config[d] = NoRoom THEN "unauthorized"
                   ELSE IF cache[d].version = 0 THEN "unavailable" ELSE "looked"
             f == IF config[d] = NoRoom THEN NoFrame ELSE Frame(cache[d])
             q == [req[d] EXCEPT !.st = st, !.frame = f]
  <2>1. st \in {"unauthorized", "unavailable", "looked"} /\ f \in FrameType /\ Genuine(f)
        /\ (st = "looked" => f # NoFrame) /\ req[d].st = "arrived"
    BY <1>2, <1>4 DEF Lookup
  <2>2. req' = [req EXCEPT ![d] = q] /\ UNCHANGED <<calendar, dev, panel>>
    BY <1>4 DEF Lookup, ServedInv, Rows, pollerVars
  <2> HIDE DEF st, f
  <2>3. q \in Request /\ q.st = st /\ q.frame = f /\ q.inm = req[d].inm
    BY <1>1, <2>1 DEF Request, Replies
  <2> HIDE DEF q
  <2>4. Row(q, dev[d], panel[d]) /\ Honest(q, dev[d])
    BY <1>1, <2>1, <2>3 DEF Row, Honest
  <2> QED
    BY <1>3, <2>2, <2>3, <2>4
<1>5. CASE Answer(d)
  <2> DEFINE st == IF ~DueForced(d) /\ Matches(d) THEN "notModified" ELSE "ok"
             q == [req[d] EXCEPT !.forced = DueForced(d), !.st = st]
  <2>1. st \in {"notModified", "ok"} /\ (st = "notModified" => Matches(d)) /\ req[d].st = "looked"
    BY <1>5 DEF Answer
  <2>2. req' = [req EXCEPT ![d] = q] /\ UNCHANGED <<calendar, dev, panel>>
    BY <1>5 DEF Answer, ServedInv, Rows
  <2>3. DueForced(d) \in BOOLEAN
    BY DisplayPathAssumption DEF DueForced, ServedInv, Counters
  <2> HIDE DEF st
  <2>4. q \in Request /\ q.st = st /\ q.frame = req[d].frame /\ q.inm = req[d].inm
    BY <1>1, <2>1, <2>3 DEF Request, Replies
  <2> HIDE DEF q
  <2>5. Row(q, dev[d], panel[d]) /\ Honest(q, dev[d])
    BY <1>1, <2>1, <2>4 DEF Row, Honest, Matches
  <2> QED
    BY <1>3, <2>2, <2>4, <2>5
<1>6. CASE DropReply(d)
  <2>1. req' = [req EXCEPT ![d] = NoRequest] /\ UNCHANGED <<calendar, dev, panel>>
    BY <1>6 DEF DropReply, pollerVars
  <2>2. NoRequest \in Request /\ NoRequest.st = "none" /\ NoRequest.inm = NoFrame
        /\ NoRequest.frame = NoFrame
    BY <1>2 DEF NoRequest, Request
  <2>3. Row(NoRequest, dev[d], panel[d]) /\ Honest(NoRequest, dev[d])
    BY <1>1, <1>2, <2>2 DEF Row, Honest
  <2> QED
    BY <1>3, <2>1, <2>2, <2>3
<1> QED
  BY <1>4, <1>5, <1>6 DEF Handle

(* A device that goes to sleep keeps what RTC memory names.                 *)
LEMMA AsleepFacts ==
    ASSUME NEW d, dev[d] \in Firmware, NoFrame \in FrameType
    PROVE  /\ Asleep(d) \in Firmware /\ Asleep(d).st = "asleep" /\ Asleep(d).got = NoFrame
           /\ Asleep(d).shown = dev[d].shown
           /\ \A f \in FrameType :
                 LET v == [Asleep(d) EXCEPT !.shown = f] IN
                 v \in Firmware /\ v.st = "asleep" /\ v.got = NoFrame /\ v.shown = f
<1>1. Asleep(d) \in Firmware /\ Asleep(d).st = "asleep" /\ Asleep(d).got = NoFrame
      /\ Asleep(d).shown = dev[d].shown
  BY DEF Asleep, Firmware
<1>2. ASSUME NEW f \in FrameType, NEW v, v = [Asleep(d) EXCEPT !.shown = f]
      PROVE  v \in Firmware /\ v.st = "asleep" /\ v.got = NoFrame /\ v.shown = f
  BY <1>1, <1>2 DEF Firmware
<1> QED
  BY <1>1, <1>2

(* An interrupted refresh: the image is a frame still.                      *)
LEMMA InterruptedFrame ==
    ASSUME NEW p \in FrameType, NEW f \in FrameType, NEW i \in Interrupted(p, f)
    PROVE  i \in FrameType
  BY DEF Interrupted, FrameType

(* The firmware's steps: reading a reply, painting, giving up.              *)
LEMMA CycleRows ==
    ASSUME ServedInv, NEW d \in Devices, Cycle(d)
    PROVE  Rows'
<1>1. req[d] \in Request /\ dev[d] \in Firmware /\ panel[d] \in Panel
      /\ Row(req[d], dev[d], panel[d]) /\ Honest(req[d], dev[d])
  BY DEF ServedInv, Rows
<1>2. NoFrame \in FrameType /\ Genuine(NoFrame)
  BY Frames DEF ServedInv
<1>3. calendar' = calendar
  BY DEF Cycle, Receive, GiveUp, PaintOk, PaintRefused, PaintTimesOut, pollerVars
<1>4. /\ Asleep(d) \in Firmware /\ Asleep(d).st = "asleep" /\ Asleep(d).got = NoFrame
      /\ Asleep(d).shown = dev[d].shown
  BY <1>1, <1>2, AsleepFacts
<1>5. /\ req = [req EXCEPT ![d] = req[d]] /\ dev = [dev EXCEPT ![d] = dev[d]]
      /\ panel = [panel EXCEPT ![d] = panel[d]]
  BY DEF ServedInv, Rows
<1>6. CASE Receive(d)
  <2>1. NoRequest \in Request /\ NoRequest.st = "none" /\ NoRequest.inm = NoFrame
        /\ NoRequest.frame = NoFrame
    BY <1>2 DEF NoRequest, Request
  <2> DEFINE v == IF req[d].st = "ok" THEN [dev[d] EXCEPT !.st = "painting", !.got = req[d].frame]
                  ELSE Asleep(d)
  <2>2. v \in Firmware /\ v.shown = dev[d].shown /\ v.st \in {"painting", "asleep"}
        /\ v.got \in {req[d].frame, NoFrame} /\ (v.st = "painting" => v.got # NoFrame)
    <3>1. CASE req[d].st = "ok"
      <4>1. v = [dev[d] EXCEPT !.st = "painting", !.got = req[d].frame]
        BY <3>1
      <4>2. req[d].frame \in FrameType /\ req[d].frame # NoFrame
        BY <1>1, <3>1 DEF Request, Row
      <4> HIDE DEF v
      <4> QED
        BY <1>1, <4>1, <4>2 DEF Firmware
    <3>2. CASE req[d].st # "ok"
      BY <1>4, <3>2
    <3> QED
      BY <3>1, <3>2
  <2>3. req' = [req EXCEPT ![d] = NoRequest] /\ dev' = [dev EXCEPT ![d] = v] /\ panel' = panel
    BY <1>6 DEF Receive
  <2> HIDE DEF v
  <2>4. Row(NoRequest, v, panel[d]) /\ Honest(NoRequest, v)
    BY <1>1, <1>2, <2>1, <2>2 DEF Row, Honest
  <2> QED
    BY <1>1, <1>3, <1>5, <2>1, <2>2, <2>3, <2>4, OneRow DEF ServedInv
<1>7. Row(req[d], Asleep(d), panel[d]) /\ Honest(req[d], Asleep(d))
  BY <1>1, <1>2, <1>4 DEF Row, Honest
<1>8. CASE GiveUp(d) \/ PaintRefused(d)
  <2>1. dev' = [dev EXCEPT ![d] = Asleep(d)] /\ req' = req /\ panel' = panel
    BY <1>8 DEF GiveUp, PaintRefused
  <2> QED
    BY <1>1, <1>3, <1>4, <1>5, <1>7, <2>1, OneRow DEF ServedInv
<1>9. CASE PaintOk(d)
  <2> DEFINE f == dev[d].got
             v == [Asleep(d) EXCEPT !.shown = f]
             p == [image |-> f, suspect |-> FALSE]
  <2>1. f \in FrameType /\ Genuine(f)
    BY <1>1 DEF Firmware, Honest
  <2>2. dev' = [dev EXCEPT ![d] = v] /\ panel' = [panel EXCEPT ![d] = p] /\ req' = req
    BY <1>9 DEF PaintOk
  <2> HIDE DEF f
  <2>3. v \in Firmware /\ v.st = "asleep" /\ v.got = NoFrame /\ v.shown = f
    BY <1>1, <1>2, <2>1, AsleepFacts
  <2>4. p \in Panel /\ p.image = f
    BY <2>1 DEF Panel
  <2> HIDE DEF v, p
  <2>5. Row(req[d], v, p) /\ Honest(req[d], v)
    BY <1>1, <1>2, <2>1, <2>3, <2>4 DEF Row, Honest
  <2> QED
    BY <1>1, <1>3, <1>5, <2>2, <2>3, <2>4, <2>5, OneRow DEF ServedInv
<1>10. CASE PaintTimesOut(d)
  <2>1. PICK i \in Interrupted(panel[d].image, dev[d].got) :
             panel' = [panel EXCEPT ![d] = [image |-> i, suspect |-> TRUE]]
    BY <1>10 DEF PaintTimesOut
  <2>2. i \in FrameType
    BY <1>1, InterruptedFrame DEF Panel, Firmware
  <2> DEFINE p == [image |-> i, suspect |-> TRUE]
  <2>3. p \in Panel /\ p.suspect
    BY <2>2 DEF Panel
  <2>4. dev' = [dev EXCEPT ![d] = Asleep(d)] /\ req' = req
    BY <1>10 DEF PaintTimesOut
  <2>5. Row(req[d], Asleep(d), p)
    <3> HIDE DEF p
    <3> QED
      BY <1>4, <1>7, <2>3 DEF Row
  <2> HIDE DEF p
  <2> QED
    BY <1>1, <1>3, <1>4, <1>5, <1>7, <2>1, <2>3, <2>4, <2>5, OneRow DEF ServedInv, p
<1> QED
  BY <1>6, <1>8, <1>9, <1>10 DEF Cycle

(* A reset: RTC memory names nothing, whatever the panel shows.             *)
LEMMA ResetRows ==
    ASSUME ServedInv, NEW d \in Devices, Reset(d)
    PROVE  Rows'
<1> DEFINE v == [Asleep(d) EXCEPT !.shown = NoFrame]
<1>1. req[d] \in Request /\ dev[d] \in Firmware /\ panel[d] \in Panel
      /\ Row(req[d], dev[d], panel[d]) /\ Honest(req[d], dev[d])
  BY DEF ServedInv, Rows
<1>2. NoFrame \in FrameType /\ Genuine(NoFrame)
  BY Frames DEF ServedInv
<1>3. v \in Firmware /\ v.st = "asleep" /\ v.got = NoFrame /\ v.shown = NoFrame
  BY <1>1, <1>2, AsleepFacts
<1>4. calendar' = calendar /\ req' = [req EXCEPT ![d] = req[d]] /\ dev' = [dev EXCEPT ![d] = v]
  BY DEF Reset, pollerVars, ServedInv, Rows
<1> HIDE DEF v
<1>5. \A p : Row(req[d], v, p)
  BY <1>1, <1>3 DEF Row
<1>6. Honest(req[d], v)
  BY <1>1, <1>2, <1>3 DEF Honest
<1>7. \E p \in Panel : panel' = [panel EXCEPT ![d] = p]
  <2>1. CASE UNCHANGED panel
    BY <1>1, <2>1 DEF ServedInv, Rows
  <2>2. ASSUME NEW i \in Interrupted(panel[d].image, dev[d].got),
               panel' = [panel EXCEPT ![d].image = i]
        PROVE  \E p \in Panel : panel' = [panel EXCEPT ![d] = p]
    <3>1. i \in FrameType
      BY <1>1, InterruptedFrame DEF Panel, Firmware
    <3>2. [panel[d] EXCEPT !.image = i] \in Panel
      BY <1>1, <3>1 DEF Panel
    <3>3. panel' = [panel EXCEPT ![d] = [panel[d] EXCEPT !.image = i]]
      BY <2>2
    <3> QED
      BY <3>2, <3>3
  <2> QED
    BY <2>1, <2>2 DEF Reset
<1> QED
  BY <1>1, <1>3, <1>4, <1>5, <1>6, <1>7, OneRow DEF ServedInv

-----------------------------------------------------------------------------
(* The whole path.                                                          *)

(* At first everything sleeps and nothing was ever shown.                   *)
LEMMA PathInitInv == PathInit => ServedInv
<1> SUFFICES ASSUME PathInit PROVE ServedInv
  OBVIOUS
<1>1. PollerInv
  BY InitInv DEF PathInit
<1>2. EmptyEntries
  BY DEF PathInit, Init, EmptyEntries, NoEntry, Frame, NoFrame
<1>3. NoFrame \in FrameType /\ Genuine(NoFrame)
  BY DEF NoFrame, FrameType, Genuine
<1>4. Counters
  BY DisplayPathAssumption DEF PathInit, Counters
<1> DEFINE v == [st |-> "asleep", shown |-> NoFrame, got |-> NoFrame]
           p == [image |-> NoFrame, suspect |-> FALSE]
<1>5. v \in Firmware /\ v.st = "asleep" /\ v.shown = NoFrame /\ v.got = NoFrame
  BY <1>3 DEF Firmware
<1>6. p \in Panel
  BY <1>3 DEF Panel
<1>7. NoRequest \in Request /\ NoRequest.st = "none" /\ NoRequest.inm = NoFrame
      /\ NoRequest.frame = NoFrame
  BY <1>3 DEF NoRequest, Request
<1>8. req = [d \in Devices |-> NoRequest] /\ dev = [d \in Devices |-> v]
      /\ panel = [d \in Devices |-> p]
  BY DEF PathInit
<1> HIDE DEF v, p
<1>9. Row(NoRequest, v, p) /\ Honest(NoRequest, v)
  BY <1>3, <1>5, <1>7 DEF Row, Honest
<1>10. Rows
  BY <1>5, <1>6, <1>7, <1>8, <1>9 DEF Rows
<1> QED
  BY <1>1, <1>2, <1>4, <1>10 DEF ServedInv

(* What devices have is genuine still when the broker's side has moved.     *)
LEMMA BrokerRows ==
    ASSUME ServedInv, [PollerNext]_pollerVars, UNCHANGED <<dev, panel>>,
           req' = req \/ req' = [d \in Devices |-> NoRequest]
    PROVE  Rows'
<1>1. \A f : Genuine(f) => Genuine(f)'
  BY GenuineStays DEF ServedInv, PollerInv
<1>2. \A d \in Devices : /\ req[d] \in Request /\ dev[d] \in Firmware
                         /\ Row(req[d], dev[d], panel[d]) /\ Honest(req[d], dev[d])
  BY DEF ServedInv, Rows
<1>3. NoFrame \in FrameType /\ Genuine(NoFrame)
  BY DEF NoFrame, FrameType, Genuine
<1>4. NoRequest \in Request /\ NoRequest.st = "none" /\ NoRequest.inm = NoFrame
      /\ NoRequest.frame = NoFrame
  BY <1>3 DEF NoRequest, Request
<1>5. \A d \in Devices : /\ Row(NoRequest, dev[d], panel[d])
                         /\ Honest(NoRequest, dev[d])
  BY <1>2, <1>3, <1>4 DEF Row, Honest
<1>6. \A d \in Devices : req'[d] \in {req[d], NoRequest}
  OBVIOUS
<1>7. \A d \in Devices : Row(req'[d], dev[d], panel[d]) /\ Honest(req'[d], dev[d])
  BY <1>2, <1>5, <1>6
<1>8. \A d \in Devices : Honest(req[d], dev[d])'
  BY <1>1, <1>7 DEF Honest
<1>9. \A d \in Devices : Row(req[d], dev[d], panel[d])'
  BY <1>7 DEF Row, Etag, NoFrame
<1>10. req' \in [Devices -> Request] /\ dev' \in [Devices -> Firmware]
       /\ panel' \in [Devices -> Panel]
  BY <1>4 DEF ServedInv, Rows
<1> QED
  BY <1>8, <1>9, <1>10 DEF Rows

(* Every step of broker, devices and surroundings.                          *)
LEMMA PathStepInv == ServedInv /\ [PathNext]_vars => ServedInv'
<1> SUFFICES ASSUME ServedInv, [PathNext]_vars PROVE ServedInv'
  OBVIOUS
<1> USE DEF ServedInv
<1>1. ASSUME [PollerNext]_pollerVars, UNCHANGED <<dev, panel, clock, crashes>>,
             req' = req \/ req' = [d \in Devices |-> NoRequest]
      PROVE  ServedInv'
  BY <1>1, StepInv, EmptyStep, BrokerRows DEF Counters
<1>2. CASE PollerStep \/ BrokerRestart \/ UNCHANGED vars
  BY <1>1, <1>2 DEF PollerStep, BrokerRestart, PollerNext, vars, pathVars
<1>3. CASE AdvanceClock
  <2>1. Counters'
    <3>1. clock.day \in Nat /\ clock.inHour \in BOOLEAN
      BY DEF Counters
    <3>2. clock' \in [day : 1..(MaxDay + 1), inHour : BOOLEAN] /\ clock'.day <= MaxDay
      <4>1. clock'.day <= MaxDay
        BY <1>3 DEF AdvanceClock
      <4>2. clock.day \in 1..MaxDay
        BY DEF Counters
      <4>3. CASE clock.inHour
        <5>1. clock' = [day |-> clock.day + 1, inHour |-> FALSE]
          BY <1>3, <4>3 DEF AdvanceClock
        <5>2. clock.day + 1 \in 1..(MaxDay + 1)
          BY <4>2, DisplayPathAssumption
        <5> QED
          BY <4>1, <5>1, <5>2
      <4>4. CASE ~clock.inHour
        <5>1. clock' = [clock EXCEPT !.inHour = TRUE]
          BY <1>3, <4>4 DEF AdvanceClock
        <5>2. clock.day \in 1..(MaxDay + 1)
          BY <4>2, DisplayPathAssumption
        <5>3. clock \in [day : 1..(MaxDay + 1), inHour : BOOLEAN]
          BY <5>2 DEF Counters
        <5> QED
          BY <4>1, <5>1, <5>3
      <4> QED
        BY <4>3, <4>4
    <3>3. clock' \in [day : 1..MaxDay, inHour : BOOLEAN]
      BY <3>2, DisplayPathAssumption
    <3> QED
      BY <1>3, <3>3 DEF AdvanceClock, Counters
  <2>2. [PollerNext]_pollerVars /\ UNCHANGED <<req, dev, panel>>
    BY <1>3 DEF AdvanceClock
  <2> QED
    BY <2>1, <2>2, StepInv, EmptyStep, BrokerRows
<1>4. ASSUME NEW d \in Devices,
             (\E touch \in BOOLEAN : Wake(d, touch)) \/ Handle(d) \/ Cycle(d) \/ Reset(d)
      PROVE  ServedInv'
  <2>1. Rows'
    BY <1>4, WakeRows, HandleRows, CycleRows, ResetRows
  <2>2. /\ UNCHANGED clock
        /\ crashes' = crashes \/ crashes' = [crashes EXCEPT ![d] = @ + 1]
    BY <1>4 DEF Wake, Handle, Lookup, Answer, DropReply, Cycle, Receive, GiveUp, PaintOk,
                PaintRefused, PaintTimesOut, Reset
  <2>3. Counters'
    BY <2>2 DEF Counters
  <2>4. UNCHANGED pollerVars \/ Answer(d)
    BY <1>4 DEF Wake, Handle, Lookup, DropReply, Cycle, Receive, GiveUp, PaintOk,
                PaintRefused, PaintTimesOut, Reset
  <2>5. PollerInv' /\ EmptyEntries'
    <3>1. CASE UNCHANGED pollerVars
      BY <3>1, StepInv, EmptyStep
    <3>2. CASE Answer(d)
      <4>1. /\ cache' = [cache EXCEPT ![d].forced = IF DueForced(d) THEN clock.day ELSE @]
            /\ UNCHANGED <<calendar, config, tick, workers, writes, restarts>>
        BY <3>2 DEF Answer
      <4>2. clock.day \in Nat
        BY DEF Counters
      <4> QED
        BY <4>1, <4>2, ForcedMark
    <3> QED
      BY <2>4, <3>1, <3>2
  <2> QED
    BY <2>1, <2>3, <2>5
<1> QED
  BY <1>2, <1>3, <1>4 DEF PathNext

(* The invariant of the whole path.                                         *)
THEOREM PathServed == PathSpec => []ServedInv
  BY PathInitInv, PathStepInv, PTL DEF PathSpec

(* Whatever is on its way to the glass is a frame the calendar really had,  *)
(* and neither an answer nor a refresh is about nothing (handlers.go: 503). *)
THEOREM PathIsGenuine == PathSpec => []PathInv
<1>1. ServedInv => PathInv
  <2> SUFFICES ASSUME ServedInv PROVE PathInv
    OBVIOUS
  <2>1. PathTypeOK
    BY DEF ServedInv, Rows, Counters, PathTypeOK, Request, Firmware, Panel
  <2>2. ASSUME NEW d \in Devices
        PROVE  /\ \A f \in {req[d].inm, req[d].frame, dev[d].shown, dev[d].got} : Genuine(f)
               /\ req[d].st \in {"looked", "ok", "notModified"} => req[d].frame # NoFrame
               /\ dev[d].st = "painting" => dev[d].got # NoFrame
    BY DEF ServedInv, Rows, Row, Honest
  <2> QED
    BY <2>1, <2>2 DEF PathInv
<1> QED
  BY <1>1, PathServed, PTL

(* A 304 tells the truth: the device that gets it shows those pixels,       *)
(* whatever was booked, reconfigured, restarted or reset since it last      *)
(* painted, unless its last refresh timed out (handlers.go, app_main.cpp).  *)
THEOREM NotModifiedTellsTheTruth == PathSpec => []NotModifiedIsTrue
<1>1. ServedInv => NotModifiedIsTrue
  <2> SUFFICES ASSUME ServedInv, NEW d \in Devices, req[d].st = "notModified",
                      dev[d].st = "waiting", ~panel[d].suspect
               PROVE  Etag(panel[d].image) = Etag(req[d].frame)
    BY DEF NotModifiedIsTrue
  <2>1. Row(req[d], dev[d], panel[d])
    BY DEF ServedInv, Rows
  <2>2. req[d].inm # NoFrame /\ Etag(req[d].inm) = Etag(req[d].frame)
        /\ req[d].inm = dev[d].shown
    BY <2>1 DEF Row
  <2>3. panel[d].image = dev[d].shown
    BY <2>1, <2>2 DEF Row
  <2> QED
    BY <2>2, <2>3
<1> QED
  BY <1>1, PathServed, PTL
-----------------------------------------------------------------------------
(* The panel implements the board.  The argument: a frame on its way to the *)
(* panel of d is never ahead of what the broker has, or is about to have,   *)
(* for d (Held); so the entry that a request copies is not behind the       *)
(* panel, and while the panel is painted no other request is on its way.    *)
Held(d, x) == x.room # NoRoom =>
    /\ x.room \in Rooms /\ x.version <= Len(calendar[x.room])
    /\ cache[d].room = x.room => x.version <= cache[d].version
    /\ \A w \in workers : w.st = "publishing" /\ d \in w.left /\ w.room = x.room
                              => x.version <= w.version
NotPast(x, y) == y.room # NoRoom /\ x.room = y.room => x.version <= y.version

Line(d, q, v, p) ==
    /\ Held(d, q.frame) /\ Held(d, v.got) /\ Held(d, p.image)
    /\ NotPast(p.image, q.frame) /\ NotPast(p.image, v.got)
    /\ q.st = "none" => q.frame = NoFrame
    /\ v.st = "painting" => q.st = "none"

LineInv == \A d \in Devices : Line(d, req[d], dev[d], panel[d])

(* The poller never falls behind a frame that it once had.                  *)
LEMMA HeldStep ==
    ASSUME PollerInv, [PollerNext]_pollerVars, NEW d \in Devices, NEW x \in FrameType, Held(d, x)
    PROVE  Held(d, x)'
<1> SUFFICES ASSUME x.room # NoRoom PROVE Held(d, x)'
  BY DEF Held
<1>1. /\ x.room \in Rooms /\ x.version \in Nat /\ x.version <= Len(calendar[x.room])
      /\ cache[d].room = x.room => x.version <= cache[d].version
      /\ \A w \in workers : w.st = "publishing" /\ d \in w.left /\ w.room = x.room
                                => x.version <= w.version
  BY DEF Held, FrameType
<1>2. CASE \/ \E r \in Rooms : Spawn(r)
           \/ \E e \in Devices, r \in Rooms \cup {NoRoom} : ConfigWrite(e, r)
           \/ StartTick \/ EndTick \/ UNCHANGED pollerVars
  <2>1. UNCHANGED <<calendar, cache>> /\ \A w \in workers' : w \in workers \/ w.st = "fetching"
    BY <1>2 DEF Spawn, ConfigWrite, StartTick, EndTick, pollerVars
  <2> QED
    BY <1>1, <2>1 DEF Held
<1>3. ASSUME NEW r \in Rooms, CalendarChange(r) PROVE Held(d, x)'
  <2>1. PICK c \in Contents : calendar' = [calendar EXCEPT ![r] = Append(@, c)]
    BY <1>3 DEF CalendarChange
  <2>2. calendar[x.room] \in Seq(Contents)
        /\ calendar'[x.room] \in {calendar[x.room], Append(calendar[x.room], c)}
    BY <1>1, <2>1 DEF PollerInv, TypeOK
  <2>3. Len(calendar[x.room]) <= Len(calendar'[x.room])
        /\ Len(calendar[x.room]) \in Nat /\ Len(calendar'[x.room]) \in Nat
    BY <2>2, AppendFacts
  <2>4. x.version <= Len(calendar'[x.room])
    BY <1>1, <2>3
  <2>5. UNCHANGED <<cache, workers>>
    BY <1>3 DEF CalendarChange
  <2> QED
    BY <1>1, <2>4, <2>5 DEF Held
<1>4. ASSUME NEW w \in workers, FetchAnswered(w) PROVE Held(d, x)'
  <2> DEFINE new == [w EXCEPT !.st = "publishing", !.version = Len(calendar[w.room])]
  <2>1. new.room = w.room /\ new.version = Len(calendar[w.room])
    BY DEF PollerInv, TypeOK, Worker
  <2>2. UNCHANGED <<calendar, cache>> /\ Become(w, new)
    BY <1>4 DEF FetchAnswered
  <2> HIDE DEF new
  <2>3. \A y \in workers' : y \in workers \/ y = new
    BY <2>2 DEF Become
  <2> QED
    BY <1>1, <2>1, <2>2, <2>3 DEF Held
<1>5. ASSUME NEW w \in workers, FetchFailed(w) PROVE Held(d, x)'
  <2> DEFINE new == [w EXCEPT !.st = "failing"]
  <2>1. new.st = "failing"
    BY DEF PollerInv, TypeOK, Worker
  <2>2. UNCHANGED <<calendar, cache>> /\ Become(w, new)
    BY <1>5 DEF FetchFailed
  <2> HIDE DEF new
  <2>3. \A y \in workers' : y \in workers \/ y = new
    BY <2>2 DEF Become
  <2> QED
    BY <1>1, <2>1, <2>2, <2>3 DEF Held
<1>6. ASSUME NEW w \in workers, NEW e \in w.left, Publish(w, e) \/ RecordError(w, e)
      PROVE  Held(d, x)'
  <2>1. /\ Become(w, [w EXCEPT !.left = @ \ {e}]) /\ UNCHANGED <<tick, calendar>>
        /\ e \in Devices
    BY <1>6 DEF Publish, RecordError, PollerInv, TypeOK, Worker
  <2>2. \A z \in workers' : \E y \in workers :
            /\ z.room = y.room /\ z.st = y.st /\ z.version = y.version
            /\ z.left \subseteq y.left
    BY <2>1, OneLessLeft
  <2>3. \/ cache'[d].room = cache[d].room /\ cache'[d].version = cache[d].version
        \/ /\ w.st = "publishing" /\ d \in w.left
           /\ cache'[d].room = w.room /\ cache'[d].version = w.version
    <3>1. CASE Publish(w, e)
      BY <2>1, <3>1, PublishedEntry DEF Publish
    <3>2. CASE RecordError(w, e)
      BY <2>1, <3>2 DEF RecordError, WithError, PollerInv, TypeOK, Entry
    <3> QED
      BY <1>6, <3>1, <3>2
  <2>4. cache'[d].room = x.room => x.version <= cache'[d].version
    BY <1>1, <2>3
  <2>5. \A z \in workers' : z.st = "publishing" /\ d \in z.left /\ z.room = x.room
                                => x.version <= z.version
    BY <1>1, <2>2
  <2> QED
    BY <1>1, <2>1, <2>4, <2>5 DEF Held
<1>7. CASE Restart
  BY <1>1, <1>7 DEF Held, Restart, NoEntry
<1> QED
  BY <1>2, <1>3, <1>4, <1>5, <1>6, <1>7 DEF PollerNext, Work

(* Two frames of one version of one room's calendar.                        *)
Alike(x, y) == x.room = y.room /\ x.version = y.version

(* What one device's step does to the frames on their way to its panel.     *)
LEMMA Moves ==
    ASSUME ServedInv, NEW d \in Devices,
           (\E touch \in BOOLEAN : Wake(d, touch)) \/ Handle(d) \/ Cycle(d) \/ Reset(d)
    PROVE  \/ /\ req'[d].frame = NoFrame /\ dev'[d].st = "waiting"
              /\ dev'[d].got = dev[d].got /\ panel'[d] = panel[d]
           \/ /\ req[d].st # "none" /\ req'[d].st # "none"
              /\ req'[d].frame \in {req[d].frame, NoFrame, Frame(cache[d])}
              /\ dev'[d] = dev[d] /\ panel'[d] = panel[d]
           \/ /\ req'[d] = NoRequest /\ dev'[d].got \in {dev[d].got, req[d].frame, NoFrame}
              /\ panel'[d] = panel[d]
           \/ /\ req'[d] = req[d] /\ dev'[d].st = "asleep" /\ dev'[d].got = NoFrame
              /\ \/ Alike(panel'[d].image, panel[d].image)
                 \/ dev[d].st = "painting" /\ Alike(panel'[d].image, dev[d].got)
<1>1. /\ req \in [Devices -> Request] /\ dev \in [Devices -> Firmware]
      /\ panel \in [Devices -> Panel]
      /\ req[d] \in Request /\ dev[d] \in Firmware /\ panel[d] \in Panel
  BY DEF ServedInv, Rows
<1>2. NoFrame \in FrameType
  BY Frames DEF ServedInv
<1>3. Asleep(d).st = "asleep" /\ Asleep(d).got = NoFrame /\ Asleep(d) \in Firmware
  BY <1>1, <1>2, AsleepFacts
<1>4. ASSUME NEW i \in Interrupted(panel[d].image, dev[d].got)
      PROVE  Alike(i, panel[d].image) \/ Alike(i, dev[d].got)
  BY <1>4 DEF Interrupted, Alike
<1>5. ASSUME NEW touch \in BOOLEAN, Wake(d, touch)
      PROVE  /\ req'[d].frame = NoFrame /\ dev'[d].st = "waiting"
             /\ dev'[d].got = dev[d].got /\ panel'[d] = panel[d]
  BY <1>1, <1>5 DEF Wake, NoRequest, Firmware
<1>6. CASE Lookup(d)
  <2>1. req[d].st # "none" /\ dev' = dev /\ panel' = panel
    BY <1>6 DEF Lookup
  <2>2. req'[d].st # "none" /\ req'[d].frame \in {NoFrame, Frame(cache[d])}
    BY <1>1, <1>6 DEF Lookup, Request
  <2> QED
    BY <2>1, <2>2
<1>7. CASE Answer(d)
  <2>1. req[d].st # "none" /\ dev' = dev /\ panel' = panel
    BY <1>7 DEF Answer
  <2>2. req'[d].st # "none" /\ req'[d].frame = req[d].frame
    <3> DEFINE st == IF ~DueForced(d) /\ Matches(d) THEN "notModified" ELSE "ok"
    <3>1. st \in {"notModified", "ok"}
      OBVIOUS
    <3>2. req'[d] = [req[d] EXCEPT !.forced = DueForced(d), !.st = st]
      BY <1>1, <1>7 DEF Answer
    <3> HIDE DEF st
    <3> QED
      BY <1>1, <3>1, <3>2 DEF Request
  <2> QED
    BY <2>1, <2>2
<1>8. CASE DropReply(d)
  BY <1>1, <1>8 DEF DropReply
<1>9. CASE Receive(d)
  <2>1. req'[d] = NoRequest /\ panel' = panel
    BY <1>1, <1>9 DEF Receive
  <2>2. dev'[d] \in {[dev[d] EXCEPT !.st = "painting", !.got = req[d].frame], Asleep(d)}
    BY <1>1, <1>9 DEF Receive
  <2>3. dev'[d].got \in {req[d].frame, NoFrame}
    BY <1>1, <1>3, <2>2 DEF Firmware
  <2> QED
    BY <2>1, <2>3
<1>10. CASE GiveUp(d) \/ PaintRefused(d)
  BY <1>1, <1>3, <1>10 DEF GiveUp, PaintRefused, Alike
<1>11. CASE PaintOk(d)
  <2>1. dev[d].st = "painting" /\ req' = req /\ panel'[d].image = dev[d].got
    BY <1>1, <1>11 DEF PaintOk
  <2>2. dev'[d] = [Asleep(d) EXCEPT !.shown = dev[d].got]
    BY <1>1, <1>11 DEF PaintOk
  <2>3. dev'[d].st = "asleep" /\ dev'[d].got = NoFrame
    BY <1>3, <2>2 DEF Firmware
  <2> QED
    BY <2>1, <2>3 DEF Alike
<1>12. CASE PaintTimesOut(d)
  <2>1. dev[d].st = "painting" /\ req' = req /\ dev'[d] = Asleep(d)
    BY <1>1, <1>12 DEF PaintTimesOut
  <2>2. PICK i \in Interrupted(panel[d].image, dev[d].got) :
             panel' = [panel EXCEPT ![d] = [image |-> i, suspect |-> TRUE]]
    BY <1>12 DEF PaintTimesOut
  <2>3. panel'[d].image = i
    BY <1>1, <2>2
  <2> QED
    BY <1>3, <1>4, <2>1, <2>3
<1>13. CASE Reset(d)
  <2>1. req' = req /\ dev'[d] = [Asleep(d) EXCEPT !.shown = NoFrame]
    BY <1>1, <1>13 DEF Reset
  <2>2. dev'[d].st = "asleep" /\ dev'[d].got = NoFrame
    BY <1>3, <2>1 DEF Firmware
  <2>3. CASE dev[d].st = "painting"
    <3>1. PICK i \in Interrupted(panel[d].image, dev[d].got) :
               panel' = [panel EXCEPT ![d].image = i]
      BY <1>13, <2>3 DEF Reset
    <3>2. panel'[d].image = i
      BY <1>1, <3>1 DEF Panel
    <3> QED
      BY <1>4, <2>1, <2>2, <2>3, <3>2
  <2>4. CASE dev[d].st # "painting"
    BY <1>13, <2>1, <2>2, <2>4 DEF Reset, Alike
  <2> QED
    BY <2>3, <2>4
<1> QED
  BY <1>5, <1>6, <1>7, <1>8, <1>9, <1>10, <1>11, <1>12, <1>13 DEF Handle, Cycle

(* No step of a device but its own touches what is on its way to its panel, *)
(* and none changes what the broker has for anybody.                        *)
LEMMA OthersStay ==
    ASSUME ServedInv, NEW d \in Devices,
           (\E touch \in BOOLEAN : Wake(d, touch)) \/ Handle(d) \/ Cycle(d) \/ Reset(d)
    PROVE  /\ UNCHANGED <<calendar, workers>>
           /\ \A e \in Devices : Alike(cache'[e], cache[e])
           /\ \A e \in Devices : e # d =>
                  req'[e] = req[e] /\ dev'[e] = dev[e] /\ panel'[e] = panel[e]
<1>1. /\ req \in [Devices -> Request] /\ dev \in [Devices -> Firmware]
      /\ panel \in [Devices -> Panel] /\ cache \in [Devices -> Entry]
  BY DEF ServedInv, Rows, PollerInv, TypeOK
<1>2. UNCHANGED <<calendar, workers>>
  BY DEF Wake, Handle, Lookup, Answer, DropReply, Cycle, Receive, GiveUp, PaintOk,
         PaintRefused, PaintTimesOut, Reset, pollerVars
<1>3. ASSUME NEW e \in Devices, e # d
      PROVE  req'[e] = req[e] /\ dev'[e] = dev[e] /\ panel'[e] = panel[e]
  BY <1>1, <1>3 DEF Wake, Handle, Lookup, Answer, DropReply, Cycle, Receive, GiveUp, PaintOk,
         PaintRefused, PaintTimesOut, Reset
<1>4. \A e \in Devices : Alike(cache'[e], cache[e])
  <2>1. CASE Answer(d)
    BY <1>1, <2>1 DEF Answer, Alike, Entry
  <2>2. CASE UNCHANGED cache
    BY <2>2 DEF Alike
  <2> QED
    BY <2>1, <2>2 DEF Wake, Handle, Lookup, DropReply, Cycle, Receive, GiveUp, PaintOk,
         PaintRefused, PaintTimesOut, Reset, pollerVars
<1> QED
  BY <1>2, <1>3, <1>4

(* A device's own step keeps its line in order.                             *)
LEMMA DeviceLine ==
    ASSUME ServedInv, LineInv, NEW d \in Devices,
           (\E touch \in BOOLEAN : Wake(d, touch)) \/ Handle(d) \/ Cycle(d) \/ Reset(d)
    PROVE  LineInv'
<1>1. Line(d, req[d], dev[d], panel[d])
  BY DEF LineInv
<1>2. /\ UNCHANGED <<calendar, workers>>
      /\ \A e \in Devices : Alike(cache'[e], cache[e])
      /\ \A e \in Devices : e # d =>
             req'[e] = req[e] /\ dev'[e] = dev[e] /\ panel'[e] = panel[e]
  BY OthersStay
<1>3. \A e \in Devices : \A x : Held(e, x) <=> Held(e, x)'
  BY <1>2 DEF Held, Alike
<1>4. ASSUME NEW e \in Devices, e # d
      PROVE  Line(e, req[e], dev[e], panel[e])'
  <2>1. Line(e, req[e], dev[e], panel[e])
    BY DEF LineInv
  <2> QED
    BY <1>2, <1>3, <1>4, <2>1 DEF Line, NotPast, NoFrame
<1> DEFINE f == Frame(cache[d])
<1>5. Held(d, f) /\ NotPast(panel[d].image, f)
  <2>1. f.room = cache[d].room /\ f.version = cache[d].version
    BY DEF Frame
  <2>2. cache[d] \in Entry
    BY DEF ServedInv, PollerInv, TypeOK
  <2> HIDE DEF f
  <2>3. NotPast(panel[d].image, f)
    BY <1>1, <2>1 DEF Line, NotPast, Held
  <2>4. ASSUME f.room # NoRoom
        PROVE  f.room \in Rooms /\ f.version <= Len(calendar[f.room])
    <3>1. cache[d].version # 0
      BY <2>1, <2>4 DEF ServedInv, EmptyEntries, Frame, NoFrame
    <3> QED
      BY <2>1, <3>1 DEF ServedInv, PollerInv, EntriesAreGenuine
  <2>5. \A w \in workers : w.st = "publishing" /\ d \in w.left /\ w.room = f.room
                               => f.version <= w.version
    BY <2>1 DEF ServedInv, PollerInv, WorkersAreNotBehind
  <2>6. f.version <= cache[d].version
    BY <2>1, <2>2 DEF Entry
  <2> QED
    BY <2>3, <2>4, <2>5, <2>6 DEF Held
<1>6. \A x : Held(d, NoFrame) /\ NotPast(x, NoFrame)
  BY DEF Held, NotPast, NoFrame
<1> HIDE DEF f
<1>7. NoRequest.st = "none" /\ NoRequest.frame = NoFrame
  BY DEF NoRequest
<1>8. Line(d, req'[d], dev'[d], panel'[d])
  <2>1. CASE /\ req'[d].frame = NoFrame /\ dev'[d].st = "waiting"
             /\ dev'[d].got = dev[d].got /\ panel'[d] = panel[d]
    BY <1>1, <1>6, <2>1 DEF Line
  <2>2. CASE /\ req[d].st # "none" /\ req'[d].st # "none"
             /\ req'[d].frame \in {req[d].frame, NoFrame, f}
             /\ dev'[d] = dev[d] /\ panel'[d] = panel[d]
    BY <1>1, <1>5, <1>6, <2>2 DEF Line
  <2>3. CASE /\ req'[d] = NoRequest /\ dev'[d].got \in {dev[d].got, req[d].frame, NoFrame}
             /\ panel'[d] = panel[d]
    BY <1>1, <1>6, <1>7, <2>3 DEF Line
  <2>4. CASE /\ req'[d] = req[d] /\ dev'[d].st = "asleep" /\ dev'[d].got = NoFrame
             /\ Alike(panel'[d].image, panel[d].image)
    <3>1. Held(d, panel'[d].image) /\ NotPast(panel'[d].image, req[d].frame)
      BY <1>1, <2>4 DEF Line, Held, NotPast, Alike
    <3> QED
      BY <1>1, <1>6, <2>4, <3>1 DEF Line
  <2>5. CASE /\ req'[d] = req[d] /\ dev'[d].st = "asleep" /\ dev'[d].got = NoFrame
             /\ dev[d].st = "painting" /\ Alike(panel'[d].image, dev[d].got)
    <3>1. Held(d, panel'[d].image)
      BY <1>1, <2>5 DEF Line, Held, Alike
    <3>2. req[d].frame = NoFrame
      BY <1>1, <2>5 DEF Line
    <3> QED
      BY <1>1, <1>6, <2>5, <3>1, <3>2 DEF Line
  <2> QED
    BY <2>1, <2>2, <2>3, <2>4, <2>5, Moves DEF f
<1>9. Line(d, req[d], dev[d], panel[d])'
  BY <1>3, <1>8 DEF Line, NotPast, NoFrame
<1> QED
  BY <1>4, <1>9 DEF LineInv

(* Every step keeps every line in order.                                    *)
LEMMA LineStep == ServedInv /\ LineInv /\ [PathNext]_vars => LineInv'
<1> SUFFICES ASSUME ServedInv, LineInv, [PathNext]_vars PROVE LineInv'
  OBVIOUS
<1>1. ASSUME [PollerNext]_pollerVars, UNCHANGED <<dev, panel>>,
             req' = req \/ req' = [d \in Devices |-> NoRequest]
      PROVE  LineInv'
  <2> SUFFICES ASSUME NEW d \in Devices PROVE Line(d, req[d], dev[d], panel[d])'
    BY DEF LineInv
  <2>1. Line(d, req[d], dev[d], panel[d])
    BY DEF LineInv
  <2>2. req[d] \in Request /\ dev[d] \in Firmware /\ panel[d] \in Panel
    BY DEF ServedInv, Rows
  <2>3. \A x \in FrameType : Held(d, x) => Held(d, x)'
    BY <1>1, HeldStep DEF ServedInv
  <2>4. NoRequest.st = "none" /\ NoRequest.frame = NoFrame
        /\ NoFrame \in FrameType /\ Held(d, NoFrame) /\ NotPast(panel[d].image, NoFrame)
    BY DEF NoRequest, NoFrame, FrameType, Held, NotPast
  <2>5. req'[d] \in {req[d], NoRequest} /\ dev'[d] = dev[d] /\ panel'[d] = panel[d]
    BY <1>1
  <2>6. Held(d, dev[d].got)' /\ Held(d, panel[d].image)'
    BY <2>1, <2>2, <2>3, <2>5 DEF Line, Firmware, Panel
  <2>7. req'[d].frame \in FrameType /\ Held(d, req'[d].frame)
    BY <2>1, <2>2, <2>4, <2>5 DEF Line, Request
  <2>8. Held(d, req[d].frame)'
    BY <2>3, <2>7
  <2> QED
    BY <2>1, <2>4, <2>5, <2>6, <2>8 DEF Line, NotPast, NoFrame
<1>2. CASE PollerStep \/ BrokerRestart \/ AdvanceClock \/ UNCHANGED vars
  BY <1>1, <1>2 DEF PollerStep, BrokerRestart, AdvanceClock, PollerNext, vars, pathVars
<1> QED
  BY <1>2, DeviceLine DEF PathNext

(* The panel implements RoomBoard: no lost or late reply, retry, reset,     *)
(* tick or restart brings an earlier version of the room back to the glass. *)
THEOREM PanelRefinesBoard == PathSpec => PanelIsABoard
<1> DEFINE board == [d \in Devices |-> [room |-> panel[d].image.room,
                                        version |-> panel[d].image.version]]
<1>1. PathInit => PanelBoard!BoardInit
  BY DEF PathInit, Init, NoFrame, PanelBoard!BoardInit, PanelBoard!Blank
<1>2. PathInit => LineInv
  <2> SUFFICES ASSUME PathInit, NEW d \in Devices PROVE Line(d, req[d], dev[d], panel[d])
    BY DEF LineInv
  <2>1. req[d] = NoRequest /\ dev[d].st = "asleep" /\ dev[d].got = NoFrame
        /\ panel[d].image = NoFrame
    BY DEF PathInit
  <2>2. Held(d, NoFrame) /\ NotPast(NoFrame, NoFrame)
        /\ NoRequest.st = "none" /\ NoRequest.frame = NoFrame
    BY DEF Held, NotPast, NoFrame, NoRequest
  <2> QED
    BY <2>1, <2>2 DEF Line
<1>3. ServedInv /\ LineInv /\ [PathNext]_vars => [PanelBoard!BoardNext]_<<calendar, board>>
  <2> SUFFICES ASSUME ServedInv, LineInv, [PathNext]_vars
               PROVE  PanelBoard!BoardNext \/ UNCHANGED <<calendar, board>>
    OBVIOUS
  <2>1. CASE PollerStep
    <3>1. UNCHANGED board
      BY <2>1 DEF PollerStep, pathVars
    <3>2. ASSUME NEW r \in Rooms, CalendarChange(r) PROVE PanelBoard!Rebook(r)
      BY <3>1, <3>2 DEF CalendarChange, PanelBoard!Rebook
    <3>3. UNCHANGED calendar \/ \E r \in Rooms : CalendarChange(r)
      BY <2>1 DEF PollerStep, Spawn, ConfigWrite, StartTick, Work, FetchAnswered, FetchFailed,
                  Publish, RecordError, EndTick
    <3> QED
      BY <3>1, <3>2, <3>3 DEF PanelBoard!BoardNext
  <2>2. CASE BrokerRestart \/ AdvanceClock \/ UNCHANGED vars
    <3>1. UNCHANGED <<calendar, panel>>
      BY <2>2 DEF BrokerRestart, Restart, AdvanceClock, vars, pollerVars, pathVars
    <3>2. UNCHANGED board
      BY <3>1
    <3> QED
      BY <3>1, <3>2
  <2>3. ASSUME NEW d \in Devices,
               (\E touch \in BOOLEAN : Wake(d, touch)) \/ Handle(d) \/ Cycle(d) \/ Reset(d)
        PROVE  PanelBoard!BoardNext \/ UNCHANGED <<calendar, board>>
    <3>1. /\ UNCHANGED calendar
          /\ \A e \in Devices : e # d => panel'[e] = panel[e]
      BY <2>3, OthersStay
    <3>2. CASE Alike(panel'[d].image, panel[d].image)
      <4>1. \A e \in Devices : Alike(panel'[e].image, panel[e].image)
        BY <3>1, <3>2 DEF Alike
      <4> QED
        BY <3>1, <4>1 DEF Alike
    <3>3. CASE dev[d].st = "painting" /\ Alike(panel'[d].image, dev[d].got)
      <4> DEFINE g == dev[d].got
      <4>1. g # NoFrame /\ Genuine(g)
        BY <3>3 DEF ServedInv, Rows, Row, Honest
      <4>2. g.room \in Rooms /\ g.version \in 1..Len(calendar[g.room])
        BY <4>1 DEF Genuine
      <4>3. panel[d].image.room = g.room => g.version >= panel[d].image.version
        <5>1. NotPast(panel[d].image, g)
          BY DEF LineInv, Line
        <5>2. g.room # NoRoom
          BY <4>2, RoomPollerAssumption
        <5>3. g.version \in Nat /\ panel[d].image.version \in Nat
          BY DEF ServedInv, Rows, Firmware, Panel, FrameType
        <5> HIDE DEF g
        <5> QED
          BY <5>1, <5>2, <5>3 DEF NotPast
      <4> HIDE DEF g
      <4>4. PICK r \in Rooms, v \in 1..Len(calendar[g.room]) : r = g.room /\ v = g.version
        BY <4>2
      <4>5. board' = [board EXCEPT ![d] = [room |-> r, version |-> v]]
        BY <3>1, <3>3, <4>4 DEF Alike, g
      <4>6. PanelBoard!Post(d, r, v)
        BY <3>1, <4>3, <4>4, <4>5 DEF PanelBoard!Post
      <4>7. v \in 1..Len(calendar[r])
        BY <4>4
      <4> QED
        BY <4>6, <4>7 DEF PanelBoard!BoardNext
    <3>4. Alike(panel'[d].image, panel[d].image)
          \/ (dev[d].st = "painting" /\ Alike(panel'[d].image, dev[d].got))
      BY <2>3, Moves DEF Alike
    <3> QED
      BY <3>2, <3>3, <3>4
  <2> QED
    BY <2>1, <2>2, <2>3 DEF PathNext
<1> HIDE DEF board
<1>4. ServedInv /\ LineInv /\ [PathNext]_vars => LineInv'
  BY LineStep
<1> QED
  BY <1>1, <1>2, <1>3, <1>4, PathServed, PTL
     DEF PathSpec, PanelIsABoard, PanelBoard!BoardSpec, board
=============================================================================
