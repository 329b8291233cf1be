----------------------------- MODULE RoomPoller -----------------------------
(***************************************************************************)
(* The broker's background half: poller.go refreshes, on every tick, the   *)
(* payload of every room's displays and cache.go keeps the latest one per  *)
(* device.  One action per step another goroutine can interleave with: the *)
(* tick's config snapshot, the start of a room's goroutine, the answer of  *)
(* the calendar, and each Set or SetError on the shared cache.             *)
(*                                                                         *)
(* A calendar is the history of what it would make a display show: entry n *)
(* of the sequence is version n.  The pixels a display is sent depend on   *)
(* the room (its name is printed) and on the content of the version, so    *)
(* two versions with one content have one ETag, as a meeting that is       *)
(* booked and cancelled has.                                               *)
(***************************************************************************)
EXTENDS Naturals, Sequences, FiniteSets

CONSTANTS Devices,          \* device ids
          Rooms,            \* calendar addresses (config.Room.Room)
          NoRoom,           \* the device is in no config.Room
          Contents,         \* what a calendar can make a display show
          NoContent,        \* nothing rendered yet
          MaxFanOut,        \* capacity of refreshAll's semaphore (6 in the code)
          MaxVersion,       \* bound: versions of one calendar
          MaxWrites,        \* bound: admin writes of the rooms
          MaxRestarts       \* bound: broker restarts

ASSUME RoomPollerAssumption ==
    /\ NoRoom \notin Rooms
    /\ NoContent \notin Contents
    /\ MaxFanOut \in Nat \ {0}
    /\ MaxVersion \in Nat \ {0}
    /\ MaxWrites \in Nat
    /\ MaxRestarts \in Nat

VARIABLES calendar,   \* Room -> the versions its calendar went through (Google)
          config,     \* Device -> the room it is configured for (*config.Live)
          cache,      \* Device -> cache.Entry
          tick,       \* refreshAll's locals: its snapshot and what is left to spawn
          workers,    \* the refreshRoom goroutines of the tick
          writes, restarts          \* counters for the bounds

pollerVars == <<calendar, config, cache, tick, workers, writes, restarts>>

Assignments == [Devices -> Rooms \cup {NoRoom}]

\* cache.Entry: version is 0 when ETag is empty, forced is LastForcedRefreshDay
\* (0 is the empty string), err says whether Err is set.
NoEntry == [room |-> NoRoom, version |-> 0, content |-> NoContent,
            err |-> FALSE, forced |-> 0]

\* The ETag: a hash of the pixels, which the room and the content determine.
Etag(e) == <<e.room, e.content>>

\* What Composing and encoding the schedule of version v of room r gives.
Render(r, v) == [room |-> r, version |-> v, content |-> calendar[r][v],
                 err |-> FALSE, forced |-> 0]

\* The displays that show room r in an assignment (groupByRoomAddress).
Group(assignment, r) == {d \in Devices : assignment[d] = r}

(* Store.Set overwrites the whole entry, LastForcedRefreshDay included. *)
Stored(e, new) == new

(* Store.SetError keeps the last good payload and records the error. *)
WithError(e) == [e EXCEPT !.err = TRUE]

-----------------------------------------------------------------------------
Init ==
    /\ calendar \in [Rooms -> {<<c>> : c \in Contents}]
    /\ config \in Assignments
    /\ cache = [d \in Devices |-> NoEntry]
    /\ tick = [running |-> FALSE, rooms |-> [d \in Devices |-> NoRoom], todo |-> {}]
    /\ workers = {}
    /\ writes = 0
    /\ restarts = 0

(* Somebody books or cancels: room r would now be drawn differently.         *)
CalendarChange(r) ==
    /\ Len(calendar[r]) < MaxVersion
    /\ \E c \in Contents \ {calendar[r][Len(calendar[r])]} :
           calendar' = [calendar EXCEPT ![r] = Append(@, c)]
    /\ UNCHANGED <<config, cache, tick, workers, writes, restarts>>

(* An admin adds a display, points it at another room or deletes it:       *)
(* cfg.Store publishes the new config; the cache is not told.              *)
ConfigWrite(d, r) ==
    /\ writes < MaxWrites
    /\ r # config[d]
    /\ config' = [config EXCEPT ![d] = r]
    /\ writes' = writes + 1
    /\ UNCHANGED <<calendar, cache, tick, workers, restarts>>

BugStartTickWithoutWaiting ==
    /\ tick.todo = {}
    /\ tick' = [running |-> TRUE, rooms |-> config,
                todo |-> {config[d] : d \in Devices} \ {NoRoom}]
    /\ UNCHANGED <<calendar, config, cache, workers, writes, restarts>>

(* Run: the ticker fires (or Run starts) and refreshAll snapshots the       *)
(* config.  refreshAll runs in Run's own goroutine, so ticks never overlap. *)
StartTick ==
    /\ ~tick.running
    /\ tick' = [running |-> TRUE, rooms |-> config,
                todo |-> {config[d] : d \in Devices} \ {NoRoom}]
    /\ UNCHANGED <<calendar, config, cache, workers, writes, restarts>>

BugSpawnFromLiveConfig(r) ==
    /\ r \in tick.todo
    /\ Cardinality(workers) < MaxFanOut
    /\ Group(config, r) # {}
    /\ tick' = [tick EXCEPT !.todo = @ \ {r}]
    /\ workers' = workers \cup
           {[room |-> r, st |-> "fetching", version |-> 0, left |-> Group(config, r)]}
    /\ UNCHANGED <<calendar, config, cache, writes, restarts>>

(* One goroutine per calendar address, once the semaphore lets it in.  The  *)
(* code takes the addresses in config order; any order is allowed here.     *)
Spawn(r) ==
    /\ r \in tick.todo
    /\ Cardinality(workers) < MaxFanOut
    /\ tick' = [tick EXCEPT !.todo = @ \ {r}]
    /\ workers' = workers \cup
           {[room |-> r, st |-> "fetching", version |-> 0, left |-> Group(tick.rooms, r)]}
    /\ UNCHANGED <<calendar, config, cache, writes, restarts>>

Become(w, new) == workers' = (workers \ {w}) \cup (IF new.left = {} THEN {} ELSE {new})

(* FetchSchedule returns what the calendar was when it answered; the room's *)
(* displays are updated from it later, one by one.                          *)
FetchAnswered(w) ==
    /\ w.st = "fetching"
    /\ Become(w, [w EXCEPT !.st = "publishing", !.version = Len(calendar[w.room])])
    /\ UNCHANGED <<calendar, config, cache, tick, writes, restarts>>

(* The calendar API fails, or the 20 s timeout passes. *)
FetchFailed(w) ==
    /\ w.st = "fetching"
    /\ Become(w, [w EXCEPT !.st = "failing"])
    /\ UNCHANGED <<calendar, config, cache, tick, writes, restarts>>

BugPublishRefetched(w, d) ==
    /\ w.st = "publishing"
    /\ d \in w.left
    /\ cache' = [cache EXCEPT ![d] = Stored(@, Render(w.room, Len(calendar[w.room])))]
    /\ Become(w, [w EXCEPT !.left = @ \ {d}])
    /\ UNCHANGED <<calendar, config, tick, writes, restarts>>

(* The loop over the group after a good answer: render (or reuse the memo)  *)
(* and Store.Set.                                                           *)
Publish(w, d) ==
    /\ w.st = "publishing"
    /\ d \in w.left
    /\ cache' = [cache EXCEPT ![d] = Stored(@, Render(w.room, w.version))]
    /\ Become(w, [w EXCEPT !.left = @ \ {d}])
    /\ UNCHANGED <<calendar, config, tick, writes, restarts>>

BugKeepSlotOnError(w, d) ==
    /\ w.st = "failing"
    /\ d \in w.left
    /\ cache' = [cache EXCEPT ![d] = WithError(@)]
    /\ workers' = (workers \ {w}) \cup {[w EXCEPT !.left = @ \ {d}]}
    /\ UNCHANGED <<calendar, config, tick, writes, restarts>>

(* The loop over the group after a failed fetch: Store.SetError. *)
RecordError(w, d) ==
    /\ w.st = "failing"
    /\ d \in w.left
    /\ cache' = [cache EXCEPT ![d] = WithError(@)]
    /\ Become(w, [w EXCEPT !.left = @ \ {d}])
    /\ UNCHANGED <<calendar, config, tick, writes, restarts>>

(* wg.Wait returns: every goroutine of the tick is done. *)
EndTick ==
    /\ tick.running
    /\ tick.todo = {}
    /\ workers = {}
    /\ tick' = [tick EXCEPT !.running = FALSE]
    /\ UNCHANGED <<calendar, config, cache, workers, writes, restarts>>

(* The broker stops and starts: cache and poller are in memory only, the    *)
(* config is read back from its durable copy.                               *)
Restart ==
    /\ restarts < MaxRestarts
    /\ cache' = [d \in Devices |-> NoEntry]
    /\ tick' = [running |-> FALSE, rooms |-> [d \in Devices |-> NoRoom], todo |-> {}]
    /\ workers' = {}
    /\ restarts' = restarts + 1
    /\ UNCHANGED <<calendar, config, writes>>

Work(w) ==
    \/ FetchAnswered(w)
    \/ FetchFailed(w)
    \/ \E d \in w.left : Publish(w, d) \/ RecordError(w, d)

PollerNext ==
    \/ \E r \in Rooms : CalendarChange(r) \/ Spawn(r)
    \/ \E d \in Devices, r \in Rooms \cup {NoRoom} : ConfigWrite(d, r)
    \/ StartTick
    \/ \E w \in workers : Work(w)
    \/ EndTick
    \/ Restart

Spec == Init /\ [][PollerNext]_pollerVars

(* Run and its goroutines keep running (Go schedules them, and the 20 s     *)
(* timeout ends every fetch); a calendar that is asked again and again      *)
(* answers sooner or later.  Nobody is obliged to book, write or crash.     *)
Fairness ==
    /\ WF_pollerVars(StartTick)
    /\ WF_pollerVars(EndTick)
    /\ \A r \in Rooms :
          /\ WF_pollerVars(Spawn(r))
          /\ WF_pollerVars(\E w \in workers : w.room = r /\ Work(w))
          /\ SF_pollerVars(\E w \in workers : w.room = r /\ FetchAnswered(w))

FairSpec == Spec /\ Fairness

-----------------------------------------------------------------------------
(* The types of the variables. *)
Entry == [room : Rooms \cup {NoRoom}, version : Nat,
          content : Contents \cup {NoContent}, err : BOOLEAN, forced : Nat]
Worker == [room : Rooms, st : {"fetching", "publishing", "failing"},
           version : Nat, left : SUBSET Devices]
TypeOK ==
    /\ calendar \in [Rooms -> Seq(Contents)]
    /\ \A r \in Rooms : Len(calendar[r]) \in 1..MaxVersion
    /\ config \in Assignments
    /\ cache \in [Devices -> Entry]
    /\ tick \in [running : BOOLEAN, rooms : Assignments, todo : SUBSET Rooms]
    /\ workers \in SUBSET Worker
    /\ writes \in Nat
    /\ restarts \in Nat

(* Each goroutine owns the displays it updates: no two goroutines work on   *)
(* one room, and a goroutine is left with displays of its own room only.    *)
WorkersAreDisjoint ==
    /\ \A w \in workers : /\ w.left # {}
                          /\ w.left \subseteq Group(tick.rooms, w.room)
                          /\ w.room \notin tick.todo
    /\ \A w1, w2 \in workers : w1.room = w2.room => w1 = w2
    /\ \A r \in tick.todo : Group(tick.rooms, r) # {}
    /\ ~tick.running => tick.todo = {} /\ workers = {}

(* What is cached, and what is about to be, really was in the calendar.     *)
EntriesAreGenuine ==
    /\ \A d \in Devices : cache[d].version # 0 =>
          /\ cache[d].room \in Rooms
          /\ cache[d].version <= Len(calendar[cache[d].room])
          /\ cache[d].content = calendar[cache[d].room][cache[d].version]
    /\ \A w \in workers : w.st = "publishing" => w.version \in 1..Len(calendar[w.room])

(* A goroutine that has its answer is not behind what its displays have.    *)
WorkersAreNotBehind ==
    \A w \in workers : w.st = "publishing" =>
        \A d \in w.left : cache[d].room = w.room => cache[d].version <= w.version

(* The inductive invariant: why an old answer can never land on a new one.  *)
PollerInv ==
    TypeOK /\ WorkersAreDisjoint /\ EntriesAreGenuine /\ WorkersAreNotBehind

(* While a device is about one room, its cached payload never goes back to  *)
(* an earlier version of the calendar: ticks that overlapped, or two        *)
(* goroutines on one address, would let a slow answer overwrite a newer one *)
(* (poller.go, refreshAll's wg.Wait and the grouping by address).           *)
CacheNeverGoesBack ==
    [][\A d \in Devices :
          cache'[d].version # 0 /\ cache'[d].room = cache[d].room
              => cache'[d].version >= cache[d].version]_pollerVars

(* A failing calendar never takes a payload away: once a device has been    *)
(* given one it can always be served, until the broker restarts (SetError   *)
(* keeps the old entry, so a good device is not sent back to 503).          *)
PayloadSurvivesErrors ==
    [][\A d \in Devices : cache[d].version # 0 /\ restarts' = restarts
                             => cache'[d].version # 0]_pollerVars

(* Two panels of one room agree between ticks: both were updated from one   *)
(* answer, or both carry the error of one failed fetch (poller.go fetches   *)
(* once per address so that a room's displays cannot disagree).             *)
SettledDisplaysAgree ==
    ~tick.running => \A d1, d2 \in Devices :
        tick.rooms[d1] = tick.rooms[d2] /\ tick.rooms[d1] # NoRoom =>
            /\ cache[d1].err = cache[d2].err
            /\ ~cache[d1].err => Etag(cache[d1]) = Etag(cache[d2])
                                 /\ cache[d1].version = cache[d2].version

(* Between ticks a display that was pointed at another room has that room's *)
(* payload, or is marked as failing: config and cache are two stores, and   *)
(* nothing invalidates the cache when admin.go changes the config.          *)
SettledEntryIsOfItsRoom ==
    ~tick.running => \A d \in Devices :
        tick.rooms[d] # NoRoom /\ ~cache[d].err => cache[d].room = tick.rooms[d]

(* Once calendars and config stop changing, every configured display's      *)
(* cache entry is its room's latest version, however many fetches failed.   *)
CacheCatchesUp ==
    \A d \in Devices : <>[](config[d] # NoRoom =>
        cache[d].room = config[d] /\ cache[d].version = Len(calendar[config[d]]))

(* The cache seen as a board. *)
CacheBoard == INSTANCE RoomBoard WITH
    board <- [d \in Devices |-> [room |-> cache[d].room, version |-> cache[d].version]]

(* The cache implements the board that DisplayPath's panels implement too:  *)
(* poller.go's ticks and goroutines only ever post a newer version.         *)
CacheIsABoard == CacheBoard!BoardSpec
=============================================================================
