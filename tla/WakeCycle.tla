----------------------------- MODULE WakeCycle -----------------------------
(***************************************************************************)
(* One display's life as a chain of wakes and sleeps (app_main.cpp,        *)
(* wifi_fast.cpp, power.cpp, ota.cpp) against the broker's schedule        *)
(* (WakeSchedule, handleDisplay): how long it sleeps after each outcome,   *)
(* what the broker believes it sleeps, and what the panel shows meanwhile. *)
(* `now` is the time of the last wake; a wake takes no time.  What the     *)
(* poller put in the cache is what the calendar said `age` ago, the        *)
(* calendar itself being fixed (RoomPoller has the changing one).          *)
(***************************************************************************)
EXTENDS WakeSchedule

CONSTANTS Calendars,          \* the events a room may have
          RoomSettings,       \* [mode, interval] of a room
          APs, NoAP,          \* access points; none
          Versions,           \* firmware versions, FirstVersion the installed one
          FirstVersion,
          DefaultWake,        \* firmware: no sleep known, or no Wi-Fi
          Ages,               \* of the poller's last look, at a fetch
          MaxDrift, Drifts,   \* of the RTC, over one sleep, either way
          Touches,            \* delays after which a button may be pressed
          StartTimes,         \* of a first wake
          Watched, MaxChanges \* bounds: the times followed, the changes made

ASSUME WakeCycleAssumption ==
    /\ \A c \in Calendars : IsCalendar(c)
    /\ DefaultWake \in MinWake..MaxWake
    /\ Ages \cup Touches \cup StartTimes \cup Watched \subseteq Nat
    /\ MaxChanges \in Nat
    /\ MaxDrift \in Nat /\ 2 * MaxDrift <= MinWake
    /\ Drifts \subseteq -MaxDrift..MaxDrift
    /\ NoAP \notin APs
    /\ FirstVersion \in Versions
    /\ \A r \in RoomSettings : r.mode \in {"smart", "flat"} /\ r.interval \in Nat

VARIABLES now, sleep,         \* the last wake and the sleep begun after it
          cal, room,          \* the room's events and its settings
          ap,                 \* the access point that serves the spot
          advert,             \* the version the broker advertises
          dev,                \* the device's RTC memory and flash
          expected,           \* Store.expectedWake: the broker's idea of sleep
          shown,              \* what the panel was last painted with
          cycle,              \* history: the last wake and its outcome
          changes             \* history: changes of the world so far

world == <<cal, room, ap, advert, changes>>
vars == <<now, sleep, dev, expected, shown, cycle, world>>

NoView == [status |-> "blank", event |-> NoEvent]

View(cur, next, t) == [status |-> RoomStatus(cur, next, t),
                       event |-> IF cur # NoEvent THEN cur ELSE next]
ViewAt(t) == View(Current(cal, t), NextEvent(cal, t), t)

Backoff == 5                  \* failures are told apart up to "more than 4"

(* RTC memory after anything but a deep sleep; the version is in flash. *)
ColdBoot(fw, clock) == [next |-> 0, fails |-> 0, pin |-> NoAP, fw |-> fw, clock |-> clock]

BugShortIsNone(s) ==
    IF s < MinWake THEN DefaultWake ELSE IF s > MaxWake THEN MaxWake ELSE s

clamp_wake(s) ==
    IF s = 0 THEN DefaultWake
    ELSE IF s < MinWake THEN MinWake ELSE IF s > MaxWake THEN MaxWake ELSE s

Outcome(kind, touch, age, grid) ==
    [kind |-> kind, touch |-> touch, age |-> age, grid |-> grid, heard |-> ap # NoAP]

Init ==
    /\ now \in StartTimes /\ sleep = 0
    /\ cal \in Calendars /\ room \in RoomSettings
    /\ ap \in APs /\ advert = FirstVersion
    /\ dev = ColdBoot(FirstVersion, FALSE)
    /\ expected = 0 /\ shown = NoView
    /\ cycle = Outcome("off", FALSE, 0, 0)
    /\ changes = 0

(***************************************************************************)
(* The wakes: by the RTC timer, by a button while asleep, or at power-on   *)
(* (sleep = 0).                                                            *)
(***************************************************************************)
Wakes ==
    {[t |-> now + sleep + d, touch |-> FALSE] : d \in IF sleep = 0 THEN {0} ELSE Drifts}
    \cup {[t |-> now + k, touch |-> TRUE] : k \in {k \in Touches : k < sleep}}

DeepSleep(w, s) ==
    /\ now' = w.t
    /\ sleep' = s

CanAssociate == ap # NoAP /\ dev.pin \in {NoAP, ap}

BugKeepPin(d) == [d EXCEPT !.fails = IF @ < Backoff THEN @ + 1 ELSE @]
LostWifi(d) == [d EXCEPT !.fails = IF @ < Backoff THEN @ + 1 ELSE @, !.pin = NoAP]
BugKeepFails(d) == [d EXCEPT !.pin = ap]
Associated(d) == [d EXCEPT !.fails = 0, !.pin = ap]

\* connect() fails: the pinned access point is gone, or there is none.
WifiFails(w) ==
    LET lost == LostWifi(dev)
        pause == clamp_wake(DefaultWake * (IF lost.fails > 4 THEN 4 ELSE 1))
    IN  /\ ~CanAssociate
        /\ dev' = [lost EXCEPT !.next = pause]
        /\ DeepSleep(w, pause)
        /\ cycle' = Outcome("wifi", w.touch, 0, 0)
        /\ UNCHANGED <<expected, shown, world>>

\* Online but told nothing: the sleep is the last one again.
KeepSleep(w, kind, clock) ==
    /\ CanAssociate
    /\ dev' = [Associated(dev) EXCEPT !.next = clamp_wake(dev.next), !.clock = clock]
    /\ DeepSleep(w, clamp_wake(dev.next))
    /\ cycle' = Outcome(kind, w.touch, 0, 0)

\* The clock is not set and no time server answers.
TimeFails(w) ==
    /\ ~dev.clock
    /\ KeepSleep(w, "time", FALSE)
    /\ UNCHANGED <<expected, shown, world>>

\* The broker cannot be reached, or refuses the token: it has done nothing.
FetchFails(w) ==
    /\ KeepSleep(w, "fetch", TRUE)
    /\ UNCHANGED <<expected, shown, world>>

\* 503: the broker has restarted, no frame yet (and no expectation either).
NoPayload(w) ==
    /\ CanAssociate
    /\ dev' = [Associated(dev) EXCEPT !.next = MinWake, !.clock = TRUE]
    /\ DeepSleep(w, MinWake)
    /\ cycle' = Outcome("nopayload", w.touch, 0, 0)
    /\ expected' = 0
    /\ UNCHANGED <<shown, world>>

(***************************************************************************)
(* An answered fetch (200 or 304): the broker works out the sleep from     *)
(* what the poller saw `age` ago and the time of the request, notes what   *)
(* it takes the device to do, and the device does what it makes of it.     *)
(***************************************************************************)
Sent(t, age) ==
    NextWakeDuration(room, Current(cal, t - age), NextEvent(cal, t - age), t)

Told(s) == IF s # 0 THEN clamp_wake(s) ELSE clamp_wake(dev.next)

FlatGrid(t) ==
    IF room.mode = "smart" THEN 0
    ELSE IF room.interval > 0 THEN room.interval
    ELSE IF IsBusinessHours(t) THEN BusinessSeconds ELSE OffHoursSeconds

SetExpectedWake(t, age) == expected' = ClampWakeSeconds(Sent(t, age))

\* The reply is lost before its headers are read.
ReplyLost(w) == \E age \in {a \in Ages : a <= w.t} :
    /\ KeepSleep(w, "fetch", TRUE)
    /\ SetExpectedWake(w.t, age)
    /\ UNCHANGED <<shown, world>>

Answered(w, age, painted) ==
    /\ CanAssociate
    /\ SetExpectedWake(w.t, age)
    /\ shown' = IF painted THEN ViewAt(w.t - age) ELSE shown
    /\ UNCHANGED world

\* The body does not arrive, or the panel refuses it: the sleep is known.
NotPainted(w) == \E age \in {a \in Ages : a <= w.t} :
    LET told == Told(Sent(w.t, age)) IN
    /\ Answered(w, age, FALSE)
    /\ dev' = [Associated(dev) EXCEPT !.next = told, !.clock = TRUE]
    /\ DeepSleep(w, told)
    /\ cycle' = Outcome("unpainted", w.touch, age, FlatGrid(w.t))

Painted(w) == \E age \in {a \in Ages : a <= w.t} :
    LET told == Told(Sent(w.t, age)) IN
    /\ Answered(w, age, TRUE)
    /\ dev' = [Associated(dev) EXCEPT !.next = told, !.clock = TRUE]
    /\ DeepSleep(w, told)
    /\ cycle' = Outcome("painted", w.touch, age, FlatGrid(w.t))

\* A newer version is installed at the end of the wake and the chip restarts;
\* its clock may or may not survive.
Update(w) == \E age \in {a \in Ages : a <= w.t}, painted, clock \in BOOLEAN :
    /\ ~w.touch
    /\ advert # dev.fw
    /\ Answered(w, age, painted)
    /\ dev' = ColdBoot(advert, clock)
    /\ DeepSleep(w, 0)
    /\ cycle' = Outcome("update", w.touch, age, 0)

Wake == \E w \in Wakes :
    /\ w.t \in Watched
    /\ \/ WifiFails(w) \/ TimeFails(w) \/ FetchFails(w) \/ NoPayload(w)
       \/ ReplyLost(w) \/ NotPainted(w) \/ Painted(w) \/ Update(w)

(***************************************************************************)
(* The world around it.                                                    *)
(***************************************************************************)
Change == changes < MaxChanges /\ changes' = changes + 1

MoveAP(a) ==
    /\ Change
    /\ a # ap /\ ap' = a
    /\ UNCHANGED <<now, sleep, dev, expected, shown, cycle, cal, room, advert>>

SetRoom(r) ==
    /\ Change
    /\ r # room /\ room' = r
    /\ UNCHANGED <<now, sleep, dev, expected, shown, cycle, cal, ap, advert>>

Advertise(v) ==
    /\ Change
    /\ v # advert /\ advert' = v
    /\ UNCHANGED <<now, sleep, dev, expected, shown, cycle, cal, room, ap>>

\* Power is lost during a sleep and is back at once.
PowerCut(k) ==
    /\ Change
    /\ k < sleep
    /\ dev' = ColdBoot(dev.fw, FALSE)
    /\ now' = now + k /\ sleep' = 0
    /\ cycle' = Outcome("off", FALSE, 0, 0)
    /\ UNCHANGED <<expected, shown, cal, room, ap, advert>>

World ==
    \/ \E a \in APs \cup {NoAP} : MoveAP(a)
    \/ \E r \in RoomSettings : SetRoom(r)
    \/ \E v \in Versions : Advertise(v)
    \/ \E k \in Touches : PowerCut(k)

Next == Wake \/ World

Spec == Init /\ [][Next]_vars

(***************************************************************************)
(* Properties.                                                             *)
(***************************************************************************)
Kinds == {"off", "wifi", "time", "fetch", "nopayload", "unpainted", "painted", "update"}

(* Types, and: a device sleeps within its own clamp or restarts at once,    *)
(* remembers the sleep it is in, backs off to four default sleeps only      *)
(* while it has no Wi-Fi, and stays pinned only to an access point.         *)
WakeInv ==
    /\ now \in Nat /\ changes \in 0..MaxChanges
    /\ sleep \in {0} \cup MinWake..MaxWake
    /\ dev \in [next : {0} \cup MinWake..MaxWake, fails : 0..Backoff,
                pin : APs \cup {NoAP}, fw : Versions, clock : BOOLEAN]
    /\ dev.next = sleep
    /\ dev.fails > 0 => dev.pin = NoAP
    /\ expected \in {0} \cup MinWake..MaxWake
    /\ cycle.kind \in Kinds
    /\ cycle.kind = "wifi" <=> dev.fails > 0
    /\ cycle.kind \in {"off", "update"} <=> sleep = 0

\* The poller's look that the last answer was made from was still true then.
Fresh == ViewAt(now - cycle.age) = ViewAt(now)

(* A smart panel painted with what was true then is still right when the    *)
(* device wakes, or has been wrong only for a buffer, a shortest sleep and  *)
(* a drift: starting-soon, start and end of a meeting each get a wake       *)
(* (calendar.go, NextTransitionAt; StartingSoonWindow: "the device is woken *)
(* exactly when this state would change").                                  *)
StatusShownOnTime ==
    (cycle.kind = "painted" /\ cycle.grid = 0 /\ Fresh) =>
        LET end == now + sleep + MaxDrift IN
        \E t \in (end - (TransitionBuffer + MinWake + MaxDrift))..end : ViewAt(t) = shown

(* After an answer made from a look that was still true the broker's idea   *)
(* of the sleep, by which it judges the display stale, is the sleep the     *)
(* device is in: the two clamps agree, and no answer is a sleep of 0, which *)
(* the two read differently.                                                *)
FreshAnswerIsExpected ==
    (cycle.kind \in {"painted", "unpainted"} /\ Fresh) => expected = sleep

NearestSlot(t, i) == (t - GridOffset + (i \div 2)) \div i
OnGrid(t, i) == LET off == t - GridOffset - NearestSlot(t, i) * i IN
                -MaxDrift <= off /\ off <= MaxDrift

(* A flat display wakes by its timer on the fleet's grid, whatever it woke  *)
(* from before, and never twice for one point of it: one that wakes a       *)
(* moment early is not sent back for the moment (secondsUntilNextBoundary). *)
FlatWakesOncePerSlot ==
    [][LET i == cycle.grid IN
       (/\ i > MinWake /\ i + MinWake <= MaxWake
        /\ now' # now /\ ~cycle'.touch /\ cycle'.kind # "off")
       => /\ OnGrid(now', i)
          /\ OnGrid(now, i) => NearestSlot(now', i) > NearestSlot(now, i)]_vars

(* A display whose access point was replaced misses one wake for it: the    *)
(* failure clears the pin, and the next wake scans (connect()).             *)
RoamCostsOneWake ==
    [][(cycle.kind = "wifi" /\ cycle.heard /\ now' # now /\ ap # NoAP)
       => cycle'.kind # "wifi"]_vars
=============================================================================
