---------------------------- MODULE WakeSchedule ----------------------------
(***************************************************************************)
(* When a display should wake: the pure part of the answer to a device.    *)
(* The calendar package says what a room is doing and when that changes    *)
(* next (calendar.go); the config package turns it into a sleep, by the    *)
(* calendar (smart) or on a fixed grid (flat) (config.go, NextWakeDuration *)
(* and below).  Times and sleeps count one unit; MCWakeCycle's is half a   *)
(* minute.  A local day starts at the multiples of Day: the grid is the    *)
(* same in every zone with a whole-hour offset.                            *)
(***************************************************************************)
EXTENDS Integers, Sequences, FiniteSetsExt

CONSTANTS MinWake, MaxWake,        \* the firmware's clamp, mirrored by the broker
          GridOffset,              \* the grid trails the quarter hours
          SoonWindow, BackToBackWindow, TransitionBuffer,
          Day, Weekend,            \* length of a day; numbers of the days off
          BusinessStart, BusinessEnd,          \* of a working day
          BusinessSeconds, OffHoursSeconds     \* the fleet's intervals

ASSUME WakeScheduleAssumption ==
    /\ {MinWake, MaxWake, TransitionBuffer, Day} \subseteq Nat \ {0}
    /\ {BusinessSeconds, OffHoursSeconds} \subseteq Nat \ {0}
    /\ {GridOffset, SoonWindow, BackToBackWindow} \subseteq Nat
    /\ MinWake <= MaxWake
    /\ {BusinessStart, BusinessEnd} \subseteq Nat
    /\ BusinessStart < BusinessEnd /\ BusinessEnd <= Day

NoEvent == [start |-> 0, end |-> 0]

(* A calendar is a sequence of events, which the broker has sorted by start *)
(* (normalize).  The first of a choice is the first in this order.          *)
IsCalendar(cal) ==
    /\ cal \in Seq([start : Nat, end : Nat \ {0}])
    /\ \A i, j \in DOMAIN cal : i < j => cal[i].start <= cal[j].start

First(cal, I) == IF I = {} THEN NoEvent ELSE cal[Min(I)]

Current(cal, t) == First(cal, {i \in DOMAIN cal : cal[i].start <= t /\ t < cal[i].end})
NextEvent(cal, t) == First(cal, {i \in DOMAIN cal : cal[i].start >= t})

RoomStatus(cur, next, t) ==
    IF cur # NoEvent THEN "in_meeting"
    ELSE IF next # NoEvent /\ next.start - t <= SoonWindow THEN "starting_soon"
    ELSE "available"

BackToBack(cur, next) ==
    cur # NoEvent /\ next # NoEvent /\ next.start - cur.end <= BackToBackWindow

BugNoSoon(cur, next, t) ==
    LET change == IF cur # NoEvent THEN cur.end ELSE next.start IN
    change + TransitionBuffer

(* When the status could change next, of two events that are not both       *)
(* missing (NextTransitionAt, whose ok is the caller's first test here).    *)
TransitionAt(cur, next, t) ==
    LET reveal == cur.end - BackToBackWindow
        soon == next.start - SoonWindow
        change == IF cur # NoEvent
                  THEN IF BackToBack(cur, next) /\ t < reveal THEN reveal ELSE cur.end
                  ELSE IF t < soon THEN soon ELSE next.start
    IN  change + TransitionBuffer

IsBusinessHours(t) ==
    /\ (t \div Day) \notin Weekend
    /\ BusinessStart <= t % Day
    /\ t % Day < BusinessEnd

BugNoSkip(t, interval) ==
    IF interval = 0 THEN 0
    ELSE (((t - GridOffset) \div interval) + 1) * interval + GridOffset - t

(* The next point of the grid; one that is nearer than a device can sleep   *)
(* is skipped for the one after (secondsUntilNextBoundary).                 *)
UntilNextBoundary(t, interval) ==
    IF interval = 0 THEN 0
    ELSE LET d == (((t - GridOffset) \div interval) + 1) * interval + GridOffset - t
         IN  IF d < MinWake /\ interval > MinWake THEN d + interval ELSE d

UntilBusinessStart(t) ==
    LET today == (t \div Day) * Day + BusinessStart
    IN  (IF today > t THEN today ELSE today + Day) - t

(* A room's own interval (0: none) beats the fleet's two. *)
FlatWake(interval, t) ==
    UntilNextBoundary(t, IF interval > 0 THEN interval
                         ELSE IF IsBusinessHours(t) THEN BusinessSeconds
                         ELSE OffHoursSeconds)

SmartWake(cur, next, t) ==
    LET dur == Max({TransitionAt(cur, next, t) - t, 0})
    IN  IF cur = NoEvent /\ next = NoEvent
        THEN IF IsBusinessHours(t) THEN UntilNextBoundary(t, BusinessSeconds)
             ELSE UntilBusinessStart(t)
        ELSE IF IsBusinessHours(t) THEN Min({dur, BusinessSeconds}) ELSE dur

NextWakeDuration(room, cur, next, t) ==
    IF room.mode = "smart" THEN SmartWake(cur, next, t) ELSE FlatWake(room.interval, t)

(* What the broker takes a device's sleep to be (ClampWakeSeconds). *)
ClampWakeSeconds(s) ==
    IF s < MinWake THEN MinWake ELSE IF s > MaxWake THEN MaxWake ELSE s
=============================================================================
