---------------------------- MODULE WakeCycleProofs ----------------------------
(***************************************************************************)
(* Proofs about WakeCycle and WakeSchedule, for any calendars, grids,      *)
(* intervals, clamps, drifts and bounds.                                   *)
(*                                                                         *)
(* Three facts about the broker's arithmetic carry them: the next point of *)
(* a grid (FlatSleepIsNextSlot), how long what a panel shows stays true    *)
(* (Transition), and that a smart sleep ends by then (SmartSleep).  The    *)
(* invariant IInv then relates the sleep a device is in to the answer it   *)
(* had: beside the properties themselves, the end of a flat sleep is a     *)
(* point of the grid (OnItsGrid), which the next wake's place depends on.  *)
(* WakeStep and WorldStep show that the steps keep it.                     *)
(***************************************************************************)
EXTENDS WakeCycle, WellFoundedInduction, TLAPS

-----------------------------------------------------------------------------
(* Arithmetic of a grid.                                                    *)

(* Division rounds down (Go's integer division of what is not negative).    *)
LEMMA Division ==
    ASSUME NEW t \in Int, NEW i \in Nat \ {0}
    PROVE  t \div i \in Int /\ (t \div i) * i <= t /\ t < (t \div i) * i + i
BY Z3

(* Points of a grid are an interval apart.                                  *)
LEMMA Times ==
    ASSUME NEW a \in Int, NEW b \in Int, NEW i \in Nat \ {0}, a < b
    PROVE  a * i + i <= b * i
BY Z3

(* A point of the grid and what follows it, up to the next, divide to it.   *)
LEMMA Quotient ==
    ASSUME NEW t \in Int, NEW i \in Nat \ {0}, NEW q \in Int, q * i <= t, t < q * i + i
    PROVE  t \div i = q
<1> DEFINE p == t \div i
<1>1. p \in Int /\ p * i <= t /\ t < p * i + i /\ p * i \in Int /\ q * i \in Int
  BY Division
<1> HIDE DEF p
<1>2. CASE p < q
  BY <1>1, <1>2, Times
<1>3. CASE q < p
  BY <1>1, <1>3, Times
<1> QED
  BY <1>1, <1>2, <1>3 DEF p

(* The next point of a grid is on the grid, and no further away than an     *)
(* interval and what was skipped; a device can sleep until it, and there is *)
(* no earlier one that it could sleep until (secondsUntilNextBoundary).     *)
THEOREM FlatSleepIsNextSlot ==
    ASSUME NEW t \in Int, NEW i \in Nat \ {0}
    PROVE  LET u == UntilNextBoundary(t, i)
               x == t + u - GridOffset
           IN  /\ u \in Nat \ {0}
               /\ \E k \in Int : x = k * i
               /\ i > MinWake =>
                     /\ MinWake <= u /\ u < i + MinWake
                     /\ \A k \in Int : k * i - (t - GridOffset) >= MinWake => x <= k * i
<1> DEFINE q == (t - GridOffset) \div i
           d == (q + 1) * i + GridOffset - t
           u == UntilNextBoundary(t, i)
<1>1. MinWake \in Nat \ {0} /\ GridOffset \in Nat
  BY WakeScheduleAssumption
<1>2. q \in Int /\ q * i <= t - GridOffset /\ t - GridOffset < q * i + i /\ q * i \in Int
  BY <1>1, Division
<1>3. u = IF d < MinWake /\ i > MinWake THEN d + i ELSE d
  BY DEF UntilNextBoundary
<1> HIDE DEF q, u
<1>4. (q + 1) * i = q * i + i /\ (q + 2) * i = q * i + i + i
  BY <1>2, Z3
<1>5. d = q * i + i + GridOffset - t /\ d \in 1..i
  BY <1>1, <1>2, <1>4
<1> HIDE DEF d
<1>6. u \in Nat \ {0} /\ (i > MinWake => MinWake <= u /\ u < i + MinWake)
  BY <1>1, <1>3, <1>5
<1>7. t + u - GridOffset = IF d < MinWake /\ i > MinWake THEN (q + 2) * i ELSE (q + 1) * i
  BY <1>1, <1>2, <1>3, <1>4, <1>5
<1>8. ASSUME NEW k \in Int, i > MinWake, k * i - (t - GridOffset) >= MinWake
      PROVE  t + u - GridOffset <= k * i
  <2>1. k * i \in Int
    BY Z3
  <2>2. CASE k <= q
    <3>1. k * i <= q * i
      BY <1>2, <2>1, <2>2, Times
    <3> QED
      BY <1>1, <1>2, <1>8, <2>1, <3>1
  <2>3. CASE k = q + 1
    BY <1>1, <1>2, <1>3, <1>4, <1>5, <1>8, <2>3
  <2>4. CASE k > q + 1
    <3>1. (q + 1) * i + i <= k * i
      BY <1>2, <2>4, Times
    <3> QED
      BY <1>1, <1>2, <1>3, <1>4, <1>5, <2>1, <3>1
  <2> QED
    BY <1>2, <2>2, <2>3, <2>4
<1>9. \E k \in Int : t + u - GridOffset = k * i
  <2>1. CASE d < MinWake /\ i > MinWake
    <3>1. t + u - GridOffset = (q + 2) * i /\ q + 2 \in Int
      BY <1>2, <1>7, <2>1
    <3> QED
      BY <3>1, Zenon
  <2>2. CASE ~(d < MinWake /\ i > MinWake)
    <3>1. t + u - GridOffset = (q + 1) * i /\ q + 1 \in Int
      BY <1>2, <1>7, <2>2
    <3> QED
      BY <3>1, Zenon
  <2> QED
    BY <2>1, <2>2
<1> QED
  BY <1>6, <1>8, <1>9, Zenon DEF u

(* A wake that is off its point of the grid by no more than the drift is    *)
(* nearest to this point, if the interval is longer than the shortest sleep.*)
LEMMA Nearest ==
    ASSUME NEW k \in Int, NEW i \in Nat \ {0}, i > MinWake, NEW t \in Int,
           LET off == t - GridOffset - k * i IN -MaxDrift <= off /\ off <= MaxDrift
    PROVE  NearestSlot(t, i) = k
<1> DEFINE h == i \div 2
<1>1. MinWake \in Nat \ {0} /\ GridOffset \in Nat /\ MaxDrift \in Nat /\ 2 * MaxDrift <= MinWake
  BY WakeScheduleAssumption, WakeCycleAssumption
<1>2. h \in Int /\ 2 * h <= i /\ i <= 2 * h + 1
  BY Z3
<1>3. k * i \in Int
  BY Z3
<1> HIDE DEF h
<1>4. k * i <= t - GridOffset + h /\ t - GridOffset + h < k * i + i
  BY <1>1, <1>2, <1>3
<1>5. (t - GridOffset + h) \div i = k
  BY <1>1, <1>2, <1>4, Quotient
<1> QED
  BY <1>5 DEF NearestSlot, h
-----------------------------------------------------------------------------
(* The calendar: how long a view lasts.                                     *)

(* The least index of a choice.                                             *)
LEMMA LeastOf ==
    ASSUME NEW I, I \subseteq Nat, I # {}
    PROVE  Min(I) \in I /\ \A j \in I : Min(I) <= j
<1> DEFINE less == OpToRel(<, Nat)
<1>1. IsWellFoundedOn(less, Nat)
  BY NatLessThanWellFounded
<1>2. \A x, y \in Nat : x < y => <<x, y>> \in less
  BY DEF OpToRel
<1> HIDE DEF less
<1>3. PICK m \in I : \A y \in I : <<y, m>> \notin less
  BY <1>1, WFMin
<1>4. \A y \in I : m <= y
  <2> SUFFICES ASSUME NEW y \in I PROVE m <= y
    OBVIOUS
  <2>1. m \in Nat /\ y \in Nat /\ ~(y < m)
    BY <1>2, <1>3, Zenon
  <2> QED
    BY <2>1
<1> QED
  BY <1>4 DEF Min

Event == [start : Nat, end : Nat \ {0}]
Covers(e, t) == e.start <= t /\ t < e.end

(* What a calendar holds: sorted events (normalize, calendar.go).           *)
LEMMA CalendarFacts ==
    ASSUME NEW c, IsCalendar(c)
    PROVE  /\ DOMAIN c \subseteq Nat
           /\ \A i \in DOMAIN c : c[i] \in Event /\ c[i].start \in Nat /\ c[i].end \in Nat
           /\ \A i, j \in DOMAIN c : i < j => c[i].start <= c[j].start
<1>1. c \in Seq(Event)
  BY DEF IsCalendar, Event
<1>2. DOMAIN c = 1..Len(c) /\ Len(c) \in Nat /\ \A i \in 1..Len(c) : c[i] \in Event
  BY <1>1
<1>3. \A e \in Event : e.start \in Nat /\ e.end \in Nat
  BY DEF Event
<1>4. \A i, j \in DOMAIN c : i < j => c[i].start <= c[j].start
  BY DEF IsCalendar
<1> QED
  BY <1>2, <1>3, <1>4

(* The first of the events picked is an event, and none before it is picked.*)
LEMMA FirstIs ==
    ASSUME NEW c, IsCalendar(c), NEW I, I \subseteq DOMAIN c
    PROVE  /\ First(c, I) = NoEvent <=> I = {}
           /\ I # {} => /\ Min(I) \in I /\ \A j \in I : Min(I) <= j
                        /\ First(c, I) = c[Min(I)] /\ First(c, I) \in Event
<1>1. DOMAIN c \subseteq Nat /\ \A i \in DOMAIN c : c[i] \in Event
  BY CalendarFacts
<1>2. CASE I = {}
  BY <1>2 DEF First
<1>3. CASE I # {}
  <2>1. Min(I) \in I /\ \A j \in I : Min(I) <= j
    BY <1>1, <1>3, LeastOf
  <2>2. First(c, I) = c[Min(I)] /\ c[Min(I)] \in Event
    BY <1>1, <1>3, <2>1 DEF First
  <2>3. c[Min(I)].end # 0
    BY <2>2 DEF Event
  <2>4. c[Min(I)] # NoEvent
    BY <2>3 DEF NoEvent
  <2> QED
    BY <1>3, <2>1, <2>2, <2>4
<1> QED
  BY <1>2, <1>3

Now(c, t) == {i \in DOMAIN c : Covers(c[i], t)}
Later(c, t) == {i \in DOMAIN c : c[i].start >= t}

(* The current meeting is on, and the first that is (calendar.go, Current). *)
LEMMA CurrentIs ==
    ASSUME NEW c, IsCalendar(c), NEW t \in Nat
    PROVE  /\ Current(c, t) = NoEvent <=> Now(c, t) = {}
           /\ Now(c, t) # {} =>
                 /\ Min(Now(c, t)) \in Now(c, t) /\ \A j \in Now(c, t) : Min(Now(c, t)) <= j
                 /\ Current(c, t) = c[Min(Now(c, t))]
                 /\ Current(c, t) \in Event /\ Covers(Current(c, t), t)
<1>1. Current(c, t) = First(c, Now(c, t)) /\ Now(c, t) \subseteq DOMAIN c
  BY DEF Current, Now, Covers
<1>2. \A i \in Now(c, t) : Covers(c[i], t)
  BY DEF Now
<1> QED
  BY <1>1, <1>2, FirstIs

(* The next meeting starts no earlier than the look, and no later than any  *)
(* other that does (calendar.go, Next).                                     *)
LEMMA NextIs ==
    ASSUME NEW c, IsCalendar(c), NEW t \in Nat
    PROVE  /\ NextEvent(c, t) = NoEvent <=> Later(c, t) = {}
           /\ Later(c, t) # {} =>
                 /\ Min(Later(c, t)) \in Later(c, t) /\ \A j \in Later(c, t) : Min(Later(c, t)) <= j
                 /\ NextEvent(c, t) = c[Min(Later(c, t))]
                 /\ NextEvent(c, t) \in Event /\ NextEvent(c, t).start >= t
<1>1. NextEvent(c, t) = First(c, Later(c, t)) /\ Later(c, t) \subseteq DOMAIN c
  BY DEF NextEvent, Later
<1>2. \A i \in Later(c, t) : c[i].start >= t
  BY DEF Later
<1> QED
  BY <1>1, <1>2, FirstIs

(* A meeting stays the current one to its end: one that takes over before   *)
(* would have begun no later, and been the current one already.             *)
LEMMA MeetingLasts ==
    ASSUME NEW c, IsCalendar(c), NEW t \in Nat, NEW u \in Nat, t <= u,
           Current(c, t) # NoEvent, u < Current(c, t).end
    PROVE  Current(c, u) = Current(c, t)
<1> DEFINE i == Min(Now(c, t))
           k == Min(Now(c, u))
<1>0. /\ DOMAIN c \subseteq Nat
      /\ \A j \in DOMAIN c : c[j].start \in Nat /\ c[j].end \in Nat
      /\ \A j, m \in DOMAIN c : j < m => c[j].start <= c[m].start
  BY CalendarFacts
<1>1. i \in Now(c, t) /\ (\A j \in Now(c, t) : i <= j) /\ Current(c, t) = c[i]
  BY CurrentIs
<1>2. i \in Now(c, u)
  BY <1>0, <1>1 DEF Now, Covers
<1>3. k \in Now(c, u) /\ k <= i /\ Current(c, u) = c[k]
  BY <1>2, CurrentIs
<1> HIDE DEF i, k
<1>4. k \in Nat /\ i \in Nat
  BY <1>0, <1>1, <1>3 DEF Now
<1>5. CASE k < i
  <2>1. k \in Now(c, t)
    BY <1>0, <1>1, <1>3, <1>5 DEF Now, Covers
  <2> QED
    BY <1>1, <1>4, <1>5, <2>1
<1> QED
  BY <1>1, <1>3, <1>4, <1>5

(* While nothing is on and until the next meeting starts, nothing comes in  *)
(* between.                                                                 *)
LEMMA PauseLasts ==
    ASSUME NEW c, IsCalendar(c), NEW t \in Nat, NEW u \in Nat, t <= u,
           Current(c, t) = NoEvent,
           NextEvent(c, t) = NoEvent \/ u < NextEvent(c, t).start
    PROVE  Current(c, u) = NoEvent /\ NextEvent(c, u) = NextEvent(c, t)
<1>0. /\ DOMAIN c \subseteq Nat
      /\ \A j \in DOMAIN c : c[j].start \in Nat /\ c[j].end \in Nat
      /\ \A j, m \in DOMAIN c : j < m => c[j].start <= c[m].start
  BY CalendarFacts
<1>1. Now(c, t) = {}
  BY CurrentIs
<1>2. \A j \in Now(c, u) : j \in Later(c, t) /\ c[j].start <= u
  BY <1>0, <1>1 DEF Now, Later, Covers
<1>3. CASE NextEvent(c, t) = NoEvent
  <2>1. Later(c, t) = {}
    BY <1>3, NextIs
  <2>2. Now(c, u) = {} /\ Later(c, u) = {}
    BY <1>0, <1>2, <2>1 DEF Later
  <2> QED
    BY <1>3, <2>2, CurrentIs, NextIs
<1>4. CASE NextEvent(c, t) # NoEvent
  <2> DEFINE i == Min(Later(c, t))
             k == Min(Later(c, u))
  <2>1. i \in Later(c, t) /\ (\A j \in Later(c, t) : i <= j) /\ NextEvent(c, t) = c[i]
    BY <1>4, NextIs
  <2>2. u < c[i].start
    BY <1>4, <2>1
  <2>3. i \in Later(c, u)
    BY <1>0, <2>1, <2>2 DEF Later
  <2>4. k \in Later(c, u) /\ k <= i /\ NextEvent(c, u) = c[k]
    BY <2>3, NextIs
  <2> HIDE DEF i, k
  <2>5. k \in Later(c, t) /\ k \in Nat /\ i \in Nat
    BY <1>0, <2>1, <2>4 DEF Later
  <2>6. k = i
    BY <2>1, <2>4, <2>5
  <2>7. Now(c, u) = {}
    <3> SUFFICES ASSUME NEW j \in Now(c, u) PROVE FALSE
      OBVIOUS
    <3>1. j \in Later(c, t) /\ c[j].start <= u /\ j \in DOMAIN c /\ i \in DOMAIN c
      BY <1>2, <2>1 DEF Now, Later
    <3>2. i <= j /\ c[i].start <= c[j].start
      BY <1>0, <2>1, <3>1
    <3> QED
      BY <1>0, <2>2, <3>1, <3>2
  <2> QED
    BY <2>1, <2>4, <2>6, <2>7, CurrentIs
<1> QED
  BY <1>3, <1>4

(* Either choice is an event or none.                                       *)
LEMMA EventTypes ==
    ASSUME cal \in Calendars, NEW t \in Nat
    PROVE  /\ IsCalendar(cal)
           /\ Current(cal, t) \in Event \cup {NoEvent}
           /\ NextEvent(cal, t) \in Event \cup {NoEvent}
<1>1. IsCalendar(cal)
  BY WakeCycleAssumption
<1> QED
  BY <1>1, CurrentIs, NextIs

(* Two looks that show the same are of the same meeting, the next one being *)
(* another only behind a meeting that is on.                                *)
LEMMA SameView ==
    ASSUME cal \in Calendars, NEW a \in Nat, NEW t \in Nat, ViewAt(a) = ViewAt(t)
    PROVE  /\ Current(cal, a) = Current(cal, t)
           /\ Current(cal, t) = NoEvent => NextEvent(cal, a) = NextEvent(cal, t)
<1> DEFINE R(x) == RoomStatus(Current(cal, x), NextEvent(cal, x), x)
           E(x) == IF Current(cal, x) # NoEvent THEN Current(cal, x) ELSE NextEvent(cal, x)
<1>1. R(a) = R(t) /\ E(a) = E(t)
  BY DEF ViewAt, View
<1>2. \A x \in {a, t} : R(x) = "in_meeting" <=> Current(cal, x) # NoEvent
  BY DEF RoomStatus
<1> QED
  BY <1>1, <1>2

(* A transition is not before its buffer is over, and until the buffer      *)
(* begins the view stays as it is.                                          *)
LEMMA Transition ==
    ASSUME cal \in Calendars, NEW t \in Nat, NEW nxt \in Event \cup {NoEvent},
           Current(cal, t) = NoEvent => nxt = NextEvent(cal, t) /\ nxt # NoEvent
    PROVE  LET T == TransitionAt(Current(cal, t), nxt, t)
           IN  /\ T \in Nat /\ T >= t + TransitionBuffer
               /\ \A u \in Nat : t <= u /\ u < T - TransitionBuffer => ViewAt(u) = ViewAt(t)
<1> DEFINE T == TransitionAt(Current(cal, t), nxt, t)
<1>0. TransitionBuffer \in Nat /\ SoonWindow \in Nat /\ BackToBackWindow \in Nat
  BY WakeScheduleAssumption
<1>1. IsCalendar(cal)
  BY EventTypes
<1>2. CASE Current(cal, t) # NoEvent
  <2> DEFINE cur == Current(cal, t)
             change == T - TransitionBuffer
  <2>1. cur \in Event /\ t < cur.end /\ cur.end \in Nat
    BY <1>1, <1>2, CurrentIs DEF Covers, Event
  <2>2. T = (IF BackToBack(cur, nxt) /\ t < cur.end - BackToBackWindow
             THEN cur.end - BackToBackWindow ELSE cur.end) + TransitionBuffer
    BY <1>2 DEF TransitionAt
  <2> HIDE DEF cur, T
  <2>3. change \in Int /\ t < change /\ change <= cur.end /\ T = change + TransitionBuffer
    BY <1>0, <2>1, <2>2
  <2>4. ASSUME NEW u \in Nat, t <= u, u < change PROVE ViewAt(u) = ViewAt(t)
    <3>1. u < cur.end
      BY <2>1, <2>3, <2>4
    <3>2. Current(cal, u) = cur
      BY <1>1, <1>2, <2>4, <3>1, MeetingLasts DEF cur
    <3> QED
      BY <1>2, <3>2 DEF ViewAt, View, RoomStatus, cur
  <2> QED
    BY <1>0, <2>3, <2>4 DEF T
<1>3. CASE Current(cal, t) = NoEvent
  <2>1. nxt = NextEvent(cal, t) /\ nxt # NoEvent /\ nxt.start \in Nat /\ t <= nxt.start
    <3>1. nxt = NextEvent(cal, t) /\ nxt # NoEvent
      BY <1>3
    <3>2. Later(cal, t) # {}
      BY <1>1, <3>1, NextIs
    <3> QED
      BY <1>1, <3>1, <3>2, NextIs DEF Event
  <2> DEFINE soon == nxt.start - SoonWindow
             change == T - TransitionBuffer
  <2>2. T = (IF t < soon THEN soon ELSE nxt.start) + TransitionBuffer
    BY <1>3 DEF TransitionAt
  <2> HIDE DEF T
  <2>3. change = (IF t < soon THEN soon ELSE nxt.start) /\ T = change + TransitionBuffer
        /\ t <= change /\ change <= nxt.start /\ change \in Int
    BY <1>0, <2>1, <2>2
  <2>4. ASSUME NEW u \in Nat, t <= u, u < change PROVE ViewAt(u) = ViewAt(t)
    <3>1. u < nxt.start
      BY <2>1, <2>3, <2>4
    <3>2. Current(cal, u) = NoEvent /\ NextEvent(cal, u) = nxt
      BY <1>1, <1>3, <2>1, <2>4, <3>1, PauseLasts
    <3>3. nxt.start - u <= SoonWindow <=> nxt.start - t <= SoonWindow
      BY <1>0, <2>1, <2>3, <2>4
    <3>4. RoomStatus(NoEvent, nxt, u) = RoomStatus(NoEvent, nxt, t)
      BY <3>3 DEF RoomStatus
    <3> QED
      BY <1>3, <2>1, <3>2, <3>4 DEF ViewAt, View
  <2> QED
    BY <1>0, <2>1, <2>3, <2>4 DEF T
<1> QED
  BY <1>2, <1>3

(* The greater of two numbers (NextWakeDuration's max with 0).              *)
LEMMA MaxOf == ASSUME NEW a \in Int, NEW b \in Int PROVE Max({a, b}) = IF a >= b THEN a ELSE b
BY DEF Max
(* The lesser of two numbers (NextWakeDuration's cap on a smart sleep).     *)
LEMMA MinOf == ASSUME NEW a \in Int, NEW b \in Int PROVE Min({a, b}) = IF a <= b THEN a ELSE b
BY DEF Min

(* With nothing to come, the sleep is still one.                            *)
LEMMA QuietWake ==
    ASSUME NEW t \in Nat
    PROVE  SmartWake(NoEvent, NoEvent, t) \in Nat \ {0}
<1>1. BusinessSeconds \in Nat \ {0} /\ BusinessStart \in Nat /\ Day \in Nat \ {0}
  BY WakeScheduleAssumption
<1>2. UntilNextBoundary(t, BusinessSeconds) \in Nat \ {0}
  BY <1>1, FlatSleepIsNextSlot
<1>3. UntilBusinessStart(t) \in Nat \ {0}
  <2> DEFINE m == (t \div Day) * Day
  <2>1. m \in Int /\ m <= t /\ t < m + Day
    BY <1>1, Division
  <2>2. UntilBusinessStart(t) = (IF m + BusinessStart > t THEN m + BusinessStart
                                 ELSE m + BusinessStart + Day) - t
    BY DEF UntilBusinessStart
  <2> HIDE DEF m
  <2> QED
    BY <1>1, <2>1, <2>2
<1> QED
  BY <1>2, <1>3 DEF SmartWake

(* A smart sleep is computed from any look at all, and is a number.         *)
LEMMA SmartIsInt ==
    ASSUME NEW cur \in Event \cup {NoEvent}, NEW nxt \in Event \cup {NoEvent}, NEW t \in Nat
    PROVE  SmartWake(cur, nxt, t) \in Int
<1> DEFINE dur == Max({TransitionAt(cur, nxt, t) - t, 0})
<1>1. BusinessSeconds \in Nat /\ TransitionBuffer \in Nat /\ SoonWindow \in Nat
      /\ BackToBackWindow \in Nat
  BY WakeScheduleAssumption
<1>2. cur.start \in Nat /\ cur.end \in Nat /\ nxt.start \in Nat /\ nxt.end \in Nat
  BY DEF Event, NoEvent
<1>3. TransitionAt(cur, nxt, t) - t \in Int
  BY <1>1, <1>2 DEF TransitionAt
<1>4. dur \in Int
  BY <1>3, MaxOf
<1> HIDE DEF dur
<1>5. Min({dur, BusinessSeconds}) \in Int
  BY <1>1, <1>4, MinOf
<1>6. CASE cur = NoEvent /\ nxt = NoEvent
  BY <1>6, QuietWake
<1>7. CASE ~(cur = NoEvent /\ nxt = NoEvent)
  <2>1. SmartWake(cur, nxt, t) = IF IsBusinessHours(t) THEN Min({dur, BusinessSeconds}) ELSE dur
    BY <1>7 DEF SmartWake, dur
  <2> QED
    BY <1>4, <1>5, <2>1
<1> QED
  BY <1>6, <1>7

(* A smart sleep from a look that is still true is never 0, and the view    *)
(* stays as it is until the transition buffer before its end (config.go,    *)
(* NextWakeDuration).                                                       *)
THEOREM SmartSleep ==
    ASSUME cal \in Calendars, NEW a \in Nat, NEW t \in Nat, ViewAt(a) = ViewAt(t)
    PROVE  LET s == SmartWake(Current(cal, a), NextEvent(cal, a), t)
           IN  /\ s \in Nat \ {0}
               /\ \A u \in Nat : t <= u /\ u < t + s - TransitionBuffer => ViewAt(u) = ViewAt(t)
<1> DEFINE cur == Current(cal, t)
           nxt == NextEvent(cal, a)
           s == SmartWake(Current(cal, a), nxt, t)
<1>0. BusinessSeconds \in Nat \ {0} /\ TransitionBuffer \in Nat \ {0}
  BY WakeScheduleAssumption
<1>1. Current(cal, a) = cur /\ (cur = NoEvent => nxt = NextEvent(cal, t))
  BY SameView
<1>2. nxt \in Event \cup {NoEvent} /\ IsCalendar(cal)
  BY EventTypes
<1>3. CASE cur = NoEvent /\ nxt = NoEvent
  <2>1. s \in Nat \ {0}
    BY <1>1, <1>3, QuietWake
  <2>2. ASSUME NEW u \in Nat, t <= u PROVE ViewAt(u) = ViewAt(t)
    <3>1. Current(cal, u) = NoEvent /\ NextEvent(cal, u) = NoEvent
      BY <1>1, <1>2, <1>3, <2>2, PauseLasts
    <3> QED
      BY <1>1, <1>3, <3>1 DEF ViewAt, View, RoomStatus
  <2> QED
    BY <2>1, <2>2
<1>4. CASE ~(cur = NoEvent /\ nxt = NoEvent)
  <2> DEFINE T == TransitionAt(cur, nxt, t)
             dur == Max({T - t, 0})
  <2>1. /\ T \in Nat /\ T >= t + TransitionBuffer
        /\ \A u \in Nat : t <= u /\ u < T - TransitionBuffer => ViewAt(u) = ViewAt(t)
    BY <1>1, <1>2, <1>4, Transition
  <2>2. s = IF IsBusinessHours(t) THEN Min({dur, BusinessSeconds}) ELSE dur
    BY <1>1, <1>4 DEF SmartWake
  <2> HIDE DEF T, s
  <2>3. dur = T - t
    BY <1>0, <2>1, MaxOf
  <2> HIDE DEF dur
  <2>4. dur \in Nat \ {0}
    BY <1>0, <2>1, <2>3
  <2>5. Min({dur, BusinessSeconds}) \in Nat \ {0} /\ Min({dur, BusinessSeconds}) <= dur
    BY <1>0, <2>4, MinOf
  <2>6. s \in Nat \ {0} /\ s <= dur
    BY <2>2, <2>4, <2>5
  <2>7. \A u \in Nat : u < t + s - TransitionBuffer => u < T - TransitionBuffer
    BY <1>0, <2>1, <2>3, <2>6
  <2> QED
    BY <2>1, <2>6, <2>7 DEF s
<1> QED
  BY <1>3, <1>4
-----------------------------------------------------------------------------
(* The invariant.                                                           *)

Cycle == [kind : Kinds, touch : BOOLEAN, age : Nat, grid : Nat, heard : BOOLEAN]
Device == [next : {0} \cup MinWake..MaxWake, fails : 0..Backoff,
           pin : APs \cup {NoAP}, fw : Versions, clock : BOOLEAN]

WorldOK ==
    /\ cal \in Calendars /\ room \in RoomSettings
    /\ ap \in APs \cup {NoAP} /\ advert \in Versions
    /\ cycle \in Cycle
    /\ cycle.grid # 0 => cycle.kind \in {"painted", "unpainted"}

(* A flat display's timer ends on its grid (a grid the clamp leaves alone). *)
OnItsGrid ==
    cycle.grid > MinWake /\ cycle.grid + MinWake <= MaxWake =>
        LET x == now + sleep - GridOffset IN x = (x \div cycle.grid) * cycle.grid

AnswerInv == StatusShownOnTime /\ FreshAnswerIsExpected /\ OnItsGrid

IInv == WakeInv /\ WorldOK /\ AnswerInv

(* The device's and the broker's clamps agree on all sleeps but 0.          *)
LEMMA Clamps ==
    ASSUME NEW s \in Int
    PROVE  /\ clamp_wake(s) \in MinWake..MaxWake /\ ClampWakeSeconds(s) \in MinWake..MaxWake
           /\ s # 0 => clamp_wake(s) = ClampWakeSeconds(s)
           /\ s \in MinWake..MaxWake => clamp_wake(s) = s
           /\ s > 0 => clamp_wake(s) = MinWake \/ clamp_wake(s) <= s
<1>1. /\ MinWake \in Nat \ {0} /\ MaxWake \in Nat \ {0} /\ MinWake <= MaxWake
      /\ DefaultWake \in MinWake..MaxWake
  BY WakeScheduleAssumption, WakeCycleAssumption
<1> QED
  BY <1>1 DEF clamp_wake, ClampWakeSeconds

(* A flat answer is a point of the room's grid, a smart one has no grid.    *)
LEMMA FlatAnswer ==
    ASSUME room \in RoomSettings, NEW t \in Nat, NEW a \in Nat
    PROVE  /\ FlatGrid(t) \in Nat
           /\ room.mode = "smart" <=> FlatGrid(t) = 0
           /\ room.mode # "smart" => Sent(t, a) = UntilNextBoundary(t, FlatGrid(t))
<1>1. room.mode \in {"smart", "flat"} /\ room.interval \in Nat
  BY WakeCycleAssumption
<1>2. BusinessSeconds \in Nat \ {0} /\ OffHoursSeconds \in Nat \ {0}
  BY WakeScheduleAssumption
<1> QED
  BY <1>1, <1>2 DEF FlatGrid, Sent, NextWakeDuration, FlatWake

(* Every answer is a number, whatever the look it was made from.            *)
LEMMA SentIsInt ==
    ASSUME cal \in Calendars, room \in RoomSettings, NEW t \in Nat, NEW a \in Nat, a <= t
    PROVE  Sent(t, a) \in Int
<1>1. t - a \in Nat
  OBVIOUS
<1>2. CASE room.mode = "smart"
  <2>1. Current(cal, t - a) \in Event \cup {NoEvent} /\ NextEvent(cal, t - a) \in Event \cup {NoEvent}
    BY <1>1, EventTypes
  <2>2. SmartWake(Current(cal, t - a), NextEvent(cal, t - a), t) \in Int
    BY <2>1, SmartIsInt
  <2> QED
    BY <1>2, <2>2 DEF Sent, NextWakeDuration
<1>3. CASE room.mode # "smart"
  <2>1. FlatGrid(t) \in Nat \ {0} /\ Sent(t, a) = UntilNextBoundary(t, FlatGrid(t))
    BY <1>3, FlatAnswer
  <2> QED
    BY <2>1, FlatSleepIsNextSlot
<1> QED
  BY <1>2, <1>3

(* What an answered fetch leaves behind.                                    *)
LEMMA Answer ==
    ASSUME WorldOK, NEW t \in Nat, NEW age \in Ages, age <= t, NEW touch \in BOOLEAN,
           NEW kind \in {"painted", "unpainted"},
           now' = t, sleep' = Told(Sent(t, age)), SetExpectedWake(t, age),
           cycle' = Outcome(kind, touch, age, FlatGrid(t)), cal' = cal,
           kind = "painted" => shown' = ViewAt(t - age)
    PROVE  AnswerInv'
<1> DEFINE s == Sent(t, age)
           V(x) == View(Current(cal, x), NextEvent(cal, x), x)
<1>0. /\ MinWake \in Nat \ {0} /\ MaxWake \in Nat /\ TransitionBuffer \in Nat
      /\ MaxDrift \in Nat /\ GridOffset \in Nat /\ 2 * MaxDrift <= MinWake
      /\ age \in Nat /\ t - age \in Nat
  BY WakeScheduleAssumption, WakeCycleAssumption
<1>1. s \in Int /\ FlatGrid(t) \in Nat
  BY <1>0, SentIsInt, FlatAnswer DEF WorldOK
<1>2. /\ cycle'.kind = kind /\ cycle'.grid = FlatGrid(t) /\ cycle'.age = age
      /\ expected' = ClampWakeSeconds(s)
  BY DEF Outcome, SetExpectedWake
<1>3. Fresh' <=> V(t - age) = V(t)
  BY <1>2 DEF Fresh, ViewAt
<1>4. room.mode = "smart" /\ V(t - age) = V(t) =>
          s \in Nat \ {0}
          /\ \A u \in Nat : t <= u /\ u < t + s - TransitionBuffer => V(u) = V(t)
  <2> SUFFICES ASSUME room.mode = "smart", V(t - age) = V(t)
               PROVE  s \in Nat \ {0}
                      /\ \A u \in Nat : t <= u /\ u < t + s - TransitionBuffer => V(u) = V(t)
    OBVIOUS
  <2>1. s = SmartWake(Current(cal, t - age), NextEvent(cal, t - age), t)
    BY DEF Sent, NextWakeDuration
  <2>2. ViewAt(t - age) = ViewAt(t) /\ cal \in Calendars
    BY DEF ViewAt, WorldOK
  <2> QED
    BY <1>0, <2>1, <2>2, SmartSleep DEF ViewAt
<1>5. room.mode # "smart" => s = UntilNextBoundary(t, FlatGrid(t)) /\ FlatGrid(t) # 0
  BY <1>0, FlatAnswer DEF WorldOK
<1>6. room.mode # "smart" => s \in Nat \ {0}
  BY <1>1, <1>5, FlatSleepIsNextSlot
<1> HIDE DEF s
<1>7. FreshAnswerIsExpected'
  <2> SUFFICES ASSUME Fresh' PROVE expected' = sleep'
    BY DEF FreshAnswerIsExpected
  <2>1. s \in Nat \ {0}
    BY <1>3, <1>4, <1>6
  <2>2. sleep' = clamp_wake(s)
    BY <2>1 DEF Told, s
  <2> QED
    BY <1>1, <1>2, <2>1, <2>2, Clamps
<1>8. StatusShownOnTime'
  <2> DEFINE end == now' + sleep' + MaxDrift
             low == end - (TransitionBuffer + MinWake + MaxDrift)
  <2> SUFFICES ASSUME kind = "painted", FlatGrid(t) = 0, Fresh'
               PROVE  \E x \in low..end : V(x) = shown'
    BY <1>2 DEF StatusShownOnTime, ViewAt
  <2>1. room.mode = "smart" /\ V(t - age) = V(t) /\ shown' = V(t)
    BY <1>0, <1>3, FlatAnswer DEF WorldOK, ViewAt
  <2>2. s \in Nat \ {0} /\ \A u \in Nat : t <= u /\ u < t + s - TransitionBuffer => V(u) = V(t)
    BY <1>4, <2>1
  <2>3. sleep' = clamp_wake(s)
    BY <2>2 DEF Told, s
  <2>4. sleep' \in MinWake..MaxWake /\ (sleep' = MinWake \/ sleep' <= s)
    BY <1>1, <2>2, <2>3, Clamps
  <2> HIDE DEF V
  <2>5. CASE low <= t
    BY <1>0, <2>1, <2>4, <2>5
  <2>6. CASE low > t
    <3>1. sleep' <= s /\ low \in Nat /\ low < t + s - TransitionBuffer /\ low <= end
      BY <1>0, <2>2, <2>4, <2>6
    <3>2. V(low) = V(t)
      BY <2>2, <2>6, <3>1
    <3> HIDE DEF low, end
    <3>3. end \in Int
      BY <1>0, <2>4 DEF end
    <3> QED
      BY <2>1, <3>1, <3>2, <3>3
  <2> QED
    BY <1>0, <2>4, <2>5, <2>6
<1>9. OnItsGrid'
  <2> DEFINE i == FlatGrid(t)
             x == t + s - GridOffset
  <2> SUFFICES ASSUME i > MinWake, i + MinWake <= MaxWake
               PROVE  now' + sleep' - GridOffset = ((now' + sleep' - GridOffset) \div i) * i
    BY <1>2 DEF OnItsGrid
  <2>1. i \in Nat \ {0} /\ room.mode # "smart" /\ s = UntilNextBoundary(t, i)
    BY <1>0, <1>1, <1>5, FlatAnswer DEF WorldOK
  <2> HIDE DEF i
  <2>2. s \in Nat \ {0} /\ (\E k \in Int : x = k * i) /\ MinWake <= s /\ s < i + MinWake
    <3> DEFINE u == UntilNextBoundary(t, i)
    <3>1. u \in Nat \ {0} /\ (\E k \in Int : t + u - GridOffset = k * i)
          /\ MinWake <= u /\ u < i + MinWake
      <4>1. t \in Int /\ i \in Nat \ {0} /\ i > MinWake
        BY <2>1
      <4> QED
        BY <4>1, FlatSleepIsNextSlot, Zenon
    <3> HIDE DEF u
    <3> QED
      BY <2>1, <3>1 DEF u
  <2>3. s \in MinWake..MaxWake
    BY <1>0, <2>1, <2>2
  <2>4. sleep' = s
    BY <1>1, <2>2, <2>3, Clamps DEF Told, s
  <2>5. PICK k \in Int : x = k * i
    BY <2>2
  <2>6. x \in Int /\ k * i <= x /\ x < k * i + i
    BY <1>0, <2>1, <2>2, <2>5
  <2>7. x \div i = k
    BY <2>1, <2>6, Quotient
  <2> QED
    BY <2>4, <2>5, <2>7
<1> QED
  BY <1>7, <1>8, <1>9 DEF AnswerInv

(* A wake by the timer is a sleep and a drift after the last one.           *)
LEMMA WakesAt ==
    ASSUME WakeInv, NEW w \in Wakes, w.t \in Watched
    PROVE  /\ w.t \in Nat /\ w.touch \in BOOLEAN
           /\ ~w.touch => \E d \in (IF sleep = 0 THEN {0} ELSE Drifts) : w.t = now + sleep + d
<1>1. MaxDrift \in Nat /\ Watched \subseteq Nat
  BY WakeCycleAssumption
<1>2. CASE \E d \in (IF sleep = 0 THEN {0} ELSE Drifts) :
              w = [t |-> now + sleep + d, touch |-> FALSE]
  <2>1. PICK d \in (IF sleep = 0 THEN {0} ELSE Drifts) :
               w = [t |-> now + sleep + d, touch |-> FALSE]
    BY <1>2
  <2>2. w.t = now + sleep + d /\ w.touch = FALSE
    BY <2>1
  <2>3. w.t \in Nat /\ w.touch \in BOOLEAN
    BY <1>1, <2>2
  <2> QED
    BY <2>2, <2>3
<1>3. CASE \E k \in Touches : w = [t |-> now + k, touch |-> TRUE]
  <2>1. w.touch = TRUE
    BY <1>3
  <2> QED
    BY <1>1, <2>1
<1> QED
  BY <1>2, <1>3 DEF Wakes

(* The device after a failure to get online.                                *)
LEMMA Lost ==
    ASSUME dev \in Device, NEW s \in {0} \cup MinWake..MaxWake
    PROVE  LET d == [LostWifi(dev) EXCEPT !.next = s]
           IN  d \in Device /\ d.next = s /\ d.fails > 0 /\ d.pin = NoAP
<1>1. dev.fails \in 0..Backoff
  BY DEF Device
<1> DEFINE f == IF dev.fails < Backoff THEN dev.fails + 1 ELSE dev.fails
<1>2. f \in 0..Backoff /\ f > 0
  BY <1>1 DEF Backoff
<1>3. [LostWifi(dev) EXCEPT !.next = s] = [dev EXCEPT !.fails = f, !.pin = NoAP, !.next = s]
  BY DEF LostWifi, Device
<1> HIDE DEF f
<1> QED
  BY <1>2, <1>3 DEF Device

(* The device after it has reached its access point.                        *)
LEMMA Online ==
    ASSUME dev \in Device, ap \in APs, NEW s \in {0} \cup MinWake..MaxWake, NEW clock \in BOOLEAN
    PROVE  LET d == [Associated(dev) EXCEPT !.next = s, !.clock = clock]
           IN  d \in Device /\ d.next = s /\ d.fails = 0
<1>1. [Associated(dev) EXCEPT !.next = s, !.clock = clock]
         = [dev EXCEPT !.fails = 0, !.pin = ap, !.next = s, !.clock = clock]
  BY DEF Associated, Device
<1>2. 0 \in 0..Backoff
  BY DEF Backoff
<1> QED
  BY <1>1, <1>2 DEF Device

(* A wake that paints nothing and hears of no grid.                         *)
LEMMA PlainWake ==
    ASSUME IInv, NEW t \in Nat, NEW touch \in BOOLEAN, NEW kind \in Kinds \ {"painted", "unpainted"},
           NEW s \in {0} \cup MinWake..MaxWake, NEW age \in Nat,
           now' = t, sleep' = s, dev' \in Device, dev'.next = s,
           dev'.fails > 0 => dev'.pin = NoAP,
           kind = "wifi" <=> dev'.fails > 0,
           kind \in {"off", "update"} <=> s = 0,
           expected' \in {0} \cup MinWake..MaxWake,
           cycle' = Outcome(kind, touch, age, 0),
           UNCHANGED world
    PROVE  IInv'
<1>1. /\ cycle' \in Cycle /\ cycle'.kind = kind /\ cycle'.grid = 0
  BY DEF Cycle, Outcome
<1>2. WorldOK'
  BY <1>1 DEF IInv, WorldOK, world
<1>3. WakeInv'
  BY <1>1 DEF IInv, WakeInv, Device, world
<1>4. AnswerInv'
  <2>1. StatusShownOnTime' /\ FreshAnswerIsExpected'
    BY <1>1 DEF StatusShownOnTime, FreshAnswerIsExpected
  <2>2. OnItsGrid'
    BY <1>1, WakeScheduleAssumption DEF OnItsGrid
  <2> QED
    BY <2>1, <2>2 DEF AnswerInv
<1> QED
  BY <1>2, <1>3, <1>4 DEF IInv

(* Every wake keeps the invariant, however it ends.                         *)
LEMMA WakeStep ==
    ASSUME IInv, Wake
    PROVE  IInv'
<1>0. /\ MinWake \in Nat \ {0} /\ MaxWake \in Nat /\ MinWake <= MaxWake
      /\ DefaultWake \in MinWake..MaxWake /\ NoAP \notin APs /\ Ages \subseteq Nat
  BY WakeScheduleAssumption, WakeCycleAssumption
<1>1. /\ WakeInv /\ WorldOK /\ dev \in Device /\ ap \in APs \cup {NoAP}
      /\ dev.next \in {0} \cup MinWake..MaxWake
      /\ expected \in {0} \cup MinWake..MaxWake
      /\ cal \in Calendars /\ room \in RoomSettings
  BY DEF IInv, WakeInv, WorldOK, Device
<1>2. PICK w \in Wakes :
         /\ w.t \in Watched
         /\ \/ WifiFails(w) \/ TimeFails(w) \/ FetchFails(w) \/ NoPayload(w)
            \/ ReplyLost(w) \/ NotPainted(w) \/ Painted(w) \/ Update(w)
  BY DEF Wake
<1>3. w.t \in Nat /\ w.touch \in BOOLEAN
  BY <1>1, <1>2, WakesAt
<1>4. CanAssociate => ap \in APs
  BY <1>1 DEF CanAssociate
<1>5. /\ clamp_wake(dev.next) \in MinWake..MaxWake /\ clamp_wake(DefaultWake) \in MinWake..MaxWake
      /\ clamp_wake(DefaultWake * 4) \in MinWake..MaxWake
  BY <1>0, <1>1, Clamps
<1>6. ASSUME NEW age \in Ages, age <= w.t
      PROVE  /\ ClampWakeSeconds(Sent(w.t, age)) \in MinWake..MaxWake
             /\ Told(Sent(w.t, age)) \in MinWake..MaxWake
             /\ FlatGrid(w.t) \in Nat
  <2>1. Sent(w.t, age) \in Int
    BY <1>0, <1>1, <1>3, <1>6, SentIsInt
  <2> QED
    BY <1>0, <1>1, <1>3, <1>5, <1>6, <2>1, Clamps, FlatAnswer DEF Told
<1>7. CASE WifiFails(w)
  <2>1. PICK s \in MinWake..MaxWake :
           /\ dev' = [LostWifi(dev) EXCEPT !.next = s]
           /\ now' = w.t /\ sleep' = s
           /\ cycle' = Outcome("wifi", w.touch, 0, 0)
           /\ UNCHANGED <<expected, shown, world>>
    <3> DEFINE n == IF LostWifi(dev).fails > 4 THEN 4 ELSE 1
    <3>1. clamp_wake(DefaultWake * n) \in MinWake..MaxWake
      <4>1. CASE LostWifi(dev).fails > 4
        BY <1>5, <4>1
      <4>2. CASE ~(LostWifi(dev).fails > 4)
        <5>1. DefaultWake * n = DefaultWake
          BY <1>0, <4>2
        <5> QED
          BY <1>5, <5>1
      <4> QED
        BY <4>1, <4>2
    <3> HIDE DEF n
    <3> QED
      BY <1>7, <3>1 DEF WifiFails, DeepSleep, n
  <2>2. dev' \in Device /\ dev'.next = s /\ dev'.fails > 0 /\ dev'.pin = NoAP
    BY <1>1, <2>1, Lost
  <2>3. "wifi" \in Kinds \ {"painted", "unpainted"} /\ s # 0
    BY <1>0 DEF Kinds
  <2>4. UNCHANGED world /\ expected' \in {0} \cup MinWake..MaxWake
    BY <1>1, <2>1
  <2> QED
    BY <1>3, <2>1, <2>2, <2>3, <2>4, PlainWake
<1>8. CASE TimeFails(w) \/ FetchFails(w) \/ ReplyLost(w) \/ NoPayload(w)
  <2>1. PICK s \in MinWake..MaxWake, clock \in BOOLEAN, kind \in {"time", "fetch", "nopayload"} :
           /\ dev' = [Associated(dev) EXCEPT !.next = s, !.clock = clock]
           /\ now' = w.t /\ sleep' = s
           /\ cycle' = Outcome(kind, w.touch, 0, 0)
           /\ expected' \in {0} \cup MinWake..MaxWake
           /\ UNCHANGED world /\ CanAssociate
    <3>1. CASE TimeFails(w)
      BY <1>1, <1>5, <3>1 DEF TimeFails, KeepSleep, DeepSleep
    <3>2. CASE FetchFails(w)
      BY <1>1, <1>5, <3>2 DEF FetchFails, KeepSleep, DeepSleep
    <3>3. CASE ReplyLost(w)
      <4>1. PICK age \in {a \in Ages : a <= w.t} :
               /\ KeepSleep(w, "fetch", TRUE) /\ SetExpectedWake(w.t, age)
               /\ UNCHANGED <<shown, world>>
        BY <3>3 DEF ReplyLost
      <4>2. expected' \in MinWake..MaxWake
        BY <1>6, <4>1 DEF SetExpectedWake
      <4> QED
        BY <1>5, <4>1, <4>2 DEF KeepSleep, DeepSleep
    <3>4. CASE NoPayload(w)
      <4>1. /\ dev' = [Associated(dev) EXCEPT !.next = MinWake, !.clock = TRUE]
            /\ now' = w.t /\ sleep' = MinWake /\ cycle' = Outcome("nopayload", w.touch, 0, 0)
            /\ expected' = 0 /\ CanAssociate /\ UNCHANGED world
        BY <3>4 DEF NoPayload, DeepSleep
      <4>2. MinWake \in MinWake..MaxWake
        BY <1>0
      <4> QED
        BY <4>1, <4>2
    <3> QED
      BY <1>8, <3>1, <3>2, <3>3, <3>4
  <2>2. dev' \in Device /\ dev'.next = s /\ dev'.fails = 0
    BY <1>1, <1>4, <2>1, Online
  <2>3. kind \in Kinds \ {"painted", "unpainted"} /\ kind # "wifi" /\ kind \notin {"off", "update"}
        /\ s # 0 /\ ~(dev'.fails > 0)
    BY <1>0, <2>2 DEF Kinds
  <2> QED
    BY <1>3, <2>1, <2>2, <2>3, PlainWake
<1>9. CASE Update(w)
  <2>1. PICK age \in {a \in Ages : a <= w.t}, painted \in BOOLEAN, clock \in BOOLEAN :
           /\ Answered(w, age, painted)
           /\ dev' = ColdBoot(advert, clock)
           /\ DeepSleep(w, 0)
           /\ cycle' = Outcome("update", w.touch, age, 0)
    BY <1>9 DEF Update
  <2>2. dev' \in Device /\ dev'.next = 0 /\ ~(dev'.fails > 0)
    BY <1>1, <2>1 DEF ColdBoot, Device, Backoff, WorldOK
  <2>3. expected' \in {0} \cup MinWake..MaxWake /\ UNCHANGED world /\ age \in Nat
    BY <1>0, <1>6, <2>1 DEF Answered, SetExpectedWake
  <2>4. "update" \in Kinds \ {"painted", "unpainted"} /\ now' = w.t /\ sleep' = 0
    BY <2>1 DEF DeepSleep, Kinds
  <2> QED
    BY <1>3, <2>1, <2>2, <2>3, <2>4, PlainWake
<1>10. CASE NotPainted(w) \/ Painted(w)
  <2>1. PICK age \in {a \in Ages : a <= w.t}, kind \in {"painted", "unpainted"} :
           /\ Answered(w, age, kind = "painted")
           /\ dev' = [Associated(dev) EXCEPT !.next = Told(Sent(w.t, age)), !.clock = TRUE]
           /\ DeepSleep(w, Told(Sent(w.t, age)))
           /\ cycle' = Outcome(kind, w.touch, age, FlatGrid(w.t))
    <3>1. CASE NotPainted(w)
      BY <3>1 DEF NotPainted, Answered
    <3>2. CASE Painted(w)
      BY <3>2 DEF Painted, Answered
    <3> QED
      BY <1>10, <3>1, <3>2
  <2>2. /\ ClampWakeSeconds(Sent(w.t, age)) \in MinWake..MaxWake
        /\ Told(Sent(w.t, age)) \in MinWake..MaxWake /\ FlatGrid(w.t) \in Nat /\ age \in Nat
    BY <1>0, <1>6
  <2>3. /\ now' = w.t /\ sleep' = Told(Sent(w.t, age)) /\ SetExpectedWake(w.t, age)
        /\ CanAssociate /\ UNCHANGED world
        /\ kind = "painted" => shown' = ViewAt(w.t - age)
    BY <2>1 DEF Answered, DeepSleep
  <2>4. cal' = cal
    BY <2>3 DEF world
  <2>5. AnswerInv'
    BY <1>1, <1>3, <2>1, <2>3, <2>4, Answer
  <2>6. dev' \in Device /\ dev'.next = sleep' /\ dev'.fails = 0
    BY <1>1, <1>4, <2>1, <2>2, <2>3, Online
  <2>7. cycle' \in Cycle /\ cycle'.kind = kind
    BY <1>3, <2>1, <2>2 DEF Cycle, Outcome, Kinds
  <2>8. WorldOK'
    BY <1>1, <2>3, <2>7 DEF WorldOK, world
  <2>9. WakeInv'
    <3>1. expected' \in MinWake..MaxWake
      BY <2>2, <2>3 DEF SetExpectedWake
    <3>2. changes' \in 0..MaxChanges /\ now' \in Nat /\ sleep' \in MinWake..MaxWake /\ sleep' # 0
      BY <1>0, <1>1, <1>3, <2>2, <2>3 DEF WakeInv, world
    <3> QED
      BY <2>6, <2>7, <3>1, <3>2 DEF WakeInv, Device, Kinds
  <2> QED
    BY <2>5, <2>8, <2>9 DEF IInv
<1> QED
  BY <1>2, <1>7, <1>8, <1>9, <1>10

(* A change of the world keeps it: what was answered is not asked again.    *)
LEMMA WorldStep ==
    ASSUME IInv, World
    PROVE  IInv'
<1>0. MaxChanges \in Nat /\ MinWake \in Nat \ {0} /\ Touches \subseteq Nat
  BY WakeScheduleAssumption, WakeCycleAssumption
<1>1. WakeInv /\ WorldOK /\ AnswerInv
  BY DEF IInv
<1>2. ASSUME UNCHANGED <<now, sleep, dev, expected, shown, cycle, cal>>, Change,
             room' \in RoomSettings, ap' \in APs \cup {NoAP}, advert' \in Versions
      PROVE  IInv'
  <2>1. AnswerInv'
    BY <1>1, <1>2 DEF AnswerInv, StatusShownOnTime, FreshAnswerIsExpected, OnItsGrid, Fresh, ViewAt
  <2>2. WorldOK'
    BY <1>1, <1>2 DEF WorldOK
  <2>3. changes' \in 0..MaxChanges
    BY <1>0, <1>1, <1>2 DEF Change, WakeInv
  <2>4. WakeInv'
    BY <1>1, <1>2, <2>3 DEF WakeInv
  <2> QED
    BY <2>1, <2>2, <2>4 DEF IInv
<1>3. ASSUME NEW a \in APs \cup {NoAP}, MoveAP(a) PROVE IInv'
  BY <1>1, <1>2, <1>3 DEF MoveAP, WorldOK
<1>4. ASSUME NEW r \in RoomSettings, SetRoom(r) PROVE IInv'
  BY <1>1, <1>2, <1>4 DEF SetRoom, WorldOK
<1>5. ASSUME NEW v \in Versions, Advertise(v) PROVE IInv'
  BY <1>1, <1>2, <1>5 DEF Advertise, WorldOK
<1>6. ASSUME NEW k \in Touches, PowerCut(k) PROVE IInv'
  <2>1. /\ dev' = ColdBoot(dev.fw, FALSE) /\ now' = now + k /\ sleep' = 0
        /\ cycle' = Outcome("off", FALSE, 0, 0)
        /\ UNCHANGED <<expected, cal, room, ap, advert>> /\ Change
    BY <1>6 DEF PowerCut
  <2>2. dev' \in Device /\ dev'.next = 0 /\ dev'.fails = 0
    BY <1>1, <2>1 DEF ColdBoot, Device, Backoff, WakeInv
  <2>3. cycle' \in Cycle /\ cycle'.kind = "off" /\ cycle'.grid = 0
    BY <2>1 DEF Outcome, Cycle, Kinds
  <2>4. changes' \in 0..MaxChanges /\ now' \in Nat
    BY <1>0, <1>1, <2>1 DEF Change, WakeInv
  <2>5. AnswerInv'
    BY <1>0, <2>3 DEF AnswerInv, StatusShownOnTime, FreshAnswerIsExpected, OnItsGrid
  <2>6. WorldOK'
    BY <1>1, <2>1, <2>3 DEF WorldOK
  <2>7. WakeInv'
    <3>1. /\ cycle'.kind \in Kinds /\ cycle'.kind # "wifi" /\ ~(dev'.fails > 0)
          /\ cycle'.kind \in {"off", "update"} /\ sleep' = 0 /\ dev'.next = sleep'
      <4>1. cycle'.kind \in Kinds /\ cycle'.kind # "wifi" /\ cycle'.kind \in {"off", "update"}
        BY <2>3 DEF Kinds
      <4>2. ~(dev'.fails > 0)
        BY <2>2
      <4>3. sleep' = 0 /\ dev'.next = sleep'
        BY <2>1, <2>2
      <4> QED
        BY <4>1, <4>2, <4>3
    <3>2. expected' \in {0} \cup MinWake..MaxWake
      BY <1>1, <2>1 DEF WakeInv
    <3> QED
      BY <2>2, <2>4, <3>1, <3>2 DEF WakeInv, Device
  <2> QED
    BY <2>5, <2>6, <2>7 DEF IInv
<1> QED
  BY <1>3, <1>4, <1>5, <1>6 DEF World

(* A display that is switched on has heard of nothing yet.                  *)
LEMMA InitInv == Init => IInv
<1> SUFFICES ASSUME Init PROVE IInv
  OBVIOUS
<1>0. MaxChanges \in Nat /\ MinWake \in Nat \ {0} /\ StartTimes \subseteq Nat
      /\ FirstVersion \in Versions
  BY WakeScheduleAssumption, WakeCycleAssumption
<1>1. cycle \in Cycle /\ cycle.kind = "off" /\ cycle.grid = 0
  BY DEF Init, Outcome, Cycle, Kinds
<1>2. dev \in Device /\ dev.next = 0 /\ dev.fails = 0
  BY <1>0 DEF Init, ColdBoot, Device, Backoff
<1>3. WorldOK
  BY <1>0, <1>1 DEF Init, WorldOK
<1>4. WakeInv
  <2>1. /\ cycle.kind \in Kinds /\ cycle.kind # "wifi" /\ ~(dev.fails > 0)
        /\ cycle.kind \in {"off", "update"} /\ sleep = 0 /\ dev.next = sleep
    <3>1. cycle.kind \in Kinds /\ cycle.kind # "wifi" /\ cycle.kind \in {"off", "update"}
      BY <1>1 DEF Kinds
    <3>2. ~(dev.fails > 0)
      BY <1>2
    <3>3. sleep = 0 /\ dev.next = sleep
      BY <1>2 DEF Init
    <3> QED
      BY <3>1, <3>2, <3>3
  <2>2. now \in Nat /\ changes \in 0..MaxChanges /\ expected \in {0} \cup MinWake..MaxWake
    BY <1>0 DEF Init
  <2> QED
    BY <1>2, <2>1, <2>2 DEF WakeInv, Device
<1>5. AnswerInv
  BY <1>0, <1>1 DEF AnswerInv, StatusShownOnTime, FreshAnswerIsExpected, OnItsGrid
<1> QED
  BY <1>3, <1>4, <1>5 DEF IInv

(* What the device, the broker and the panel hold fits together at all      *)
(* times (app_main.cpp, handleDisplay).                                     *)
THEOREM WakeInvariant == Spec => []IInv
<1>1. IInv /\ [Next]_vars => IInv'
  <2> SUFFICES ASSUME IInv, [Next]_vars PROVE IInv'
    OBVIOUS
  <2>1. CASE UNCHANGED vars
    BY <2>1 DEF vars, world, IInv, WakeInv, WorldOK, AnswerInv, StatusShownOnTime,
                FreshAnswerIsExpected, OnItsGrid, Fresh, ViewAt
  <2> QED
    BY <2>1, WakeStep, WorldStep DEF Next
<1> QED
  BY <1>1, InitInv, PTL DEF Spec

(* A device sleeps within its own clamp or restarts at once, backs off only *)
(* without Wi-Fi, and is pinned only to an access point it has (power.cpp,  *)
(* app_main.cpp).                                                           *)
THEOREM SleepsAreSound == Spec => []WakeInv
BY WakeInvariant, PTL DEF IInv

(* A smart panel is right until its next wake, but for the transition       *)
(* buffer and a shortest sleep (calendar.go, NextTransitionAt).             *)
THEOREM StatusComesOnTime == Spec => []StatusShownOnTime
BY WakeInvariant, PTL DEF IInv, AnswerInv

(* After an answer from a look that is still true the broker knows the      *)
(* sleep (ClampWakeSeconds, clamp_wake).                                    *)
THEOREM BrokerKnowsTheSleep == Spec => []FreshAnswerIsExpected
BY WakeInvariant, PTL DEF IInv, AnswerInv

(* The two steps that let time pass.                                        *)
LEMMA TimePasses ==
    ASSUME IInv, [Next]_vars, now' # now
    PROVE  \/ cycle'.kind = "off"
           \/ \E w \in Wakes : /\ w.t \in Nat /\ now' = w.t /\ cycle'.touch = w.touch
                               /\ ~w.touch => \E d \in (IF sleep = 0 THEN {0} ELSE Drifts) :
                                                  w.t = now + sleep + d
                               /\ cycle'.kind = "wifi" => ~CanAssociate
<1>1. CASE World
  <2>1. ASSUME NEW a, MoveAP(a) PROVE FALSE
    BY <2>1 DEF MoveAP
  <2>2. ASSUME NEW r, SetRoom(r) PROVE FALSE
    BY <2>2 DEF SetRoom
  <2>3. ASSUME NEW v, Advertise(v) PROVE FALSE
    BY <2>3 DEF Advertise
  <2>4. ASSUME NEW k, PowerCut(k) PROVE cycle'.kind = "off"
    BY <2>4 DEF PowerCut, Outcome
  <2> QED
    BY <1>1, <2>1, <2>2, <2>3, <2>4 DEF World
<1>2. CASE Wake
  <2>1. PICK w \in Wakes :
           /\ w.t \in Watched
           /\ \/ WifiFails(w) \/ TimeFails(w) \/ FetchFails(w) \/ NoPayload(w)
              \/ ReplyLost(w) \/ NotPainted(w) \/ Painted(w) \/ Update(w)
    BY <1>2 DEF Wake
  <2>2. now' = w.t /\ cycle'.touch = w.touch /\ (cycle'.kind = "wifi" => ~CanAssociate)
    <3>1. PICK kind, age, grid :
             /\ kind \in Kinds
             /\ now' = w.t /\ cycle' = Outcome(kind, w.touch, age, grid)
             /\ kind = "wifi" => ~CanAssociate
      <4>1. CASE WifiFails(w)
        BY <4>1 DEF WifiFails, DeepSleep, Kinds
      <4>2. CASE TimeFails(w)
        BY <4>2 DEF TimeFails, KeepSleep, DeepSleep, Kinds
      <4>3. CASE FetchFails(w)
        BY <4>3 DEF FetchFails, KeepSleep, DeepSleep, Kinds
      <4>4. CASE NoPayload(w)
        BY <4>4 DEF NoPayload, DeepSleep, Kinds
      <4>5. CASE ReplyLost(w)
        BY <4>5 DEF ReplyLost, KeepSleep, DeepSleep, Kinds
      <4>6. CASE NotPainted(w)
        BY <4>6 DEF NotPainted, DeepSleep, Kinds
      <4>7. CASE Painted(w)
        BY <4>7 DEF Painted, DeepSleep, Kinds
      <4>8. CASE Update(w)
        BY <4>8 DEF Update, DeepSleep, Kinds
      <4> QED
        BY <2>1, <4>1, <4>2, <4>3, <4>4, <4>5, <4>6, <4>7, <4>8
    <3> QED
      BY <3>1 DEF Outcome
  <2>3. /\ w.t \in Nat
        /\ ~w.touch => \E d \in (IF sleep = 0 THEN {0} ELSE Drifts) : w.t = now + sleep + d
    BY <2>1, WakesAt DEF IInv
  <2> QED
    BY <2>2, <2>3
<1> QED
  BY <1>1, <1>2 DEF Next, vars

(* A replaced access point costs one wake: the failure has cleared the pin  *)
(* (connect(), wifi_fast.cpp).                                              *)
THEOREM RoamingCostsOneWake == Spec => RoamCostsOneWake
<1> DEFINE A == cycle.kind = "wifi" /\ cycle.heard /\ now' # now /\ ap # NoAP
                   => cycle'.kind # "wifi"
<1>1. IInv /\ [Next]_vars => [A]_vars
  <2> SUFFICES ASSUME IInv, [Next]_vars, cycle.kind = "wifi", now' # now, ap # NoAP
               PROVE  cycle'.kind # "wifi"
    OBVIOUS
  <2>1. CanAssociate
    BY DEF IInv, WakeInv, CanAssociate
  <2> QED
    BY <2>1, TimePasses
<1> QED
  BY <1>1, WakeInvariant, PTL DEF Spec, RoamCostsOneWake

(* A flat display's timer wakes it on the grid, and once for each point of  *)
(* it, whatever its clock did (secondsUntilNextBoundary).                   *)
THEOREM OneWakePerSlot == Spec => FlatWakesOncePerSlot
<1> DEFINE i == cycle.grid
           A == (/\ i > MinWake /\ i + MinWake <= MaxWake
                 /\ now' # now /\ ~cycle'.touch /\ cycle'.kind # "off")
                => /\ OnGrid(now', i)
                   /\ OnGrid(now, i) => NearestSlot(now', i) > NearestSlot(now, i)
<1>1. IInv /\ [Next]_vars => [A]_vars
  <2> SUFFICES ASSUME IInv, [Next]_vars, i > MinWake, i + MinWake <= MaxWake,
                      now' # now, ~cycle'.touch, cycle'.kind # "off"
               PROVE  /\ OnGrid(now', i)
                      /\ OnGrid(now, i) => NearestSlot(now', i) > NearestSlot(now, i)
    OBVIOUS
  <2>0. /\ MinWake \in Nat \ {0} /\ GridOffset \in Nat /\ MaxDrift \in Nat
        /\ 2 * MaxDrift <= MinWake /\ Drifts \subseteq -MaxDrift..MaxDrift
    BY WakeScheduleAssumption, WakeCycleAssumption
  <2>1. now \in Nat /\ i \in Nat \ {0} /\ sleep \in MinWake..MaxWake
    BY <2>0 DEF IInv, WakeInv, WorldOK, Cycle
  <2>2. PICK d \in Drifts : now' = now + sleep + d
    BY <2>0, <2>1, TimePasses
  <2> DEFINE x == now + sleep - GridOffset
             k == x \div i
  <2>3. x = k * i
    BY DEF IInv, AnswerInv, OnItsGrid
  <2> HIDE DEF i
  <2>4. x \in Int /\ k \in Int
    BY <2>0, <2>1, Division
  <2>5. now' \in Int /\ now' - GridOffset - k * i = d /\ -MaxDrift <= d /\ d <= MaxDrift
    BY <2>0, <2>1, <2>2, <2>3, <2>4
  <2> HIDE DEF k
  <2>6. NearestSlot(now', i) = k
    BY <2>1, <2>4, <2>5, Nearest
  <2>7. OnGrid(now', i)
    BY <2>5, <2>6 DEF OnGrid
  <2>8. ASSUME OnGrid(now, i) PROVE k > NearestSlot(now, i)
    <3> DEFINE n == NearestSlot(now, i)
    <3>1. n \in Int
      <4>1. i \div 2 \in Int
        BY <2>1, Division
      <4>2. now - GridOffset + (i \div 2) \in Int
        BY <2>0, <2>1, <4>1
      <4> QED
        BY <2>1, <4>2, Division DEF NearestSlot
    <3>2. LET off == now - GridOffset - n * i IN -MaxDrift <= off /\ off <= MaxDrift
      BY <2>8 DEF OnGrid
    <3> HIDE DEF n
    <3>3. n * i \in Int /\ k * i \in Int
      BY <2>1, <2>4, <3>1, Z3
    <3>4. n * i < k * i
      BY <2>0, <2>1, <2>3, <3>2, <3>3
    <3>5. CASE k < n
      BY <2>1, <2>4, <3>1, <3>3, <3>4, <3>5, Times
    <3>6. CASE k = n
      BY <3>3, <3>4, <3>6
    <3> QED
      BY <2>4, <3>1, <3>5, <3>6 DEF n
  <2> QED
    BY <2>6, <2>7, <2>8
<1> QED
  BY <1>1, WakeInvariant, PTL DEF Spec, FlatWakesOncePerSlot
=============================================================================
