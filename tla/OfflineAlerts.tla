--------------------------- MODULE OfflineAlerts ---------------------------
(***************************************************************************)
(* "Display offline" and "back online" messages.  A device wakes, fetches  *)
(* its picture (the broker notes the sleep it sends: SetExpectedWake),     *)
(* repaints, reports (Ingest) and sleeps.  Once a minute the broker judges *)
(* how long the device has been silent against two of its expected sleeps  *)
(* (notifications.go, status.go) and the alert manager latches what it     *)
(* told (notify.go).                                                       *)
(*                                                                         *)
(* One display: displays share nothing here but the settings.  Time goes   *)
(* in ticks and a wake takes less than one.  Ages stop at MaxAge.          *)
(***************************************************************************)
EXTENDS Naturals

CONSTANTS Wakes,         \* sleeps the broker may send, in ticks
          DefaultWake,   \* the firmware's own sleep after a reset or without Wi-Fi
          BackoffWake,   \* four times as long, clamped: after several without Wi-Fi
          MinWake,       \* its sleep when the broker has no picture yet
          Settings,      \* alert settings an admin may save; 0 is an empty field
          Defaults,      \* what a config file with empty fields is loaded as
          Durable,       \* telemetry.backend is sqlite: reports survive a restart
          MaxAge, MaxSaves, MaxRestarts   \* bounds

ASSUME OfflineAlertsAssumption ==
    /\ Wakes \subseteq Nat \ {0}
    /\ DefaultWake \in Nat \ {0}
    /\ BackoffWake \in Nat \ {0}
    /\ MinWake \in Nat \ {0}
    /\ Settings \subseteq [staleAfter : Nat, renotify : Nat]
    /\ Defaults \in [staleAfter : Nat \ {0}, renotify : Nat \ {0}]
    /\ Durable \in BOOLEAN
    /\ MaxAge \in Nat
    /\ \A w \in Wakes : 2 * w < MaxAge
    /\ \A s \in Settings \cup {Defaults} : s.staleAfter < MaxAge /\ s.renotify < MaxAge
    /\ MaxSaves \in Nat
    /\ MaxRestarts \in Nat

VARIABLES device,     \* the display: step, ticks to sleep, RTC's next_wake_s
          mem,        \* the telemetry store's entry: age of the last report, expected wake
          check,      \* checkStale: between Snapshot and EvaluateStale, and what it found
          latch,      \* Manager.stale: alerting, and the age of the last message
          settings,   \* alerts.stale_after and alerts.min_renotify in the live config
          builtin,    \* the renotify the manager was built with
          told,       \* history: the last message people got, and its age
          missed,     \* history: the device failed a check-in since its last report
          saves, restarts

history == <<told, missed>>
vars == <<device, mem, check, latch, settings, builtin, told, missed, saves, restarts>>

Older(age) == IF age < MaxAge THEN age + 1 ELSE MaxAge

Message(kind) == [kind |-> kind, age |-> 0]

Unreported == [reported |-> FALSE, age |-> 0, wake |-> 0]
NoCheck == [pc |-> "idle", stale |-> FALSE]
NoLatch == [alerting |-> FALSE, since |-> 0]

Init ==
    /\ device = [pc |-> "asleep", timer |-> 0, next |-> DefaultWake]
    /\ mem = Unreported
    /\ check = NoCheck
    /\ latch = NoLatch
    /\ settings = Defaults
    /\ builtin = Defaults.renotify
    /\ told = Message("none")
    /\ missed = FALSE
    /\ saves = 0
    /\ restarts = 0

-----------------------------------------------------------------------------
(* The display.                                                             *)

broker == <<mem, check, latch, settings, builtin, saves, restarts>>

\* The timer fires, or somebody presses a button before it does.
WakeUp ==
    /\ device.pc = "asleep"
    /\ device' = [device EXCEPT !.pc = "awake", !.timer = 0]
    /\ UNCHANGED <<broker, history>>

Sleep(ticks) == [pc |-> "asleep", timer |-> ticks, next |-> ticks]

\* No Wi-Fi: no report, and a sleep the broker does not know of, the long one
\* after more than four failures in a row, which are not counted here.
ConnectFails ==
    /\ device.pc = "awake"
    /\ \E ticks \in {DefaultWake, BackoffWake} : device' = Sleep(ticks)
    /\ missed' = TRUE
    /\ UNCHANGED <<broker, told>>

(* The display handler notes the sleep it sends before it answers; the      *)
(* reply may be lost, then the device keeps the sleep it had.               *)
Fetch(w, delivered) ==
    /\ device.pc = "awake"
    /\ mem' = [mem EXCEPT !.wake = w]
    /\ device' = [device EXCEPT !.pc = "fetched", !.next = IF delivered THEN w ELSE @]
    /\ UNCHANGED <<check, latch, settings, builtin, told, missed, saves, restarts>>

\* The request is lost, or answered with a 503: no picture yet, try again soon.
FetchFails ==
    /\ device.pc = "awake"
    /\ \E next \in {device.next, MinWake} :
          device' = [device EXCEPT !.pc = "fetched", !.next = next]
    /\ UNCHANGED <<broker, history>>

\* After the repaint: Ingest.  Then to sleep.
Report ==
    /\ device.pc = "fetched"
    /\ device' = Sleep(device.next)
    /\ mem' = [mem EXCEPT !.reported = TRUE, !.age = 0]
    /\ missed' = FALSE
    /\ UNCHANGED <<check, latch, settings, builtin, told, saves, restarts>>

ReportLost ==
    /\ device.pc = "fetched"
    /\ device' = Sleep(device.next)
    /\ missed' = TRUE
    /\ UNCHANGED <<broker, told>>

\* The battery is empty.
Die ==
    /\ device.pc # "dead"
    /\ device' = [device EXCEPT !.pc = "dead", !.timer = 0]
    /\ missed' = TRUE
    /\ UNCHANGED <<broker, told>>

\* Charged again: RTC memory starts afresh.
Revive ==
    /\ device.pc = "dead"
    /\ device' = [device EXCEPT !.pc = "awake", !.next = DefaultWake]
    /\ UNCHANGED <<broker, history>>

(* A tick passes, in a sleep or for a dead display. *)
Tick ==
    /\ \/ device.pc = "asleep" /\ device.timer > 0
       \/ device.pc = "dead"
    /\ device' = [device EXCEPT !.timer = IF @ > 0 THEN @ - 1 ELSE 0]
    /\ mem' = [mem EXCEPT !.age = IF mem.reported THEN Older(@) ELSE 0]
    /\ latch' = [latch EXCEPT !.since = IF told.kind = "none" THEN 0 ELSE Older(@)]
    /\ told' = [told EXCEPT !.age = IF told.kind = "none" THEN 0 ELSE Older(@)]
    /\ UNCHANGED <<check, settings, builtin, missed, saves, restarts>>

-----------------------------------------------------------------------------
(* The broker.                                                              *)

BugFleetThreshold == settings.staleAfter

BugThresholdNeedsWake == IF mem.wake > 0 THEN 2 * mem.wake ELSE MaxAge

(* StaleThreshold: two of the device's own expected sleeps, or              *)
(* alerts.stale_after while that is not known.                              *)
StaleThreshold == IF mem.wake > 0 THEN 2 * mem.wake ELSE settings.staleAfter

(* checkStale reads the device's snapshot; a device that is not known to    *)
(* have reported is passed over.                                            *)
Judge ==
    /\ check.pc = "idle"
    /\ mem.reported
    /\ check' = [pc |-> "judged", stale |-> mem.age > StaleThreshold]
    /\ UNCHANGED <<device, mem, latch, settings, builtin, told, missed, saves, restarts>>

\* Manager.current: an empty setting is the one the manager was built with.
Renotify == IF settings.renotify = 0 THEN builtin ELSE settings.renotify

BugTellOfflineAtEveryCheck ==
    /\ check.pc = "judged"
    /\ check.stale
    /\ latch' = [alerting |-> TRUE, since |-> 0]
    /\ told' = Message("offline")
    /\ check' = NoCheck
    /\ UNCHANGED <<device, mem, settings, builtin, missed, saves, restarts>>

(* EvaluateStale: gone offline, or still offline and renotify has passed. *)
TellOffline ==
    /\ check.pc = "judged"
    /\ check.stale
    /\ ~latch.alerting \/ latch.since >= Renotify
    /\ latch' = [alerting |-> TRUE, since |-> 0]
    /\ told' = Message("offline")
    /\ check' = NoCheck
    /\ UNCHANGED <<device, mem, settings, builtin, missed, saves, restarts>>

\* The message goes out and the latch stays.
BugRecoveredKeepsLatch ==
    /\ check.pc = "judged"
    /\ ~check.stale
    /\ latch.alerting
    /\ told' = Message("recovered")
    /\ check' = NoCheck
    /\ UNCHANGED <<device, mem, latch, settings, builtin, missed, saves, restarts>>

(* EvaluateStale: not stale any more, after an offline message. *)
TellRecovered ==
    /\ check.pc = "judged"
    /\ ~check.stale
    /\ latch.alerting
    /\ latch' = [latch EXCEPT !.alerting = FALSE]
    /\ told' = Message("recovered")
    /\ check' = NoCheck
    /\ UNCHANGED <<device, mem, settings, builtin, missed, saves, restarts>>

\* EvaluateStale: nothing to say.
TellNothing ==
    /\ check.pc = "judged"
    /\ IF check.stale THEN latch.alerting /\ latch.since < Renotify ELSE ~latch.alerting
    /\ check' = NoCheck
    /\ UNCHANGED <<device, mem, latch, settings, builtin, history, saves, restarts>>

(* handleAdminSaveAlerts: the new settings are in force at the next check. *)
SaveAlerts(s) ==
    /\ saves < MaxSaves
    /\ saves' = saves + 1
    /\ settings' = s
    /\ UNCHANGED <<device, mem, check, latch, builtin, told, missed, restarts>>

\* applyDefaults: empty fields of a loaded config get their defaults.
Loaded(s) == [staleAfter |-> IF s.staleAfter = 0 THEN Defaults.staleAfter ELSE s.staleAfter,
              renotify |-> IF s.renotify = 0 THEN Defaults.renotify ELSE s.renotify]

(* The broker starts again: latches and expected wakes are gone, reports    *)
(* are not when they are in a file.                                         *)
Restart ==
    /\ restarts < MaxRestarts
    /\ restarts' = restarts + 1
    /\ mem' = IF Durable THEN [mem EXCEPT !.wake = 0] ELSE Unreported
    /\ check' = NoCheck
    /\ latch' = NoLatch
    /\ settings' = Loaded(settings)
    /\ builtin' = Loaded(settings).renotify
    /\ UNCHANGED <<device, history, saves>>

WakeCycle ==
    \/ ConnectFails
    \/ \E w \in Wakes, delivered \in BOOLEAN : Fetch(w, delivered)
    \/ FetchFails
    \/ Report
    \/ ReportLost

Tell == TellOffline \/ TellRecovered \/ TellNothing

Next ==
    \/ WakeUp \/ WakeCycle \/ Die \/ Revive
    \/ Tick
    \/ Judge \/ Tell
    \/ \E s \in Settings : SaveAlerts(s)
    \/ Restart

Spec == Init /\ [][Next]_vars

(* The clock runs and the checks of RunStaleChecks go on.  Nothing is       *)
(* assumed of the display.                                                  *)
FairSpec == Spec /\ WF_vars(Tick) /\ WF_vars(Judge) /\ WF_vars(Tell)

-----------------------------------------------------------------------------
Age == 0 .. MaxAge

TypeOK ==
    /\ device \in [pc : {"asleep", "awake", "fetched", "dead"},
                   timer : Nat,
                   next : Wakes \cup {DefaultWake, BackoffWake, MinWake}]
    /\ mem \in [reported : BOOLEAN, age : Age, wake : Wakes \cup {0}]
    /\ check \in [pc : {"idle", "judged"}, stale : BOOLEAN]
    /\ latch \in [alerting : BOOLEAN, since : Age]
    /\ settings \in Settings \cup {Loaded(s) : s \in Settings \cup {Defaults}}
    /\ builtin \in Nat \ {0}
    /\ told \in [kind : {"none", "offline", "recovered"}, age : Age]
    /\ missed \in BOOLEAN
    /\ saves \in 0 .. MaxSaves
    /\ restarts \in 0 .. MaxRestarts

(* The latch says what people were told last: while it is up, the last      *)
(* message was "offline" and it is as old as the latch has it.              *)
LatchIsWhatWasTold ==
    latch.alerting => told.kind = "offline" /\ told.age = latch.since

AlertInv == TypeOK /\ LatchIsWhatWasTold

JudgedStale == check.pc = "idle" /\ check'.pc = "judged" /\ check'.stale

\* The broker cannot know better: it lost the expected wake in a restart, or
\* sent one that the device did not get.
Misinformed == mem.wake = 0 \/ mem.wake < device.next

(* A display is judged stale only if it failed a check-in since its last    *)
(* report, if the broker's expected wake is not what the display sleeps, or *)
(* if it is awake this moment, between its fetch and its report.            *)
StaleIsJustified == [][JudgedStale => missed \/ Misinformed \/ device.pc = "fetched"]_vars

OfflineAgain == told.kind = "offline" /\ told'.kind = "offline" /\ told'.age < told.age

(* A repeat of the offline message comes no sooner than renotify, but after *)
(* a restart.                                                               *)
RepeatsAreSpaced == [][OfflineAgain => told.age >= Renotify \/ ~latch.alerting]_vars

(* A display that is dead for good is reported offline for good, whatever   *)
(* restarts and settings came before.                                       *)
DeadIsTold == <>[](device.pc = "dead" /\ mem.reported) => <>[]latch.alerting

(* A display that is not silent any more is not left reported offline. *)
RecoveryIsTold == <>[](mem.age <= StaleThreshold) => <>[]~latch.alerting

=============================================================================
