------------------------- MODULE OfflineAlertsProofs -------------------------
(***************************************************************************)
(* Proofs about OfflineAlerts, for any sleeps, settings and bounds.  The    *)
(* latch and the last message change together in EvaluateStale, grow old    *)
(* together, and a restart takes the latch down without a word: so a latch  *)
(* that is up tells when the last offline message was, and a repeat waits   *)
(* for renotify.  And a display that keeps its schedule never has a report  *)
(* older than the sleep it was told.                                        *)
(***************************************************************************)
EXTENDS OfflineAlerts, TLAPS

(* A broker starts with nothing told and no latch.                          *)
LEMMA InitInv == Init => AlertInv
<1> SUFFICES ASSUME Init PROVE AlertInv
  OBVIOUS
<1> USE OfflineAlertsAssumption DEF Init
<1>1. device \in [pc : {"asleep", "awake", "fetched", "dead"},
                  timer : Nat,
                  next : Wakes \cup {DefaultWake, BackoffWake, MinWake}]
  OBVIOUS
<1>2. 0 \in Age
  BY DEF Age
<1>3. mem \in [reported : BOOLEAN, age : Age, wake : Wakes \cup {0}]
  BY <1>2 DEF Unreported
<1>4. check \in [pc : {"idle", "judged"}, stale : BOOLEAN]
  BY DEF NoCheck
<1>5. latch \in [alerting : BOOLEAN, since : Age]
  BY <1>2 DEF NoLatch
<1>6. told \in [kind : {"none", "offline", "recovered"}, age : Age]
  BY <1>2 DEF Message
<1>7. settings \in Settings \cup {Loaded(s) : s \in Settings \cup {Defaults}}
  <2>1. Defaults.staleAfter # 0 /\ Defaults.renotify # 0
        /\ Defaults = [staleAfter |-> Defaults.staleAfter, renotify |-> Defaults.renotify]
    OBVIOUS
  <2>2. Loaded(Defaults) = Defaults
    BY <2>1 DEF Loaded
  <2> QED
    BY <2>2
<1>8. builtin \in Nat \ {0}
  OBVIOUS
<1>9. missed \in BOOLEAN /\ saves \in 0 .. MaxSaves /\ restarts \in 0 .. MaxRestarts
  <2>1. missed = FALSE /\ saves = 0 /\ restarts = 0
    OBVIOUS
  <2>2. missed \in BOOLEAN
    BY <2>1
  <2>3. 0 \in 0 .. MaxSaves /\ 0 \in 0 .. MaxRestarts
    OBVIOUS
  <2> QED
    BY <2>1, <2>2, <2>3
<1>11. TypeOK
  <2> HIDE DEF Init
  <2> QED
    BY <1>1, <1>3, <1>4, <1>5, <1>6, <1>7, <1>8, <1>9 DEF TypeOK
<1>10. LatchIsWhatWasTold
  BY DEF LatchIsWhatWasTold, NoLatch
<1> QED
  BY <1>10, <1>11 DEF AlertInv

(* Ages stay within their bound.                                            *)
LEMMA OlderType == ASSUME NEW a \in Age PROVE Older(a) \in Age
  BY OfflineAlertsAssumption DEF Age, Older

DeviceOK == device \in [pc : {"asleep", "awake", "fetched", "dead"},
                        timer : Nat,
                        next : Wakes \cup {DefaultWake, BackoffWake, MinWake}]

(* What the display does by itself: the manager's state is not touched.     *)
LEMMA DisplayStepInv ==
    ASSUME AlertInv,
           \/ WakeUp \/ ConnectFails \/ FetchFails \/ Report \/ ReportLost \/ Die \/ Revive
           \/ \E w \in Wakes, delivered \in BOOLEAN : Fetch(w, delivered)
    PROVE  AlertInv'
<1> USE DEF AlertInv
<1>1. DeviceOK
  BY DEF TypeOK, DeviceOK
<1>2. DeviceOK'
  <2>1. device.next \in Wakes \cup {DefaultWake, BackoffWake, MinWake} /\ Wakes \cup {DefaultWake, BackoffWake, MinWake} \subseteq Nat
    BY <1>1, OfflineAlertsAssumption DEF DeviceOK
  <2>2. \A ticks \in Wakes \cup {DefaultWake, BackoffWake, MinWake} : Sleep(ticks) \in
           [pc : {"asleep", "awake", "fetched", "dead"}, timer : Nat,
            next : Wakes \cup {DefaultWake, BackoffWake, MinWake}]
    BY <2>1 DEF Sleep
  <2>3. CASE ConnectFails \/ Report \/ ReportLost
    BY <2>1, <2>2, <2>3 DEF DeviceOK, ConnectFails, Report, ReportLost
  <2>4. CASE WakeUp \/ Die \/ Revive
    <3>1. \/ device' = [device EXCEPT !.pc = "awake", !.timer = 0]
          \/ device' = [device EXCEPT !.pc = "dead", !.timer = 0]
          \/ device' = [device EXCEPT !.pc = "awake", !.next = DefaultWake]
      BY <2>4 DEF WakeUp, Die, Revive
    <3>2. 0 \in Nat /\ DefaultWake \in Wakes \cup {DefaultWake, BackoffWake, MinWake}
      OBVIOUS
    <3>3. CASE device' = [device EXCEPT !.pc = "awake", !.timer = 0]
      BY <1>1, <3>2, <3>3 DEF DeviceOK
    <3>4. CASE device' = [device EXCEPT !.pc = "dead", !.timer = 0]
      BY <1>1, <3>2, <3>4 DEF DeviceOK
    <3>5. CASE device' = [device EXCEPT !.pc = "awake", !.next = DefaultWake]
      BY <1>1, <3>2, <3>5 DEF DeviceOK
    <3> QED
      BY <3>1, <3>3, <3>4, <3>5
  <2>6. CASE FetchFails
    <3>1. PICK next \in {device.next, MinWake} :
             device' = [device EXCEPT !.pc = "fetched", !.next = next]
      BY <2>6 DEF FetchFails
    <3>2. next \in Wakes \cup {DefaultWake, BackoffWake, MinWake}
      BY <2>1
    <3> QED
      BY <1>1, <3>1, <3>2 DEF DeviceOK
  <2>5. CASE \E w \in Wakes, delivered \in BOOLEAN : Fetch(w, delivered)
    BY <1>1, <2>1, <2>5 DEF DeviceOK, Fetch
  <2> QED
    BY <2>3, <2>4, <2>5, <2>6
<1>3. mem' \in [reported : BOOLEAN, age : Age, wake : Wakes \cup {0}]
  <2>1. mem \in [reported : BOOLEAN, age : Age, wake : Wakes \cup {0}] /\ 0 \in Age
    BY OfflineAlertsAssumption DEF TypeOK, Age
  <2> QED
    BY <2>1 DEF WakeUp, ConnectFails, FetchFails, Report, ReportLost, Die, Revive, Fetch, broker
<1>4. UNCHANGED <<check, latch, settings, builtin, told, saves, restarts>>
  BY DEF WakeUp, ConnectFails, FetchFails, Report, ReportLost, Die, Revive, Fetch, broker, history
<1>5. missed' \in BOOLEAN
  BY DEF TypeOK, WakeUp, ConnectFails, FetchFails, Report, ReportLost, Die, Revive, Fetch, broker,
         history
<1>6. TypeOK'
  BY <1>2, <1>3, <1>4, <1>5 DEF TypeOK, DeviceOK
<1>7. LatchIsWhatWasTold'
  BY <1>4 DEF LatchIsWhatWasTold
<1> QED
  BY <1>6, <1>7

(* Time passes: the message and the latch that recalls it grow old alike.   *)
LEMMA TickInv == ASSUME AlertInv, Tick PROVE AlertInv'
<1> USE DEF AlertInv
<1>1. DeviceOK
  BY DEF TypeOK, DeviceOK
<1>2. DeviceOK'
  <2>1. device.timer \in Nat
    BY <1>1 DEF DeviceOK
  <2>2. (IF device.timer > 0 THEN device.timer - 1 ELSE 0) \in Nat
    BY <2>1
  <2> QED
    BY <1>1, <2>2 DEF DeviceOK, Tick
<1>3. mem.age \in Age /\ latch.since \in Age /\ told.age \in Age /\ 0 \in Age
  BY OfflineAlertsAssumption DEF TypeOK, Age
<1>4. Older(mem.age) \in Age /\ Older(latch.since) \in Age /\ Older(told.age) \in Age
  BY <1>3, OlderType
<1>5. mem' \in [reported : BOOLEAN, age : Age, wake : Wakes \cup {0}]
  BY <1>3, <1>4 DEF TypeOK, Tick
<1>6. latch' \in [alerting : BOOLEAN, since : Age]
  BY <1>3, <1>4 DEF TypeOK, Tick
<1>7. told' \in [kind : {"none", "offline", "recovered"}, age : Age]
  BY <1>3, <1>4 DEF TypeOK, Tick
<1>8. TypeOK'
  BY <1>2, <1>5, <1>6, <1>7 DEF TypeOK, DeviceOK, Tick
<1>9. LatchIsWhatWasTold'
  BY DEF TypeOK, LatchIsWhatWasTold, Tick
<1> QED
  BY <1>8, <1>9

(* checkStale reads the device's entry and writes nothing else.             *)
LEMMA JudgeInv == ASSUME AlertInv, Judge PROVE AlertInv'
<1> USE DEF AlertInv
<1>1. (mem.age > StaleThreshold) \in BOOLEAN
  OBVIOUS
<1>2. check' \in [pc : {"idle", "judged"}, stale : BOOLEAN]
  BY <1>1 DEF Judge
<1>3. UNCHANGED <<device, mem, latch, settings, builtin, told, missed, saves, restarts>>
  BY DEF Judge
<1>4. TypeOK'
  BY <1>2, <1>3 DEF TypeOK
<1>5. LatchIsWhatWasTold'
  BY <1>3 DEF LatchIsWhatWasTold
<1> QED
  BY <1>4, <1>5

(* EvaluateStale: the message and the latch change together.                *)
LEMMA TellInv == ASSUME AlertInv, Tell PROVE AlertInv'
<1> USE DEF AlertInv
<1>1. UNCHANGED <<device, mem, settings, builtin, missed, saves, restarts>> /\ check' = NoCheck
  BY DEF Tell, TellOffline, TellRecovered, TellNothing, history
<1>2. check' \in [pc : {"idle", "judged"}, stale : BOOLEAN]
  BY <1>1 DEF NoCheck
<1>3. 0 \in Age
  BY OfflineAlertsAssumption DEF Age
<1>4. CASE TellOffline
  <2>1. latch' = [alerting |-> TRUE, since |-> 0] /\ told' = Message("offline")
    BY <1>4 DEF TellOffline
  <2>2. latch' \in [alerting : BOOLEAN, since : Age]
    BY <1>3, <2>1
  <2>3. told' \in [kind : {"none", "offline", "recovered"}, age : Age]
    BY <1>3, <2>1 DEF Message
  <2>4. LatchIsWhatWasTold'
    BY <2>1 DEF LatchIsWhatWasTold, Message
  <2> QED
    BY <1>1, <1>2, <2>2, <2>3, <2>4 DEF TypeOK
<1>5. CASE TellRecovered
  <2>1. latch' = [latch EXCEPT !.alerting = FALSE] /\ told' = Message("recovered")
    BY <1>5 DEF TellRecovered
  <2>2. latch' \in [alerting : BOOLEAN, since : Age]
    BY <2>1 DEF TypeOK
  <2>3. told' \in [kind : {"none", "offline", "recovered"}, age : Age]
    BY <1>3, <2>1 DEF Message
  <2>4. ~latch'.alerting
    BY <2>1 DEF TypeOK
  <2>5. LatchIsWhatWasTold'
    BY <2>4 DEF LatchIsWhatWasTold
  <2> QED
    BY <1>1, <1>2, <2>2, <2>3, <2>5 DEF TypeOK
<1>6. CASE TellNothing
  <2>1. UNCHANGED <<latch, told>>
    BY <1>6 DEF TellNothing, history
  <2> QED
    BY <1>1, <1>2, <2>1 DEF TypeOK, LatchIsWhatWasTold
<1> QED
  BY <1>4, <1>5, <1>6 DEF Tell

(* What a config file with empty fields is loaded as, loaded again.         *)
LEMMA LoadedAgain ==
    ASSUME NEW s \in Settings \cup {Loaded(t) : t \in Settings \cup {Defaults}}
    PROVE  /\ Loaded(s) \in {Loaded(t) : t \in Settings \cup {Defaults}}
           /\ Loaded(s).renotify \in Nat \ {0}
<1> USE OfflineAlertsAssumption
<1>1. ASSUME NEW t \in Settings \cup {Defaults}
      PROVE  Loaded(t).renotify \in Nat \ {0} /\ Loaded(Loaded(t)) = Loaded(t)
  <2>1. t.staleAfter \in Nat /\ t.renotify \in Nat
    OBVIOUS
  <2> QED
    BY <2>1 DEF Loaded
<1> QED
  BY <1>1

(* New settings; a restart, which takes the latch down.                     *)
LEMMA SettingsInv ==
    ASSUME AlertInv, Restart \/ \E s \in Settings : SaveAlerts(s)
    PROVE  AlertInv'
<1> USE DEF AlertInv
<1>1. CASE \E s \in Settings : SaveAlerts(s)
  <2>1. PICK s \in Settings : SaveAlerts(s)
    BY <1>1
  <2>2. settings' = s /\ UNCHANGED <<device, mem, check, latch, builtin, told, missed, restarts>>
    BY <2>1 DEF SaveAlerts
  <2>3. saves' \in 0 .. MaxSaves
    BY <2>1, OfflineAlertsAssumption DEF SaveAlerts, TypeOK
  <2> QED
    BY <2>2, <2>3 DEF TypeOK, LatchIsWhatWasTold
<1>2. CASE Restart
  <2>1. /\ mem' = IF Durable THEN [mem EXCEPT !.wake = 0] ELSE Unreported
        /\ check' = NoCheck
        /\ latch' = NoLatch
        /\ settings' = Loaded(settings)
        /\ builtin' = Loaded(settings).renotify
        /\ UNCHANGED <<device, told, missed, saves>>
    BY <1>2 DEF Restart, history
  <2>2. restarts' \in 0 .. MaxRestarts
    BY <1>2, OfflineAlertsAssumption DEF Restart, TypeOK
  <2>3. 0 \in Age
    BY OfflineAlertsAssumption DEF Age
  <2>4. mem' \in [reported : BOOLEAN, age : Age, wake : Wakes \cup {0}]
    BY <2>1, <2>3 DEF TypeOK, Unreported
  <2>5. check' \in [pc : {"idle", "judged"}, stale : BOOLEAN]
    BY <2>1 DEF NoCheck
  <2>6. latch' \in [alerting : BOOLEAN, since : Age]
    BY <2>1, <2>3 DEF NoLatch
  <2>7. settings' \in Settings \cup {Loaded(s) : s \in Settings \cup {Defaults}}
        /\ builtin' \in Nat \ {0}
    BY <2>1, LoadedAgain DEF TypeOK
  <2>8. ~latch'.alerting
    BY <2>1 DEF NoLatch
  <2>9. TypeOK'
    BY <2>1, <2>2, <2>4, <2>5, <2>6, <2>7 DEF TypeOK
  <2> QED
    BY <2>8, <2>9 DEF LatchIsWhatWasTold
<1> QED
  BY <1>1, <1>2

(* Every step of the display and of the broker.                             *)
LEMMA StepInv == AlertInv /\ [Next]_vars => AlertInv'
<1> SUFFICES ASSUME AlertInv, [Next]_vars PROVE AlertInv'
  OBVIOUS
<1>1. CASE UNCHANGED vars
  BY <1>1 DEF vars, history, AlertInv, TypeOK, LatchIsWhatWasTold
<1>2. CASE WakeUp \/ WakeCycle \/ Die \/ Revive
  BY <1>2, DisplayStepInv DEF WakeCycle
<1>3. CASE Tick
  BY <1>3, TickInv
<1>4. CASE Judge \/ Tell
  BY <1>4, JudgeInv, TellInv
<1>5. CASE Restart \/ \E s \in Settings : SaveAlerts(s)
  BY <1>5, SettingsInv
<1> QED
  BY <1>1, <1>2, <1>3, <1>4, <1>5 DEF Next

(* The latch is what people were told last, in every reachable state:       *)
(* whatever settings are saved and however often the broker restarts.       *)
THEOREM LatchTellsTheTruth == Spec => []AlertInv
  BY InitInv, StepInv, PTL DEF Spec

(* An offline message follows an offline message only where EvaluateStale   *)
(* tells it, and there the latch says how long ago the last one was.        *)
LEMMA RepeatWaits ==
    AlertInv /\ [Next]_vars => [OfflineAgain => told.age >= Renotify \/ ~latch.alerting]_vars
<1> SUFFICES ASSUME AlertInv, Next, OfflineAgain, latch.alerting
             PROVE  told.age >= Renotify
  BY DEF OfflineAgain, vars, history
<1> USE DEF AlertInv
<1>1. told.age = latch.since /\ told.age \in Nat
  BY DEF LatchIsWhatWasTold, TypeOK, Age
<1>2. CASE TellOffline
  BY <1>1, <1>2 DEF TellOffline
<1>3. CASE TellRecovered
  BY <1>3 DEF TellRecovered, Message, OfflineAgain
<1>4. CASE Tick
  <2>1. told'.age = Older(told.age) /\ told.age <= MaxAge
    BY <1>4 DEF Tick, OfflineAgain, TypeOK, Age
  <2> QED
    BY <1>1, <2>1, OfflineAlertsAssumption DEF Older, OfflineAgain
<1>5. CASE UNCHANGED told
  BY <1>1, <1>5 DEF OfflineAgain
<1> QED
  BY <1>2, <1>3, <1>4, <1>5
     DEF Next, WakeUp, WakeCycle, ConnectFails, FetchFails, Fetch, Report, ReportLost, Die, Revive,
         Judge, Tell, TellNothing, SaveAlerts, Restart, history

(* A repeat of the offline message comes no sooner than renotify, but after *)
(* a restart.                                                               *)
THEOREM RepeatsWaitForRenotify == Spec => RepeatsAreSpaced
  BY LatchTellsTheTruth, RepeatWaits, PTL DEF Spec, RepeatsAreSpaced
-----------------------------------------------------------------------------
(* Why a display that keeps its schedule is not judged stale.               *)

(* A display that has checked in as it should since its last report: its    *)
(* report is no older than the sleep it was told, while it sleeps by at     *)
(* least what is left of that sleep.                                        *)
OnSchedule ==
    mem.reported /\ ~missed =>
        /\ device.pc # "dead"
        /\ device.pc = "asleep" => mem.age + device.timer <= device.next
        /\ device.pc = "awake" => mem.age <= device.next

(* The numbers of it.                                                       *)
LEMMA ScheduleNumbers ==
    ASSUME AlertInv
    PROVE  /\ DeviceOK /\ mem \in [reported : BOOLEAN, age : Age, wake : Wakes \cup {0}]
           /\ device.next \in Nat /\ device.timer \in Nat
           /\ mem.age \in Nat /\ mem.age <= MaxAge /\ mem.wake \in Nat
<1>1. DeviceOK /\ mem \in [reported : BOOLEAN, age : Age, wake : Wakes \cup {0}]
  BY DEF AlertInv, TypeOK, DeviceOK
<1>2. device.next \in Wakes \cup {DefaultWake, BackoffWake, MinWake} /\ device.timer \in Nat
  BY <1>1 DEF DeviceOK
<1>3. mem.age \in Age /\ mem.wake \in Wakes \cup {0}
  BY <1>1
<1>4. Wakes \cup {DefaultWake, BackoffWake, MinWake} \subseteq Nat /\ Wakes \cup {0} \subseteq Nat
  BY OfflineAlertsAssumption
<1>5. mem.age \in Nat /\ mem.age <= MaxAge
  BY <1>3, OfflineAlertsAssumption DEF Age
<1>6. device.next \in Nat /\ mem.wake \in Nat
  BY <1>2, <1>3, <1>4
<1> QED
  BY <1>1, <1>2, <1>5, <1>6

(* The display's own steps: a report starts the sleep with an age of 0, and *)
(* whatever else ends a wake is a missed check-in.                          *)
LEMMA DisplayKeepsSchedule ==
    ASSUME AlertInv, OnSchedule,
           \/ WakeUp \/ ConnectFails \/ FetchFails \/ Report \/ ReportLost \/ Die \/ Revive
           \/ \E w \in Wakes, delivered \in BOOLEAN : Fetch(w, delivered)
    PROVE  OnSchedule'
<1>1. DeviceOK /\ mem \in [reported : BOOLEAN, age : Age, wake : Wakes \cup {0}]
  BY ScheduleNumbers
<1>2. device.next \in Nat /\ device.timer \in Nat /\ mem.age \in Nat
  BY ScheduleNumbers
<1>3. CASE ConnectFails \/ ReportLost \/ Die
  BY <1>3 DEF OnSchedule, ConnectFails, ReportLost, Die
<1>4. CASE Report
  <2>1. mem'.age = 0 /\ device'.pc = "asleep"
        /\ device'.timer = device.next /\ device'.next = device.next
    BY <1>1, <1>4 DEF Report, Sleep
  <2> QED
    BY <1>2, <2>1 DEF OnSchedule
<1>5. CASE WakeUp
  <2>1. /\ device.pc = "asleep" /\ device'.pc = "awake" /\ device'.next = device.next
        /\ mem' = mem /\ missed' = missed
    BY <1>1, <1>5 DEF WakeUp, DeviceOK, broker, history
  <2> QED
    BY <1>2, <2>1 DEF OnSchedule
<1>6. CASE Revive
  BY <1>6 DEF OnSchedule, Revive, broker, history
<1>7. CASE FetchFails \/ \E w \in Wakes, delivered \in BOOLEAN : Fetch(w, delivered)
  <2>1. device.pc = "awake" /\ device'.pc = "fetched"
    BY <1>1, <1>7 DEF FetchFails, Fetch, DeviceOK
  <2> QED
    BY <2>1 DEF OnSchedule
<1> QED
  BY <1>3, <1>4, <1>5, <1>6, <1>7

(* A tick takes from the sleep what it adds to the report's age.            *)
LEMMA TickKeepsSchedule == ASSUME AlertInv, OnSchedule, Tick PROVE OnSchedule'
<1>1. DeviceOK /\ mem \in [reported : BOOLEAN, age : Age, wake : Wakes \cup {0}]
  BY ScheduleNumbers
<1>2. device.next \in Nat /\ device.timer \in Nat /\ mem.age \in Nat /\ mem.age <= MaxAge
  BY ScheduleNumbers
<1>3. /\ device'.pc = device.pc /\ device'.next = device.next
      /\ device'.timer = IF device.timer > 0 THEN device.timer - 1 ELSE 0
      /\ mem'.age = IF mem.reported THEN Older(mem.age) ELSE 0
      /\ mem'.reported = mem.reported /\ missed' = missed
  BY <1>1 DEF Tick, DeviceOK
<1>4. device.pc = "dead" \/ (device.pc = "asleep" /\ device.timer > 0)
  BY DEF Tick
<1>5. Older(mem.age) \in Nat /\ Older(mem.age) <= mem.age + 1
  BY <1>2, OfflineAlertsAssumption DEF Older
<1> QED
  BY <1>2, <1>3, <1>4, <1>5 DEF OnSchedule

(* The broker's steps: a restart keeps the report or forgets that there was *)
(* one.                                                                     *)
LEMMA BrokerKeepsSchedule ==
    ASSUME AlertInv, OnSchedule, Judge \/ Tell \/ Restart \/ \E s \in Settings : SaveAlerts(s)
    PROVE  OnSchedule'
<1>1. UNCHANGED <<device, missed>>
  BY DEF Judge, Tell, TellOffline, TellRecovered, TellNothing, Restart, SaveAlerts, history
<1>2. mem'.reported => mem.reported /\ mem'.age = mem.age
  <2>1. mem \in [reported : BOOLEAN, age : Age, wake : Wakes \cup {0}]
    BY DEF AlertInv, TypeOK
  <2>2. \/ mem' = mem \/ mem' = [mem EXCEPT !.wake = 0] \/ mem' = Unreported
    BY DEF Judge, Tell, TellOffline, TellRecovered, TellNothing, Restart, SaveAlerts
  <2> QED
    BY <2>1, <2>2 DEF Unreported
<1> QED
  BY <1>1, <1>2 DEF OnSchedule

(* Every reachable state.                                                   *)
LEMMA AlwaysOnSchedule == Spec => [](AlertInv /\ OnSchedule)
<1>1. Init => OnSchedule
  BY DEF Init, OnSchedule, Unreported
<1>2. AlertInv /\ OnSchedule /\ [Next]_vars => OnSchedule'
  <2> SUFFICES ASSUME AlertInv, OnSchedule, [Next]_vars PROVE OnSchedule'
    OBVIOUS
  <2>1. CASE UNCHANGED vars
    BY <2>1 DEF vars, history, OnSchedule
  <2>2. CASE Next
    BY <2>2, DisplayKeepsSchedule, TickKeepsSchedule, BrokerKeepsSchedule DEF Next, WakeCycle
  <2> QED
    BY <2>1, <2>2
<1> QED
  BY <1>1, <1>2, InitInv, StepInv, PTL DEF Spec

(* A check finds a display stale only for one of the named causes: it       *)
(* missed a check-in, the broker's expected wake is not the sleep it is in, *)
(* or it is awake this moment (StaleThreshold: two of the device's own      *)
(* expected sleeps, of which one would do for a display on time).           *)
THEOREM StaleHasACause == Spec => StaleIsJustified
<1>1. AlertInv /\ OnSchedule /\ [Next]_vars
        => [JudgedStale => missed \/ Misinformed \/ device.pc = "fetched"]_vars
  <2> SUFFICES ASSUME AlertInv, OnSchedule, Next, JudgedStale, ~missed, ~Misinformed,
                      device.pc # "fetched"
               PROVE  FALSE
    BY DEF JudgedStale, vars
  <2>1. DeviceOK
    BY ScheduleNumbers
  <2>2. device.next \in Nat /\ device.timer \in Nat /\ mem.age \in Nat /\ mem.wake \in Nat
    BY ScheduleNumbers
  <2>3. Judge
    <3>1. check' # check /\ check' # NoCheck
      BY DEF JudgedStale, NoCheck
    <3> QED
      BY <3>1
         DEF Next, WakeUp, WakeCycle, ConnectFails, FetchFails, Fetch, Report, ReportLost, Die,
             Revive, Tick, Tell, TellOffline, TellRecovered, TellNothing, SaveAlerts, Restart,
             broker, history
  <2>4. mem.reported /\ mem.age > StaleThreshold
    BY <2>3 DEF Judge, JudgedStale
  <2>5. mem.wake > 0 /\ mem.wake >= device.next
    BY <2>2 DEF Misinformed
  <2>6. mem.age > 2 * mem.wake
    BY <2>4, <2>5 DEF StaleThreshold
  <2>7. mem.age <= device.next
    BY <2>1, <2>2, <2>4 DEF OnSchedule, DeviceOK
  <2> QED
    BY <2>2, <2>5, <2>6, <2>7
<1> QED
  BY <1>1, AlwaysOnSchedule, PTL DEF Spec, StaleIsJustified
=============================================================================
