------------------------- MODULE AlertDeliveryProofs -------------------------
(***************************************************************************)
(* Proofs about the decisions of AlertDelivery, for any thresholds,        *)
(* routes, browsers and bounds.  The latches in memory and the history of  *)
(* the reports never part (LatchInv): the alert latch is down only when a  *)
(* low message would be in order, and the two latches of a charge say      *)
(* whether the reports showed one and whether it was told.  A message      *)
(* under way keeps its turns in order (SendInv): what one channel's turn   *)
(* leaves behind is still true when the others have had theirs.            *)
(***************************************************************************)
EXTENDS AlertDelivery, TLAPS

State == [alerting : BOOLEAN, mv : 0..(Full + 1), charging : BOOLEAN, sent : BOOLEAN]

LatchInv ==
    /\ bat \in 0..Full /\ saved \in Thresholds \cup {Unset}
    /\ st \in State
    /\ charge \in {"none", "climbing", "told"}
    /\ spaced \/ st.alerting
    /\ st.charging <=> charge # "none"
    /\ st.sent <=> charge = "told"

(* The thresholds in force are levels.                                      *)
LEMMA CurrentLevels == ASSUME LatchInv PROVE current.low \in Int /\ current.clear \in Int
<1>1. BuiltWith.low \in Int /\ BuiltWith.clear \in Int
  BY AlertDeliveryAssumption
<1>2. saved.low \in Int /\ saved.clear \in Int
  <2>1. CASE saved \in Thresholds
    BY <2>1, AlertDeliveryAssumption
  <2>2. CASE saved = Unset
    BY <2>2 DEF Unset
  <2> QED
    BY <2>1, <2>2 DEF LatchInv
<1> QED
  BY <1>1, <1>2 DEF current

(* The battery's half of a report moves the alert latch alone; it lowers it *)
(* only after a recovery, and it fires only with the latch down or late.    *)
LEMMA Battery ==
    ASSUME LatchInv, NEW pct \in Int
    PROVE  /\ EvaluateBattery(st, pct).st \in State
           /\ EvaluateBattery(st, pct).st.mv = st.mv
           /\ EvaluateBattery(st, pct).st.charging <=> st.charging
           /\ EvaluateBattery(st, pct).st.sent <=> st.sent
           /\ EvaluateBattery(st, pct).fire =>
                  /\ EvaluateBattery(st, pct).st.alerting
                  /\ ~st.alerting \/ since >= Renotify
           /\ ~EvaluateBattery(st, pct).st.alerting =>
                  ~st.alerting \/ (pct > current.low /\ pct >= current.clear)
<1> DEFINE fire == pct <= current.low /\ (~st.alerting \/ since >= Renotify)
           up == IF pct <= current.low THEN st.alerting \/ fire
                 ELSE pct < current.clear /\ st.alerting
           s == [st EXCEPT !.alerting = up]
<1>1. st \in State /\ current.low \in Int /\ current.clear \in Int
  BY CurrentLevels DEF LatchInv
<1>2. EvaluateBattery(st, pct).st = s /\ (EvaluateBattery(st, pct).fire <=> fire)
  BY DEF EvaluateBattery
<1>3. st.alerting \in BOOLEAN
  BY <1>1 DEF State
<1>4. up \in BOOLEAN
  BY <1>3
<1>5. /\ fire => up /\ (~st.alerting \/ since >= Renotify)
      /\ ~up => ~st.alerting \/ (pct > current.low /\ pct >= current.clear)
  BY <1>1
<1> HIDE DEF fire, up
<1>6. s \in State /\ s.mv = st.mv /\ (s.charging <=> st.charging) /\ (s.sent <=> st.sent)
      /\ (s.alerting <=> up)
  BY <1>1, <1>4 DEF State
<1> QED
  BY <1>2, <1>5, <1>6

(* The charge's half leaves the alert latch, and follows the reports.       *)
LEMMA Charging ==
    ASSUME NEW s \in State, NEW mv \in 0..(Full + 1)
    PROVE  /\ EvaluateCharging(s, mv).st \in State
           /\ EvaluateCharging(s, mv).st.alerting <=> s.alerting
           /\ mv = 0 => /\ ~EvaluateCharging(s, mv).fire
                        /\ EvaluateCharging(s, mv).st.charging <=> s.charging
                        /\ EvaluateCharging(s, mv).st.sent <=> s.sent
           /\ mv # 0 /\ Breaks(s) => /\ ~EvaluateCharging(s, mv).fire
                                     /\ ~EvaluateCharging(s, mv).st.charging
                                     /\ ~EvaluateCharging(s, mv).st.sent
           /\ mv # 0 /\ ~Breaks(s) =>
                 /\ EvaluateCharging(s, mv).st.charging
                        <=> (s.charging \/ Rises(s, mv)) /\ ~Falls(s, mv)
                 /\ EvaluateCharging(s, mv).st.sent
                        <=> \/ EvaluateCharging(s, mv).fire
                            \/ s.charging /\ s.sent /\ ~Falls(s, mv)
                 /\ EvaluateCharging(s, mv).fire =>
                        /\ (s.charging \/ Rises(s, mv)) /\ ~Falls(s, mv)
                        /\ ~(s.charging /\ s.sent)
<1> DEFINE on == (s.charging \/ Rises(s, mv)) /\ ~Falls(s, mv)
           sent == on /\ s.charging /\ s.sent
           fire == on /\ ~sent /\ mv >= DoneMV
           broken == [s EXCEPT !.mv = mv, !.charging = FALSE, !.sent = FALSE]
           next == [s EXCEPT !.mv = mv, !.charging = on, !.sent = sent \/ fire]
<1>1. CASE mv = 0
  BY <1>1 DEF EvaluateCharging
<1>2. CASE mv # 0 /\ Breaks(s)
  <2>1. EvaluateCharging(s, mv) = [fire |-> FALSE, st |-> broken]
    BY <1>2 DEF EvaluateCharging
  <2>2. broken \in State /\ ~broken.charging /\ ~broken.sent
        /\ (broken.alerting <=> s.alerting)
    BY DEF State
  <2> HIDE DEF broken
  <2>3. EvaluateCharging(s, mv).st = broken /\ ~EvaluateCharging(s, mv).fire
    BY <2>1
  <2> QED
    BY <1>2, <2>2, <2>3
<1>3. CASE mv # 0 /\ ~Breaks(s)
  <2>1. EvaluateCharging(s, mv) = [fire |-> fire, st |-> next]
    BY <1>3 DEF EvaluateCharging
  <2>2. on \in BOOLEAN /\ (sent \/ fire) \in BOOLEAN
    OBVIOUS
  <2>3. /\ on <=> (s.charging \/ Rises(s, mv)) /\ ~Falls(s, mv)
        /\ (sent \/ fire) <=> (fire \/ (s.charging /\ s.sent /\ ~Falls(s, mv)))
        /\ fire => on /\ ~(s.charging /\ s.sent)
    OBVIOUS
  <2> HIDE DEF on, sent, fire
  <2>4. next \in State /\ (next.charging <=> on) /\ (next.sent <=> sent \/ fire)
        /\ (next.alerting <=> s.alerting)
    BY <2>2 DEF State
  <2> HIDE DEF next
  <2>5. EvaluateCharging(s, mv).st = next /\ (EvaluateCharging(s, mv).fire <=> fire)
    BY <2>1
  <2> QED
    BY <1>3, <2>3, <2>4, <2>5
<1> QED
  BY <1>1, <1>2, <1>3
(* One report: the latches and the history move together, and a message is  *)
(* due when it is sent.                                                     *)
LEMMA ReportLatch ==
    ASSUME LatchInv, NEW pct \in Int, NEW mv \in 0..(Full + 1), ReportOf(pct, mv)
    PROVE  /\ LatchInv'
           /\ ~Idling' =>
                 IF send'.kind = "low" THEN spaced \/ since >= Renotify
                 ELSE charge # "told" /\ charge' = "told"
<1> DEFINE low == EvaluateBattery(st, pct)
           full == EvaluateCharging(low.st, mv)
           trend == IF mv = 0 THEN charge
                    ELSE IF Breaks(st) \/ Falls(st, mv) THEN "none"
                    ELSE IF Rises(st, mv) /\ charge = "none" THEN "climbing" ELSE charge
<1>1. /\ st' = full.st
      /\ send' = IF low.fire THEN Dispatch("low")
                 ELSE IF full.fire THEN Dispatch("charged") ELSE Idle
      /\ charge' = IF full.fire /\ trend = "climbing" THEN "told" ELSE trend
      /\ spaced' = IF low.fire THEN FALSE
                   ELSE spaced \/ (pct > current.low /\ pct >= current.clear)
      /\ UNCHANGED <<bat, saved>>
  BY DEF ReportOf, config
<1>2. /\ low.st \in State /\ low.st.mv = st.mv
      /\ low.st.charging <=> st.charging
      /\ low.st.sent <=> st.sent
      /\ low.fire => low.st.alerting /\ (~st.alerting \/ since >= Renotify)
      /\ ~low.st.alerting => ~st.alerting \/ (pct > current.low /\ pct >= current.clear)
  BY Battery
<1>3. /\ Rises(low.st, mv) <=> Rises(st, mv)
      /\ Falls(low.st, mv) <=> Falls(st, mv)
      /\ Breaks(low.st) <=> Breaks(st)
  BY <1>2 DEF Rises, Falls, Breaks
<1> HIDE DEF low
<1>4. /\ full.st \in State
      /\ full.st.alerting <=> low.st.alerting
      /\ mv = 0 => /\ ~full.fire
                   /\ full.st.charging <=> st.charging
                   /\ full.st.sent <=> st.sent
      /\ mv # 0 /\ Breaks(st) => ~full.fire /\ ~full.st.charging /\ ~full.st.sent
      /\ mv # 0 /\ ~Breaks(st) =>
            /\ full.st.charging <=> (st.charging \/ Rises(st, mv)) /\ ~Falls(st, mv)
            /\ full.st.sent <=> full.fire \/ (st.charging /\ st.sent /\ ~Falls(st, mv))
            /\ full.fire => /\ (st.charging \/ Rises(st, mv)) /\ ~Falls(st, mv)
                            /\ ~(st.charging /\ st.sent)
  <2> DEFINE s == low.st
  <2>1. s \in State
    BY <1>2
  <2> HIDE DEF s
  <2>2. /\ EvaluateCharging(s, mv).st \in State
        /\ EvaluateCharging(s, mv).st.alerting <=> s.alerting
        /\ mv = 0 => /\ ~EvaluateCharging(s, mv).fire
                     /\ EvaluateCharging(s, mv).st.charging <=> s.charging
                     /\ EvaluateCharging(s, mv).st.sent <=> s.sent
        /\ mv # 0 /\ Breaks(s) => /\ ~EvaluateCharging(s, mv).fire
                                  /\ ~EvaluateCharging(s, mv).st.charging
                                  /\ ~EvaluateCharging(s, mv).st.sent
        /\ mv # 0 /\ ~Breaks(s) =>
              /\ EvaluateCharging(s, mv).st.charging
                     <=> (s.charging \/ Rises(s, mv)) /\ ~Falls(s, mv)
              /\ EvaluateCharging(s, mv).st.sent
                     <=> \/ EvaluateCharging(s, mv).fire
                         \/ s.charging /\ s.sent /\ ~Falls(s, mv)
              /\ EvaluateCharging(s, mv).fire =>
                     /\ (s.charging \/ Rises(s, mv)) /\ ~Falls(s, mv)
                     /\ ~(s.charging /\ s.sent)
    BY <2>1, Charging
  <2>3. s = low.st /\ full = EvaluateCharging(s, mv)
    BY DEF s
  <2> HIDE DEF full
  <2> QED
    BY <1>2, <1>3, <2>2, <2>3
<1> HIDE DEF full
<1>5. /\ charge \in {"none", "climbing", "told"}
      /\ spaced \/ st.alerting
      /\ st.charging <=> charge # "none"
      /\ st.sent <=> charge = "told"
  BY DEF LatchInv
<1>6. full.fire => trend = "climbing" /\ charge # "told"
  BY <1>4, <1>5
<1>7. /\ charge' \in {"none", "climbing", "told"}
      /\ full.st.charging <=> charge' # "none"
      /\ full.st.sent <=> charge' = "told"
  <2>1. CASE mv = 0
    BY <1>1, <1>4, <1>5, <2>1
  <2>2. CASE mv # 0 /\ Breaks(st)
    BY <1>1, <1>4, <2>2
  <2>3. CASE mv # 0 /\ ~Breaks(st)
    <3>1. full.fire => charge' = "told"
      BY <1>1, <1>6
    <3>2. ~full.fire => charge' = trend
      BY <1>1
    <3>3. trend = IF Falls(st, mv) THEN "none"
                  ELSE IF Rises(st, mv) /\ charge = "none" THEN "climbing" ELSE charge
      BY <2>3
    <3> HIDE DEF trend
    <3> QED
      BY <1>4, <1>5, <2>3, <3>1, <3>2, <3>3
  <2> QED
    BY <2>1, <2>2, <2>3
<1> HIDE DEF trend
<1>8. spaced' \/ full.st.alerting
  <2>1. CASE low.fire
    BY <1>2, <1>4, <2>1
  <2>2. CASE ~low.fire
    <3>1. spaced' = (spaced \/ (pct > current.low /\ pct >= current.clear))
      BY <1>1, <2>2
    <3> QED
      BY <1>2, <1>4, <1>5, <3>1
  <2> QED
    BY <2>1, <2>2
<1>9. LatchInv'
  BY <1>1, <1>4, <1>7, <1>8 DEF LatchInv
<1>10. CASE low.fire
  <2>1. send'.kind = "low"
    BY <1>1, <1>10 DEF Dispatch
  <2> QED
    BY <1>2, <1>5, <1>9, <1>10, <2>1
<1>11. CASE ~low.fire /\ full.fire
  <2>1. send'.kind = "charged"
    BY <1>1, <1>11 DEF Dispatch
  <2>2. charge # "told" /\ charge' = "told"
    BY <1>1, <1>6, <1>11
  <2> QED
    BY <1>9, <2>1, <2>2
<1>12. CASE ~low.fire /\ ~full.fire
  <2>1. send'.pc = "idle"
    BY <1>1, <1>12 DEF Idle
  <2>2. Idling'
    BY <2>1 DEF Idling
  <2> QED
    BY <1>9, <2>2
<1> QED
  BY <1>10, <1>11, <1>12

(* Every other step leaves the decision alone, and starts no message.       *)
LEMMA OtherSteps ==
    ASSUME LatchInv, [Next]_vars, ~Report, ~FailedReading
    PROVE  LatchInv' /\ ~(Idling /\ ~Idling')
<1>1. CASE Deliver
  <2>1. UNCHANGED <<bat, st, saved, charge, spaced>>
    BY <1>1 DEF Deliver, Fail, ReadRoute, ReadDelivery, ReadFallback, TokenRefused,
                LarkAnswerLost, LarkDone, ReadSubscriptions, PushDone, SendEnds, LarkFails,
                SlackFails, PushFails, PushGone, OutOfTime, manager, config, history
  <2>2. ~Idling
    BY <1>1 DEF Deliver, ReadRoute, ReadDelivery, ReadFallback, LarkDone, ReadSubscriptions,
                PushDone, SendEnds, Done, Turn, Idling
  <2> QED
    BY <2>1, <2>2 DEF LatchInv
<1>6. CASE ~Idling /\ \E c \in Costs : GetToken(c) \/ Accept(c)
  <2>1. UNCHANGED <<bat, st, saved, charge, spaced>>
    BY <1>6 DEF GetToken, Accept, LarkAccepts, SlackAccepts, PushAccepted,
                manager, config, history
  <2> QED
    BY <1>6, <2>1 DEF LatchInv
<1>2. CASE Level
  <2>1. bat' \in 0..Full /\ UNCHANGED <<st, saved, charge, spaced, send>>
    BY <1>2 DEF Level, manager, config
  <2> QED
    BY <2>1 DEF LatchInv, Idling
<1>3. CASE \/ Tick \/ TokenGone \/ UNCHANGED vars
           \/ \E r \in Routes : SaveRoute(r)
           \/ \E b \in Browsers : Subscribe(b)
  <2>1. UNCHANGED <<bat, st, saved, charge, spaced, send>>
    BY <1>3 DEF Tick, TokenGone, SaveRoute, Subscribe, manager, config, history, vars
  <2> QED
    BY <2>1 DEF LatchInv, Idling
<1>4. ASSUME NEW th \in Thresholds, SaveThresholds(th)
      PROVE  LatchInv' /\ ~(Idling /\ ~Idling')
  <2>1. saved' \in Thresholds /\ UNCHANGED <<bat, st, charge, spaced, send>>
    BY <1>4 DEF SaveThresholds, manager
  <2> QED
    BY <2>1 DEF LatchInv, Idling
<1>5. CASE Restart
  <2>1. /\ st' = NewState /\ charge' = "none" /\ send' = Idle
        /\ UNCHANGED <<bat, saved>>
    BY <1>5 DEF Restart, config
  <2>2. spaced'
    BY <1>5 DEF Restart
  <2>3. NewState \in State /\ ~NewState.charging /\ ~NewState.sent
    BY AlertDeliveryAssumption DEF NewState, State
  <2> QED
    BY <2>1, <2>2, <2>3 DEF LatchInv, Idle, Idling
<1> QED
  BY <1>1, <1>2, <1>3, <1>4, <1>5, <1>6 DEF Next

(* Every step keeps the invariant, and what is sent is due.                 *)
LEMMA StepFacts ==
    ASSUME LatchInv, [Next]_vars
    PROVE  /\ LatchInv'
           /\ Idling /\ ~Idling' =>
                 IF send'.kind = "low" THEN spaced \/ since >= Renotify
                 ELSE charge # "told" /\ charge' = "told"
<1>1. CASE Report
  <2>1. bat \in Int /\ bat + 1 \in 0..(Full + 1) /\ ReportOf(bat, bat + 1)
    BY <1>1, AlertDeliveryAssumption DEF Report, LatchInv
  <2> QED
    BY <2>1, ReportLatch
<1>2. CASE FailedReading
  <2>1. 0 \in Int /\ 0 \in 0..(Full + 1) /\ ReportOf(0, 0)
    BY <1>2, AlertDeliveryAssumption DEF FailedReading
  <2> QED
    BY <2>1, ReportLatch
<1>3. CASE ~Report /\ ~FailedReading
  BY <1>3, OtherSteps
<1> QED
  BY <1>1, <1>2, <1>3

(* The latches in memory say what the reports have shown (devState,         *)
(* notify.go and charge.go).                                                *)
THEOREM LatchesFollowReports == Spec => []LatchInv
<1>1. Init => LatchInv
  <2> SUFFICES ASSUME Init PROVE LatchInv
    OBVIOUS
  <2>1. st = NewState /\ charge = "none" /\ bat \in 0..Full /\ saved = Unset
    BY DEF Init
  <2>2. spaced
    BY DEF Init
  <2>3. NewState \in State /\ ~NewState.charging /\ ~NewState.sent
    BY AlertDeliveryAssumption DEF NewState, State
  <2> QED
    BY <2>1, <2>2, <2>3 DEF LatchInv
<1>2. LatchInv /\ [Next]_vars => LatchInv'
  BY StepFacts
<1> QED
  BY <1>1, <1>2, PTL DEF Spec

(* A low message comes only after a recovery, a restart or renotify, and a  *)
(* charged one only in a charge the reports showed, and once in it, with    *)
(* failed readings, gaps and new thresholds in between (notify.go:232,      *)
(* charge.go:23).                                                           *)
THEOREM MessagesComeWhenDue == Spec => MessagesAreDue
<1> DEFINE Due == Idling /\ ~Idling' =>
                     IF send'.kind = "low" THEN spaced \/ since >= Renotify
                     ELSE charge # "told" /\ charge' = "told"
<1>1. LatchInv /\ [Next]_vars => [Due]_vars
  BY StepFacts
<1> QED
  BY <1>1, LatchesFollowReports, PTL DEF Spec, MessagesAreDue
-----------------------------------------------------------------------------
(* The way of a message.                                                    *)

RouteType == [channels : Seq(Channels), email : Addressees \cup {NoTarget},
              chat : Addressees \cup {NoTarget}, mode : {"dm", "group", "both"},
              fallback : Addressees \cup {NoTarget}]

Sent == [pc : {"turn", "routed", "moded", "lark", "push"}, todo : Seq(Channels),
         kind : {"low", "charged"}, route : RouteType,
         browsers : SUBSET (Browsers \cup {NoTarget}),
         time : 0..SendTime, slow : 0..2, retried : BOOLEAN,
         got : Seq(Destinations), failed : SUBSET Destinations, unsent : SUBSET Destinations]

TriedOf(m) == Range(m.got) \cup m.failed
HasIt(m, t) == t \in Range(m.got) \ m.failed

(* One request that took time leaves at least the rest of the ten seconds;  *)
(* a request is only left out after two (the shared context of notify.go).  *)
Budget(m) ==
    /\ m.slow = 0 => m.time = SendTime
    /\ m.slow = 1 => m.time >= SendTime - RequestTime
    /\ m.unsent # {} => m.slow > 1

Whole(m) == IsInjective(m.got) /\ Budget(m)

(* What each turn of Multi leaves behind for the next, in any order.        *)
FallbackLast(m) ==
    m.route.fallback \in TriedOf(m) \ ModeTargets(m.route) => ModeTargets(m.route) \subseteq m.failed
LarkOver(m) ==
    /\ \/ LarkTargets(m.route) \subseteq TriedOf(m)
       \/ \E t \in LarkTargets(m.route) : HasIt(m, t)
    /\ m.route.mode = "both" => ModeTargets(m.route) \subseteq TriedOf(m)
Over(m, ch) == ch \in Range(m.route.channels) \ Range(m.todo)
AtTurn(m) ==
    /\ m.pc \in {"routed", "moded", "lark"} => m.todo # <<>> /\ Head(m.todo) = "lark"
    /\ m.pc = "push" => m.todo # <<>> /\ Head(m.todo) = "webpush"
Turns(m) ==
    /\ IsInjective(m.todo) /\ Range(m.todo) \subseteq Range(m.route.channels)
    /\ AtTurn(m)
    /\ "lark" \in Range(m.todo) /\ m.pc # "lark" => TriedOf(m) \cap Addressees = {}
    /\ FallbackLast(m)
    /\ Over(m, "lark") => LarkOver(m)
    /\ "slack" \in Range(m.todo) => Slack \notin TriedOf(m)
    /\ Over(m, "slack") => Slack \in TriedOf(m)
    /\ Over(m, "webpush") => m.browsers \subseteq TriedOf(m)

SendInv == send = Idle \/ (send \in Sent /\ Whole(send) /\ Turns(send))

(* A message that reaches one more destination.                             *)
LEMMA RangeAppend ==
    ASSUME NEW S, NEW s \in Seq(S), NEW t \in S
    PROVE  /\ Range(Append(s, t)) = Range(s) \cup {t}
           /\ IsInjective(s) /\ t \notin Range(s) => IsInjective(Append(s, t))
<1> DEFINE a == Append(s, t)
<1>1. /\ DOMAIN s = 1..Len(s) /\ Len(s) \in Nat
      /\ DOMAIN a = 1..(Len(s) + 1)
      /\ \A i \in 1..Len(s) : a[i] = s[i]
      /\ a[Len(s) + 1] = t
  OBVIOUS
<1> HIDE DEF a
<1>2. Range(a) = Range(s) \cup {t}
  <2>1. \A x : x \in Range(a) <=> \E i \in 1..(Len(s) + 1) : x = a[i]
    BY <1>1 DEF Range
  <2>2. \A x : x \in Range(s) <=> \E i \in 1..Len(s) : x = s[i]
    BY <1>1 DEF Range
  <2>3. \A i \in 1..(Len(s) + 1) : i \in 1..Len(s) \/ i = Len(s) + 1
    BY <1>1
  <2>4. 1..Len(s) \subseteq 1..(Len(s) + 1) /\ Len(s) + 1 \in 1..(Len(s) + 1)
    BY <1>1
  <2> QED
    BY <1>1, <2>1, <2>2, <2>3, <2>4
<1>3. ASSUME IsInjective(s), t \notin Range(s) PROVE IsInjective(a)
  <2>1. \A i \in 1..Len(s) : s[i] # t
    BY <1>1, <1>3 DEF Range
  <2> QED
    BY <1>1, <1>3, <2>1 DEF IsInjective
<1> QED
  BY <1>2, <1>3 DEF a

(* The channels that are left when one had its turn.                        *)
LEMMA TailFacts ==
    ASSUME NEW S, NEW s \in Seq(S), s # <<>>, IsInjective(s)
    PROVE  /\ Tail(s) \in Seq(S) /\ IsInjective(Tail(s))
           /\ Range(Tail(s)) = Range(s) \ {Head(s)}
           /\ Head(s) \in Range(s)
<1> DEFINE a == Tail(s)
<1>1. /\ Len(s) \in Nat /\ Len(s) > 0 /\ DOMAIN s = 1..Len(s)
      /\ a \in Seq(S) /\ DOMAIN a = 1..(Len(s) - 1)
      /\ \A i \in 1..(Len(s) - 1) : a[i] = s[i + 1]
      /\ Head(s) = s[1]
  OBVIOUS
<1> HIDE DEF a
<1>2. \A i, j \in 1..Len(s) : s[i] = s[j] => i = j
  BY <1>1 DEF IsInjective
<1>3. IsInjective(a)
  <2> SUFFICES ASSUME NEW i \in 1..(Len(s) - 1), NEW j \in 1..(Len(s) - 1), a[i] = a[j]
               PROVE  i = j
    BY <1>1 DEF IsInjective
  <2>1. i + 1 \in 1..Len(s) /\ j + 1 \in 1..Len(s) /\ s[i + 1] = s[j + 1]
    BY <1>1
  <2>2. i + 1 = j + 1
    BY <1>2, <2>1
  <2> QED
    BY <2>2
<1>4. \A x : x \in Range(s) <=> \E i \in 1..Len(s) : x = s[i]
  BY <1>1 DEF Range
<1>5. \A x : x \in Range(a) <=> \E i \in 1..(Len(s) - 1) : x = s[i + 1]
  BY <1>1 DEF Range
<1>6. ASSUME NEW x \in Range(a) PROVE x \in Range(s) /\ x # s[1]
  <2>1. PICK i \in 1..(Len(s) - 1) : x = s[i + 1]
    BY <1>5, <1>6
  <2>2. i + 1 \in 1..Len(s) /\ i + 1 # 1 /\ 1 \in 1..Len(s)
    BY <1>1
  <2> QED
    BY <1>2, <1>4, <2>1, <2>2
<1>7. ASSUME NEW x \in Range(s), x # s[1] PROVE x \in Range(a)
  <2>1. PICK i \in 1..Len(s) : x = s[i]
    BY <1>4, <1>7
  <2>2. i - 1 \in 1..(Len(s) - 1) /\ x = s[(i - 1) + 1]
    BY <1>1, <1>7, <2>1
  <2> QED
    BY <1>5, <2>2
<1>8. s[1] \in Range(s)
  <2>1. 1 \in 1..Len(s)
    BY <1>1
  <2> QED
    BY <1>4, <2>1
<1> QED
  BY <1>1, <1>3, <1>6, <1>7, <1>8 DEF a

(* One try: t is new, and afterwards has the message, or is taken not to,   *)
(* or both.                                                                 *)
Tries(m, n, t) ==
    /\ n \in Sent
    /\ n.pc = m.pc /\ n.route = m.route /\ n.browsers = m.browsers
    /\ n.todo = IF t = Slack THEN Tail(m.todo) ELSE m.todo
    /\ t \in Destinations \ TriedOf(m)
    /\ n.got = m.got \/ n.got = Append(m.got, t)
    /\ n.failed = m.failed \/ n.failed = m.failed \cup {t}
    /\ n.got # m.got \/ n.failed # m.failed
    /\ Budget(n)

(* Nobody gets it twice by a try.                                           *)
LEMMA TryWhole ==
    ASSUME NEW m \in Sent, NEW n, NEW t, Tries(m, n, t), Whole(m)
    PROVE  /\ Whole(n) /\ TriedOf(n) = TriedOf(m) \cup {t} /\ m.failed \subseteq n.failed
           /\ \A x : x # t => (HasIt(n, x) <=> HasIt(m, x))
<1>1. m.got \in Seq(Destinations) /\ t \in Destinations /\ t \notin Range(m.got) /\ t \notin m.failed
  BY DEF Tries, Sent, TriedOf
<1>2. /\ Range(Append(m.got, t)) = Range(m.got) \cup {t}
      /\ IsInjective(m.got)
      /\ IsInjective(Append(m.got, t))
  BY <1>1, RangeAppend DEF Whole
<1>3. IsInjective(n.got)
  BY <1>2 DEF Tries
<1>4. Budget(n)
  BY DEF Tries
<1>5. Range(n.got) = Range(m.got) \/ Range(n.got) = Range(m.got) \cup {t}
  BY <1>2 DEF Tries
<1>6. Range(n.got) \cup n.failed = Range(m.got) \cup m.failed \cup {t}
  BY <1>2 DEF Tries
<1>7. n.failed = m.failed \/ n.failed = m.failed \cup {t}
  BY DEF Tries
<1> QED
  BY <1>3, <1>4, <1>5, <1>6, <1>7 DEF Whole, TriedOf, HasIt

(* Who Lark's targets are.                                                  *)
LEMMA TargetsAreAddressees ==
    ASSUME NEW r \in RouteType
    PROVE  /\ ModeTargets(r) \subseteq LarkTargets(r) /\ LarkTargets(r) \subseteq Addressees
           /\ r.fallback \in Addressees \cup {NoTarget}
<1>1. r.email \in Addressees \cup {NoTarget} /\ r.chat \in Addressees \cup {NoTarget}
      /\ r.fallback \in Addressees \cup {NoTarget}
  BY DEF RouteType
<1> QED
  BY <1>1 DEF ModeTargets, LarkTargets

(* What NextLark's choice means.                                            *)
LEMMA NextChoice ==
    ASSUME send \in Sent
    PROVE  LET md == ModeTargets(send.route)
               all == LarkTargets(send.route)
           IN  /\ NextLark # NoTarget => NextLark \in all \ Tried
               /\ NextLark # NoTarget /\ NextLark \notin md =>
                     md \subseteq Tried /\ \A t \in all : ~Acked(t)
               /\ NextLark = NoTarget =>
                     /\ all \subseteq Tried \/ \E t \in all : Acked(t)
                     /\ send.route.mode = "both" => md \subseteq Tried
<1> DEFINE r == send.route
           md == ModeTargets(r)
           all == LarkTargets(r)
           left == md \ Tried
           worked == \E t \in all : Acked(t)
<1>1. r \in RouteType /\ md \subseteq all /\ all \subseteq Addressees
  BY TargetsAreAddressees DEF Sent
<1>2. NextLark = IF left # {} /\ (r.mode = "both" \/ ~worked)
                 THEN IF r.email \in left THEN r.email ELSE r.chat
                 ELSE IF ~worked /\ r.fallback \notin Tried THEN r.fallback ELSE NoTarget
  BY DEF NextLark
<1>3. md \subseteq {r.email, r.chat} /\ all = (md \cup {r.fallback}) \ {NoTarget}
      /\ NoTarget \notin all
  BY DEF ModeTargets, LarkTargets
<1> HIDE DEF md, all, r
<1>4. CASE left # {} /\ (r.mode = "both" \/ ~worked)
  <2>1. NextLark = IF r.email \in left THEN r.email ELSE r.chat
    BY <1>2, <1>4
  <2>2. NextLark \in left
    BY <1>3, <1>4, <2>1
  <2> QED
    BY <1>1, <1>3, <2>2 DEF md, all, r
<1>5. CASE ~(left # {} /\ (r.mode = "both" \/ ~worked))
  <2>1. CASE ~worked /\ r.fallback \notin Tried
    <3>1. NextLark = r.fallback /\ md \subseteq Tried
      BY <1>2, <1>5, <2>1
    <3> QED
      BY <1>3, <2>1, <3>1 DEF md, all, r
  <2>2. CASE ~(~worked /\ r.fallback \notin Tried)
    <3>1. NextLark = NoTarget
      BY <1>2, <1>5, <2>2
    <3>2. r.mode = "both" => md \subseteq Tried
      BY <1>5
    <3>3. worked \/ all \subseteq Tried
      BY <1>3, <1>5, <2>2
    <3> QED
      BY <3>1, <3>2, <3>3 DEF md, all, r
  <2> QED
    BY <2>1, <2>2
<1> QED
  BY <1>4, <1>5

(* A try of a Lark target keeps the order of the targets.                   *)
LEMMA LarkTry ==
    ASSUME send \in Sent, Whole(send), Turns(send), send.pc = "lark", NextLark # NoTarget,
           NEW n, Tries(send, n, NextLark)
    PROVE  Whole(n) /\ Turns(n)
<1> DEFINE t == NextLark
           md == ModeTargets(send.route)
           all == LarkTargets(send.route)
<1>1. /\ Whole(n) /\ TriedOf(n) = TriedOf(send) \cup {t} /\ send.failed \subseteq n.failed
      /\ n.pc = "lark" /\ n.route = send.route /\ n.browsers = send.browsers
  BY TryWhole DEF Tries
<1>2. /\ t \in all \ Tried
      /\ t \notin md => md \subseteq Tried /\ \A x \in all : ~Acked(x)
  BY NextChoice
<1>3. /\ send.route \in RouteType /\ md \subseteq all /\ all \subseteq Addressees
      /\ all = (md \cup {send.route.fallback}) \ {NoTarget}
  BY TargetsAreAddressees DEF Sent, LarkTargets
<1>4. Tried = TriedOf(send) /\ \A x : x \in Tried /\ ~Acked(x) => x \in send.failed
  BY DEF Tried, TriedOf, Acked
<1>5. send.route.fallback \in TriedOf(send) \ md => md \subseteq send.failed
  BY DEF Turns, FallbackLast
<1>6. t # Slack
  BY <1>2, <1>3, AlertDeliveryAssumption
<1>7. n.todo = send.todo
  BY <1>6 DEF Tries
<1> HIDE DEF t, md, all
<1>8. send.route.fallback \in TriedOf(n) \ md => md \subseteq n.failed
  <2>1. CASE t \in md
    BY <1>1, <1>5, <2>1
  <2>2. CASE t \notin md
    <3>1. md \subseteq send.failed
      BY <1>2, <1>3, <1>4, <2>2
    <3> QED
      BY <1>1, <3>1
  <2> QED
    BY <2>1, <2>2
<1>9. send.todo \in Seq(Channels) /\ send.todo # <<>> /\ Head(send.todo) = "lark"
      /\ IsInjective(send.todo)
  BY DEF Turns, AtTurn, Sent
<1>10. "lark" \in Range(send.todo)
  BY <1>9, TailFacts
<1>11. ~Over(n, "lark")
  BY <1>7, <1>10 DEF Over
<1>12. /\ "slack" \in Range(n.todo) => Slack \notin TriedOf(n)
       /\ Over(n, "slack") => Slack \in TriedOf(n)
       /\ Over(n, "webpush") => n.browsers \subseteq TriedOf(n)
  BY <1>1, <1>6, <1>7 DEF Turns, Over
<1>13. FallbackLast(n)
  BY <1>1, <1>8 DEF FallbackLast, md
<1>14. IsInjective(n.todo) /\ Range(n.todo) \subseteq Range(n.route.channels) /\ AtTurn(n)
  BY <1>1, <1>7, <1>9 DEF Turns, AtTurn
<1> QED
  BY <1>1, <1>11, <1>12, <1>13, <1>14 DEF Turns

(* A try of Slack or of a browser leaves Lark's part as it is.              *)
LEMMA OtherTry ==
    ASSUME NEW m \in Sent, Whole(m), FallbackLast(m),
           NEW n, NEW t \in {Slack} \cup Browsers, Tries(m, n, t)
    PROVE  /\ FallbackLast(n) /\ (LarkOver(m) => LarkOver(n))
           /\ TriedOf(n) \cap Addressees = TriedOf(m) \cap Addressees
<1>1. /\ Whole(n) /\ TriedOf(n) = TriedOf(m) \cup {t} /\ m.failed \subseteq n.failed
      /\ n.route = m.route
      /\ \A x : x # t => (HasIt(n, x) <=> HasIt(m, x))
  BY TryWhole DEF Tries
<1> DEFINE md == ModeTargets(m.route)
           all == LarkTargets(m.route)
<1>2. /\ md \subseteq all /\ all \subseteq Addressees
      /\ m.route.fallback \in Addressees \cup {NoTarget}
  BY TargetsAreAddressees DEF Sent
<1>3. t \notin Addressees /\ t # NoTarget
  BY AlertDeliveryAssumption
<1>4. FallbackLast(n)
  <2>1. m.route.fallback \in TriedOf(m) \ md => md \subseteq m.failed
    BY DEF FallbackLast
  <2> HIDE DEF md
  <2>2. m.route.fallback \in TriedOf(n) \ md => md \subseteq n.failed
    BY <1>1, <1>2, <1>3, <2>1
  <2> QED
    BY <1>1, <2>2 DEF FallbackLast, md
<1>5. ASSUME LarkOver(m) PROVE LarkOver(n)
  <2>1. /\ all \subseteq TriedOf(m) \/ \E x \in all : HasIt(m, x)
        /\ m.route.mode = "both" => md \subseteq TriedOf(m)
    BY <1>5 DEF LarkOver
  <2> HIDE DEF md, all
  <2>2. /\ all \subseteq TriedOf(n) \/ \E x \in all : HasIt(n, x)
        /\ m.route.mode = "both" => md \subseteq TriedOf(n)
    BY <1>1, <1>2, <1>3, <2>1
  <2> QED
    BY <1>1, <2>2 DEF LarkOver, md, all
<1> QED
  BY <1>1, <1>3, <1>4, <1>5

(* Slack's one try ends its turn.                                           *)
LEMMA SlackTry ==
    ASSUME NEW m \in Sent, Whole(m), Turns(m), m.pc = "turn", m.todo # <<>>,
           Head(m.todo) = "slack", NEW n, Tries(m, n, Slack)
    PROVE  Whole(n) /\ Turns(n)
<1>1. /\ Whole(n) /\ TriedOf(n) = TriedOf(m) \cup {Slack}
      /\ n.pc = "turn" /\ n.route = m.route /\ n.browsers = m.browsers /\ n.todo = Tail(m.todo)
  BY TryWhole DEF Tries
<1>2. /\ FallbackLast(n) /\ (LarkOver(m) => LarkOver(n))
      /\ TriedOf(n) \cap Addressees = TriedOf(m) \cap Addressees
  BY OtherTry DEF Turns
<1>3. m.todo \in Seq(Channels) /\ IsInjective(m.todo)
  BY DEF Sent, Turns
<1>4. IsInjective(n.todo) /\ Range(n.todo) = Range(m.todo) \ {"slack"}
  BY <1>1, <1>3, TailFacts
<1> QED
  BY <1>1, <1>2, <1>4 DEF Turns, Over, AtTurn

(* A browser's try is one of the browsers' turn.                            *)
LEMMA PushTry ==
    ASSUME NEW m \in Sent, Whole(m), Turns(m), m.pc = "push",
           NEW n, NEW t \in Browsers, Tries(m, n, t)
    PROVE  Whole(n) /\ Turns(n)
<1>1. t # Slack
  BY AlertDeliveryAssumption
<1>2. /\ Whole(n) /\ TriedOf(n) = TriedOf(m) \cup {t}
      /\ n.pc = "push" /\ n.route = m.route /\ n.browsers = m.browsers /\ n.todo = m.todo
  BY <1>1, TryWhole DEF Tries
<1>3. /\ FallbackLast(n) /\ (LarkOver(m) => LarkOver(n))
      /\ TriedOf(n) \cap Addressees = TriedOf(m) \cap Addressees
  BY OtherTry DEF Turns
<1> QED
  BY <1>1, <1>2, <1>3 DEF Turns, Over, AtTurn

(* Only the token, the time or the second attempt has changed.              *)
LEMMA Kept ==
    ASSUME NEW m \in Sent, Whole(m), Turns(m), NEW n, Budget(n),
           n.pc = m.pc, n.todo = m.todo, n.route = m.route, n.browsers = m.browsers,
           n.got = m.got, n.failed = m.failed
    PROVE  Whole(n) /\ Turns(n)
<1>1. TriedOf(n) = TriedOf(m) /\ \A t : HasIt(n, t) <=> HasIt(m, t)
  BY DEF TriedOf, HasIt
<1> QED
  BY <1>1 DEF Whole, Turns, AtTurn, FallbackLast, LarkOver, Over

(* What a request costs leaves the message as it is, and its time in order. *)
LEMMA AfterRequest ==
    ASSUME send \in Sent, Budget(send), NEW c \in Costs
    PROVE  /\ After(c) \in Sent /\ Budget(After(c))
           /\ After(c).pc = send.pc /\ After(c).todo = send.todo
           /\ After(c).route = send.route /\ After(c).browsers = send.browsers
           /\ After(c).got = send.got /\ After(c).failed = send.failed
           /\ After(c).time = send.time - c
           /\ send.slow = 2 => After(c).slow = 2
<1>1. /\ SendTime \in Nat /\ RequestTime \in Nat
      /\ send.time \in 0..SendTime /\ send.slow \in 0..2
  BY AlertDeliveryAssumption DEF Sent
<1>2. c \in 0..RequestTime /\ c <= send.time
  BY DEF Costs
<1> DEFINE ti == send.time - c
           sl == IF c > 0 /\ send.slow < 2 THEN send.slow + 1 ELSE send.slow
<1>3. ti \in 0..SendTime /\ sl \in 0..2
  BY <1>1, <1>2
<1>4. After(c) = [send EXCEPT !.time = ti, !.slow = sl]
  BY DEF After
<1>5. /\ send.slow = 0 => send.time = SendTime
      /\ send.slow = 1 => send.time >= SendTime - RequestTime
      /\ send.unsent # {} => send.slow > 1
  BY DEF Budget
<1>6. /\ sl = 0 => ti = SendTime
      /\ sl = 1 => ti >= SendTime - RequestTime
      /\ send.unsent # {} => sl > 1
      /\ send.slow = 2 => sl = 2
  BY <1>1, <1>2, <1>5
<1> HIDE DEF ti, sl
<1>7. /\ After(c) \in Sent
      /\ After(c).pc = send.pc /\ After(c).todo = send.todo
      /\ After(c).route = send.route /\ After(c).browsers = send.browsers
      /\ After(c).got = send.got /\ After(c).failed = send.failed
      /\ After(c).unsent = send.unsent
      /\ After(c).time = ti /\ After(c).slow = sl
  BY <1>3, <1>4 DEF Sent
<1>8. Budget(After(c))
  BY <1>6, <1>7 DEF Budget
<1>9. After(c).time = send.time - c
  BY <1>7 DEF ti
<1> QED
  BY <1>6, <1>7, <1>8, <1>9

(* A new destination is left to be tried.                                   *)
LEMMA TodoType ==
    ASSUME send \in Sent, NEW t, t = Slack => send.todo # <<>>
    PROVE  TodoAfter(t) \in Seq(Channels)
<1>1. send.todo \in Seq(Channels)
  BY DEF Sent
<1> QED
  BY <1>1 DEF TodoAfter

(* The ways a try can end.                                                  *)
LEMMA HeardTry ==
    ASSUME send \in Sent, Budget(send), NEW t \in Destinations \ Tried, NEW c \in Costs,
           t = Slack => send.todo # <<>>, Heard(t, c)
    PROVE  Tries(send, send', t)
<1> DEFINE a == After(c)
           td == TodoAfter(t)
<1>1. /\ a \in Sent /\ Budget(a) /\ a.pc = send.pc /\ a.todo = send.todo
      /\ a.route = send.route /\ a.browsers = send.browsers
      /\ a.got = send.got /\ a.failed = send.failed
  BY AfterRequest
<1>2. td \in Seq(Channels) /\ td = IF t = Slack THEN Tail(send.todo) ELSE send.todo
  BY TodoType DEF TodoAfter
<1>3. send' = [a EXCEPT !.got = Append(@, t), !.todo = td, !.retried = FALSE]
  BY DEF Heard
<1> HIDE DEF a, td
<1>4. a.got \in Seq(Destinations)
  BY <1>1 DEF Sent
<1>5. Append(a.got, t) \in Seq(Destinations) /\ Append(a.got, t) # a.got
  BY <1>4
<1>6. /\ send' \in Sent /\ send'.pc = a.pc /\ send'.route = a.route
      /\ send'.browsers = a.browsers /\ send'.got = Append(a.got, t) /\ send'.todo = td
      /\ send'.failed = a.failed /\ send'.time = a.time /\ send'.slow = a.slow
      /\ send'.unsent = a.unsent
  BY <1>1, <1>2, <1>3, <1>5 DEF Sent
<1>7. t \notin TriedOf(send)
  BY DEF Tried, TriedOf
<1> QED
  BY <1>1, <1>2, <1>5, <1>6, <1>7 DEF Tries, Budget

LEMMA MissedTry ==
    ASSUME send \in Sent, Budget(send), NEW t \in Destinations \ Tried, NEW c \in Costs,
           t = Slack => send.todo # <<>>, Missed(t, c)
    PROVE  Tries(send, send', t)
<1> DEFINE a == After(c)
           td == TodoAfter(t)
<1>1. /\ a \in Sent /\ Budget(a) /\ a.pc = send.pc /\ a.todo = send.todo
      /\ a.route = send.route /\ a.browsers = send.browsers
      /\ a.got = send.got /\ a.failed = send.failed
  BY AfterRequest
<1>2. td \in Seq(Channels) /\ td = IF t = Slack THEN Tail(send.todo) ELSE send.todo
  BY TodoType DEF TodoAfter
<1>3. send' = [a EXCEPT !.failed = @ \cup {t}, !.todo = td, !.retried = FALSE]
  BY DEF Missed
<1> HIDE DEF a, td
<1>4. /\ send' \in Sent /\ send'.pc = a.pc /\ send'.route = a.route
      /\ send'.browsers = a.browsers /\ send'.got = a.got /\ send'.todo = td
      /\ send'.failed = a.failed \cup {t} /\ send'.time = a.time /\ send'.slow = a.slow
      /\ send'.unsent = a.unsent
  BY <1>1, <1>2, <1>3 DEF Sent
<1>5. t \notin TriedOf(send) /\ t \notin send.failed
  BY DEF Tried, TriedOf
<1> QED
  BY <1>1, <1>2, <1>4, <1>5 DEF Tries, Budget

LEMMA LostTry ==
    ASSUME send \in Sent, Budget(send), NEW t \in Destinations \ Tried, NEW c \in Costs,
           t # Slack,
           send' = [After(c) EXCEPT !.got = Append(@, t), !.failed = @ \cup {t},
                                    !.retried = FALSE]
    PROVE  Tries(send, send', t)
<1> DEFINE a == After(c)
<1>1. /\ a \in Sent /\ Budget(a) /\ a.pc = send.pc /\ a.todo = send.todo
      /\ a.route = send.route /\ a.browsers = send.browsers
      /\ a.got = send.got /\ a.failed = send.failed
  BY AfterRequest
<1> DEFINE g == Append(a.got, t)
           f == a.failed \cup {t}
<1>2. send' = [a EXCEPT !.got = g, !.failed = f, !.retried = FALSE]
  OBVIOUS
<1> HIDE DEF a
<1>3. a.got \in Seq(Destinations)
  BY <1>1 DEF Sent
<1>4. g \in Seq(Destinations) /\ g # a.got /\ f \subseteq Destinations
  BY <1>1, <1>3 DEF Sent
<1>6. t \notin TriedOf(send)
  BY DEF Tried, TriedOf
<1>7. g = Append(send.got, t) /\ f = send.failed \cup {t}
  BY <1>1
<1> HIDE DEF g, f
<1>5. /\ send' \in Sent /\ send'.pc = a.pc /\ send'.route = a.route
      /\ send'.browsers = a.browsers /\ send'.got = g /\ send'.todo = a.todo
      /\ send'.failed = f /\ send'.time = a.time /\ send'.slow = a.slow
      /\ send'.unsent = a.unsent
  BY <1>1, <1>2, <1>4 DEF Sent
<1> QED
  BY <1>1, <1>4, <1>5, <1>6, <1>7 DEF Tries, Budget

LEMMA GoneTry ==
    ASSUME send \in Sent, Budget(send), NEW t \in Destinations \ Tried, NEW c \in Costs,
           t # Slack, NEW d \in Nat, c + d <= send.time,
           send' = [After(c) EXCEPT !.failed = @ \cup {t}, !.retried = FALSE,
                                    !.time = @ - d, !.slow = IF d > 0 THEN 2 ELSE @]
    PROVE  Tries(send, send', t)
<1> DEFINE a == After(c)
           ti == a.time - d
           sl == IF d > 0 THEN 2 ELSE a.slow
           f == a.failed \cup {t}
<1>1. /\ a \in Sent /\ Budget(a) /\ a.pc = send.pc /\ a.todo = send.todo
      /\ a.route = send.route /\ a.browsers = send.browsers
      /\ a.got = send.got /\ a.failed = send.failed /\ a.time = send.time - c
  BY AfterRequest
<1>2. send' = [a EXCEPT !.failed = f, !.retried = FALSE, !.time = ti, !.slow = sl]
  OBVIOUS
<1> HIDE DEF a
<1>3. /\ SendTime \in Nat /\ a.time \in 0..SendTime /\ a.slow \in 0..2
      /\ send.time \in 0..SendTime /\ c \in Nat
  BY <1>1, AlertDeliveryAssumption DEF Sent, Costs
<1>4. ti \in 0..SendTime /\ sl \in 0..2 /\ (d = 0 => ti = a.time)
      /\ f \subseteq Destinations
  BY <1>1, <1>3 DEF Sent
<1>5. d > 0 => sl = 2
  OBVIOUS
<1>6. d = 0 => sl = a.slow
  OBVIOUS
<1>10. f = send.failed \cup {t}
  BY <1>1
<1> HIDE DEF ti, sl, f
<1>7. /\ send' \in Sent /\ send'.pc = a.pc /\ send'.route = a.route
      /\ send'.browsers = a.browsers /\ send'.got = a.got /\ send'.todo = a.todo
      /\ send'.failed = f /\ send'.time = ti /\ send'.slow = sl
      /\ send'.unsent = a.unsent
  BY <1>1, <1>2, <1>4 DEF Sent
<1>8. Budget(send')
  <2>1. CASE d = 0
    BY <1>1, <1>4, <1>6, <1>7, <2>1 DEF Budget
  <2>2. CASE d > 0
    BY <1>5, <1>7, <2>2 DEF Budget
  <2> QED
    BY <2>1, <2>2
<1>9. t \notin TriedOf(send) /\ t \notin send.failed
  BY DEF Tried, TriedOf
<1> QED
  BY <1>1, <1>7, <1>8, <1>9, <1>10 DEF Tries

(* Only two requests that took time, or the save of a removal, leave        *)
(* nothing for a third.                                                     *)
LEMMA UnsentTry ==
    ASSUME send \in Sent, Budget(send), NEW t \in Destinations \ Tried,
           t = Slack => send.todo # <<>>, send.time = 0,
           send' = [send EXCEPT !.failed = @ \cup {t}, !.todo = TodoAfter(t), !.retried = FALSE,
                                !.unsent = @ \cup {t}]
    PROVE  Tries(send, send', t)
<1> DEFINE td == TodoAfter(t)
<1>1. /\ SendTime \in Nat /\ RequestTime \in Nat /\ 0 < RequestTime /\ RequestTime < SendTime
      /\ send.slow \in 0..2
  BY AlertDeliveryAssumption DEF Sent
<1>2. send.slow = 2
  BY <1>1 DEF Budget
<1>3. td \in Seq(Channels) /\ td = IF t = Slack THEN Tail(send.todo) ELSE send.todo
  BY TodoType DEF TodoAfter
<1> HIDE DEF td
<1>4. /\ send' \in Sent /\ send'.pc = send.pc /\ send'.route = send.route
      /\ send'.browsers = send.browsers /\ send'.got = send.got /\ send'.todo = td
      /\ send'.failed = send.failed \cup {t} /\ send'.slow = send.slow
  BY <1>3 DEF Sent, td
<1>5. Budget(send')
  BY <1>2, <1>4 DEF Budget
<1>6. t \notin TriedOf(send) /\ t \notin send.failed
  BY DEF Tried, TriedOf
<1> QED
  BY <1>3, <1>4, <1>5, <1>6 DEF Tries

(* The state around the latches and the message.                            *)
RestTypeOK ==
    /\ gap \in 0..(MaxGap + 1) /\ since \in 0..Renotify
    /\ route \in Routes /\ subs \subseteq Browsers
    /\ token \in {"none", "good", "bad"}
    /\ told \in BOOLEAN /\ spaced \in BOOLEAN

(* The steps that read the route: Lark has not tried anybody yet.           *)
LEMMA RouteReads ==
    ASSUME RestTypeOK, SendInv, ReadRoute \/ ReadDelivery \/ ReadFallback
    PROVE  SendInv'
<1>1. send \in Sent /\ Whole(send) /\ Turns(send)
  BY DEF SendInv, Idle, ReadRoute, ReadDelivery, ReadFallback, Turn
<1>2. route \in RouteType /\ send.route \in RouteType
  BY <1>1, AlertDeliveryAssumption DEF RestTypeOK, RouteType, Sent
<1>3. send.todo # <<>> /\ Head(send.todo) = "lark" /\ send.pc # "lark"
  BY <1>1 DEF ReadRoute, ReadDelivery, ReadFallback, Turn, Turns, AtTurn
<1>4. PICK r \in RouteType, p \in {"routed", "moded", "lark"} :
         send' = [send EXCEPT !.pc = p, !.route = r] /\ r.channels = send.route.channels
  <2> DEFINE base == send.route
  <2> HIDE DEF base
  <2>1. base \in RouteType /\ base = send.route
    BY <1>2 DEF base
  <2>2. CASE ReadRoute
    <3> DEFINE r == [base EXCEPT !.email = route.email, !.chat = route.chat]
    <3>1. r \in RouteType /\ r.channels = base.channels
      BY <1>2, <2>1 DEF RouteType
    <3>2. send' = [send EXCEPT !.pc = "routed", !.route = r]
      BY <2>1, <2>2, <1>1 DEF ReadRoute, Sent
    <3> HIDE DEF r
    <3> QED
      BY <2>1, <3>1, <3>2
  <2>3. CASE ReadDelivery
    <3> DEFINE r == [base EXCEPT !.mode = route.mode]
    <3>1. r \in RouteType /\ r.channels = base.channels
      BY <1>2, <2>1 DEF RouteType
    <3>2. send' = [send EXCEPT !.pc = "moded", !.route = r]
      BY <2>1, <2>3, <1>1 DEF ReadDelivery, Sent
    <3> HIDE DEF r
    <3> QED
      BY <2>1, <3>1, <3>2
  <2>4. CASE ReadFallback
    <3> DEFINE r == [base EXCEPT !.fallback = route.fallback]
    <3>1. r \in RouteType /\ r.channels = base.channels
      BY <1>2, <2>1 DEF RouteType
    <3>2. send' = [send EXCEPT !.pc = "lark", !.route = r]
      BY <2>1, <2>4, <1>1 DEF ReadFallback, Sent
    <3> HIDE DEF r
    <3> QED
      BY <2>1, <3>1, <3>2
  <2> QED
    BY <2>2, <2>3, <2>4
<1>5. /\ send' \in Sent /\ send'.pc = p /\ send'.route = r /\ send'.todo = send.todo
      /\ send'.browsers = send.browsers /\ send'.got = send.got /\ send'.failed = send.failed
      /\ send'.time = send.time /\ send'.slow = send.slow /\ send'.unsent = send.unsent
  BY <1>1, <1>4 DEF Sent
<1>6. "lark" \in Range(send.todo)
  <2>1. send.todo \in Seq(Channels) /\ IsInjective(send.todo)
    BY <1>1 DEF Sent, Turns
  <2> QED
    BY <1>3, <2>1, TailFacts
<1>7. TriedOf(send') = TriedOf(send) /\ TriedOf(send) \cap Addressees = {}
  BY <1>1, <1>3, <1>5, <1>6 DEF TriedOf, Turns
<1>8. NoTarget \notin TriedOf(send)
  <2>1. Range(send.got) \subseteq Destinations
    BY <1>1 DEF Range, Sent
  <2>2. NoTarget \notin Destinations
    BY AlertDeliveryAssumption DEF Destinations
  <2> QED
    BY <1>1, <2>1, <2>2 DEF TriedOf, Sent
<1>9. FallbackLast(send')
  <2>1. r.fallback \in Addressees \cup {NoTarget}
    BY <1>4 DEF RouteType
  <2> QED
    BY <1>5, <1>7, <1>8, <2>1 DEF FallbackLast
<1>10. AtTurn(send') /\ ~Over(send', "lark")
  BY <1>3, <1>5, <1>6 DEF AtTurn, Over
<1>11. Whole(send')
  BY <1>1, <1>5 DEF Whole, Budget
<1>12. Turns(send')
  BY <1>1, <1>4, <1>5, <1>7, <1>9, <1>10 DEF Turns, Over
<1> QED
  BY <1>5, <1>11, <1>12 DEF SendInv

(* The browsers' turn begins with the subscriptions of that moment.         *)
LEMMA SubscriptionsRead ==
    ASSUME RestTypeOK, SendInv, ReadSubscriptions
    PROVE  SendInv'
<1>1. send \in Sent /\ Whole(send) /\ Turns(send)
  BY DEF SendInv, Idle, ReadSubscriptions, Turn
<1>2. send.pc = "turn" /\ send.todo # <<>> /\ Head(send.todo) = "webpush"
  BY DEF ReadSubscriptions, Turn
<1>3. /\ send' \in Sent /\ send'.pc = "push" /\ send'.route = send.route
      /\ send'.todo = send.todo
      /\ send'.got = send.got /\ send'.failed = send.failed
      /\ send'.time = send.time /\ send'.slow = send.slow /\ send'.unsent = send.unsent
  BY <1>1 DEF ReadSubscriptions, RestTypeOK, Sent
<1>4. "webpush" \in Range(send.todo)
  <2>1. send.todo \in Seq(Channels) /\ IsInjective(send.todo)
    BY <1>1 DEF Sent, Turns
  <2> QED
    BY <1>2, <2>1, TailFacts
<1>5. TriedOf(send') = TriedOf(send) /\ \A t : HasIt(send', t) <=> HasIt(send, t)
  BY <1>3 DEF TriedOf, HasIt
<1>6. FallbackLast(send') /\ (LarkOver(send) => LarkOver(send')) /\ Whole(send')
  BY <1>1, <1>3, <1>5 DEF FallbackLast, LarkOver, Turns, Whole, Budget
<1>7. AtTurn(send') /\ ~Over(send', "webpush")
  BY <1>2, <1>3, <1>4 DEF AtTurn, Over
<1>8. Turns(send')
  BY <1>1, <1>2, <1>3, <1>5, <1>6, <1>7 DEF Turns, Over
<1> QED
  BY <1>3, <1>6, <1>8 DEF SendInv

(* A turn that ends leaves what Multi promises of its channel.              *)
LEMMA TurnEnds ==
    ASSUME SendInv, LarkDone \/ PushDone
    PROVE  SendInv'
<1>1. send \in Sent /\ Whole(send) /\ Turns(send)
  BY DEF SendInv, Idle, LarkDone, PushDone
<1>2. send.todo \in Seq(Channels) /\ send.todo # <<>> /\ IsInjective(send.todo)
  BY <1>1 DEF LarkDone, PushDone, Turns, AtTurn, Sent
<1>3. /\ Tail(send.todo) \in Seq(Channels) /\ IsInjective(Tail(send.todo))
      /\ Range(Tail(send.todo)) = Range(send.todo) \ {Head(send.todo)}
      /\ Head(send.todo) \in Range(send.todo)
  BY <1>2, TailFacts
<1>4. send' = [send EXCEPT !.pc = "turn", !.todo = Tail(@)]
  BY DEF LarkDone, PushDone, NextTurn
<1>5. /\ send' \in Sent /\ send'.pc = "turn" /\ send'.route = send.route
      /\ send'.todo = Tail(send.todo) /\ send'.browsers = send.browsers
      /\ send'.got = send.got /\ send'.failed = send.failed
      /\ send'.time = send.time /\ send'.slow = send.slow /\ send'.unsent = send.unsent
  BY <1>1, <1>3, <1>4 DEF Sent
<1>6. TriedOf(send') = TriedOf(send) /\ \A t : HasIt(send', t) <=> HasIt(send, t)
  BY <1>5 DEF TriedOf, HasIt
<1>7. FallbackLast(send') /\ (LarkOver(send) => LarkOver(send')) /\ Whole(send')
  BY <1>1, <1>5, <1>6 DEF FallbackLast, LarkOver, Turns, Whole, Budget
<1>8. AtTurn(send')
  BY <1>5 DEF AtTurn
<1>9. CASE LarkDone
  <2>1. Head(send.todo) = "lark" /\ send.pc = "lark" /\ NextLark = NoTarget
    BY <1>1, <1>9 DEF LarkDone, Turns, AtTurn
  <2>2. /\ \/ LarkTargets(send.route) \subseteq Tried
           \/ \E t \in LarkTargets(send.route) : Acked(t)
        /\ send.route.mode = "both" => ModeTargets(send.route) \subseteq Tried
    BY <1>1, <2>1, NextChoice
  <2>3. LarkOver(send')
    BY <1>5, <2>2 DEF LarkOver, TriedOf, HasIt, Tried, Acked
  <2> QED
    BY <1>1, <1>3, <1>5, <1>6, <1>7, <1>8, <2>1, <2>3 DEF SendInv, Turns, Over
<1>10. CASE PushDone
  <2>1. Head(send.todo) = "webpush" /\ send.pc = "push"
    BY <1>1, <1>10 DEF PushDone, Turns, AtTurn
  <2>2. send'.browsers \subseteq TriedOf(send')
    BY <1>5, <1>10 DEF PushDone, TriedOf, Tried
  <2> QED
    BY <1>1, <1>3, <1>5, <1>6, <1>7, <1>8, <2>1, <2>2 DEF SendInv, Turns, Over
<1> QED
  BY <1>9, <1>10

(* A token fetched, or refused for the first time: nobody is tried.         *)
LEMMA TokenSteps ==
    ASSUME SendInv, NEW c \in Costs,
           GetToken(c) \/ (TokenRefused(c) /\ ~send.retried)
    PROVE  SendInv'
<1>1. send \in Sent /\ Whole(send) /\ Turns(send)
  BY DEF SendInv, Idle, GetToken, TokenRefused
<1> DEFINE a == After(c)
<1>2. /\ a \in Sent /\ Budget(a) /\ a.pc = send.pc /\ a.todo = send.todo
      /\ a.route = send.route /\ a.browsers = send.browsers
      /\ a.got = send.got /\ a.failed = send.failed
  BY <1>1, AfterRequest DEF Whole
<1>3. send' = a \/ send' = [a EXCEPT !.retried = TRUE]
  BY DEF GetToken, TokenRefused
<1> HIDE DEF a
<1>4. /\ send' \in Sent /\ send'.pc = a.pc /\ send'.todo = a.todo
      /\ send'.route = a.route /\ send'.browsers = a.browsers
      /\ send'.got = a.got /\ send'.failed = a.failed
      /\ send'.time = a.time /\ send'.slow = a.slow /\ send'.unsent = a.unsent
  BY <1>2, <1>3 DEF Sent
<1>5. Budget(send')
  BY <1>2, <1>4 DEF Budget
<1>6. Whole(send') /\ Turns(send')
  BY <1>1, <1>2, <1>4, <1>5, Kept
<1> QED
  BY <1>4, <1>6 DEF SendInv

(* Whoever is next for Lark is a new destination.                           *)
LEMMA NextIsNew ==
    ASSUME send \in Sent, NextLark # NoTarget
    PROVE  NextLark \in Destinations \ Tried /\ NextLark # Slack
<1>1. NextLark \in LarkTargets(send.route) \ Tried /\ send.route \in RouteType
  BY NextChoice DEF Sent
<1>2. NextLark \in Addressees
  BY <1>1, TargetsAreAddressees
<1> QED
  BY <1>1, <1>2, AlertDeliveryAssumption DEF Destinations

(* The steps that try a target of Lark.                                     *)
LEMMA LarkSteps ==
    ASSUME SendInv, NEW c \in Costs,
           \/ LarkAccepts(c) \/ LarkAnswerLost(c) \/ LarkFails(c)
           \/ TokenRefused(c) /\ send.retried
    PROVE  SendInv'
<1>1. send.pc = "lark" /\ NextLark # NoTarget
  BY DEF LarkAccepts, LarkAnswerLost, TokenRefused, LarkFails
<1>2. send \in Sent /\ Whole(send) /\ Turns(send) /\ Budget(send)
  BY <1>1 DEF SendInv, Idle, Whole
<1>3. NextLark \in Destinations \ Tried /\ NextLark # Slack
  BY <1>1, <1>2, NextIsNew
<1>4. Tries(send, send', NextLark)
  <2>1. CASE LarkAccepts(c)
    <3>1. Heard(NextLark, c)
      BY <2>1 DEF LarkAccepts
    <3> QED
      BY <1>2, <1>3, <3>1, HeardTry
  <2>2. CASE LarkAnswerLost(c)
    <3>1. send' = [After(c) EXCEPT !.got = Append(@, NextLark), !.failed = @ \cup {NextLark},
                                   !.retried = FALSE]
      BY <2>2 DEF LarkAnswerLost
    <3> QED
      BY <1>2, <1>3, <3>1, LostTry
  <2>3. CASE LarkFails(c) \/ (TokenRefused(c) /\ send.retried)
    <3>1. Missed(NextLark, c)
      BY <2>3 DEF LarkFails, TokenRefused
    <3> QED
      BY <1>2, <1>3, <3>1, MissedTry
  <2> QED
    BY <2>1, <2>2, <2>3
<1>5. send' \in Sent /\ Whole(send') /\ Turns(send')
  BY <1>1, <1>2, <1>4, LarkTry DEF Tries
<1> QED
  BY <1>5 DEF SendInv

(* The steps that try Slack.                                                *)
LEMMA SlackSteps ==
    ASSUME SendInv, NEW c \in Costs, SlackAccepts(c) \/ SlackFails(c)
    PROVE  SendInv'
<1>1. send.pc = "turn" /\ send.todo # <<>> /\ Head(send.todo) = "slack"
  BY DEF SlackAccepts, SlackFails, Turn
<1>2. send \in Sent /\ Whole(send) /\ Turns(send) /\ Budget(send)
  BY <1>1 DEF SendInv, Idle, Whole
<1>3. Slack \in Destinations \ Tried
  <2>1. send.todo \in Seq(Channels) /\ IsInjective(send.todo)
    BY <1>2 DEF Sent, Turns
  <2>2. "slack" \in Range(send.todo)
    BY <1>1, <2>1, TailFacts
  <2> QED
    BY <1>2, <2>2 DEF Turns, TriedOf, Tried, Destinations
<1>4. Heard(Slack, c) \/ Missed(Slack, c)
  BY DEF SlackAccepts, SlackFails
<1>5. Tries(send, send', Slack)
  BY <1>1, <1>2, <1>3, <1>4, HeardTry, MissedTry
<1>6. send' \in Sent /\ Whole(send') /\ Turns(send')
  BY <1>1, <1>2, <1>5, SlackTry DEF Tries
<1> QED
  BY <1>6 DEF SendInv

(* The steps that try a browser.                                            *)
LEMMA PushSteps ==
    ASSUME SendInv, NEW c \in Costs, NEW b \in Browsers,
           \/ PushAccepted(b, c) \/ PushFails(b, c)
           \/ \E d \in 0..send.time : PushGone(b, c, d)
    PROVE  SendInv'
<1>1. send.pc = "push" /\ b \notin Tried
  BY DEF PushAccepted, PushFails, PushGone, PushTurn
<1>2. send \in Sent /\ Whole(send) /\ Turns(send) /\ Budget(send)
  BY <1>1 DEF SendInv, Idle, Whole
<1>3. b \in Destinations \ Tried /\ b # Slack
  BY <1>1, AlertDeliveryAssumption DEF Destinations
<1>4. CASE PushAccepted(b, c) \/ PushFails(b, c)
  <2>1. Heard(b, c) \/ Missed(b, c)
    BY <1>4 DEF PushAccepted, PushFails
  <2>2. Tries(send, send', b)
    BY <1>2, <1>3, <2>1, HeardTry, MissedTry
  <2>3. send' \in Sent /\ Whole(send') /\ Turns(send')
    BY <1>1, <1>2, <2>2, PushTry DEF Tries
  <2> QED
    BY <2>3 DEF SendInv
<1>5. ASSUME NEW d \in 0..send.time, PushGone(b, c, d) PROVE SendInv'
  <2>1. /\ c + d <= send.time
        /\ send' = [After(c) EXCEPT !.failed = @ \cup {b}, !.retried = FALSE,
                                    !.time = @ - d, !.slow = IF d > 0 THEN 2 ELSE @]
    BY <1>5 DEF PushGone
  <2>2. d \in Nat
    BY <1>2, <1>5 DEF Sent
  <2>3. Tries(send, send', b)
    BY <1>2, <1>3, <2>1, <2>2, GoneTry
  <2>4. send' \in Sent /\ Whole(send') /\ Turns(send')
    BY <1>1, <1>2, <2>3, PushTry DEF Tries
  <2> QED
    BY <2>4 DEF SendInv
<1> QED
  BY <1>4, <1>5

(* The steps that try without a request.                                    *)
LEMMA UnsentSteps ==
    ASSUME SendInv, NEW t \in Destinations, OutOfTime(t)
    PROVE  SendInv'
<1>1. send.pc # "idle"
  BY DEF OutOfTime, Turn, PushTurn
<1>2. send \in Sent /\ Whole(send) /\ Turns(send) /\ Budget(send)
  BY <1>1 DEF SendInv, Idle, Whole
<1>3. /\ send.time = 0
      /\ send' = [send EXCEPT !.failed = @ \cup {t}, !.todo = TodoAfter(t), !.retried = FALSE,
                              !.unsent = @ \cup {t}]
  BY DEF OutOfTime
<1>4. CASE send.pc = "lark" /\ t = NextLark /\ t # NoTarget
  <2>1. t \notin Tried /\ t # Slack
    BY <1>2, <1>4, NextIsNew
  <2>2. Tries(send, send', t)
    BY <1>2, <1>3, <2>1, UnsentTry
  <2>3. send' \in Sent /\ Whole(send') /\ Turns(send')
    BY <1>2, <1>4, <2>2, LarkTry DEF Tries
  <2> QED
    BY <2>3 DEF SendInv
<1>5. CASE Turn("slack") /\ t = Slack
  <2>1. send.pc = "turn" /\ send.todo # <<>> /\ Head(send.todo) = "slack"
    BY <1>5 DEF Turn
  <2>2. send.todo \in Seq(Channels) /\ IsInjective(send.todo)
    BY <1>2 DEF Sent, Turns
  <2>3. "slack" \in Range(send.todo)
    BY <2>1, <2>2, TailFacts
  <2>4. t \notin Tried
    BY <1>2, <1>5, <2>3 DEF Turns, TriedOf, Tried
  <2>5. Tries(send, send', t)
    BY <1>2, <1>3, <2>1, <2>4, UnsentTry
  <2>6. send' \in Sent /\ Whole(send') /\ Turns(send')
    BY <1>2, <1>5, <2>1, <2>5, SlackTry DEF Tries
  <2> QED
    BY <2>6 DEF SendInv
<1>6. CASE PushTurn(t)
  <2>1. send.pc = "push" /\ t \in send.browsers \ Tried
    BY <1>6 DEF PushTurn
  <2>2. t \in Browsers /\ t # Slack
    BY <1>2, <2>1, AlertDeliveryAssumption DEF Sent, Destinations
  <2>3. Tries(send, send', t)
    BY <1>2, <1>3, <2>1, <2>2, UnsentTry
  <2>4. send' \in Sent /\ Whole(send') /\ Turns(send')
    BY <1>2, <2>1, <2>2, <2>3, PushTry DEF Tries
  <2> QED
    BY <2>4 DEF SendInv
<1> QED
  BY <1>4, <1>5, <1>6 DEF OutOfTime

LEMMA AcceptRest ==
    ASSUME RestTypeOK, NEW c \in Costs, GetToken(c) \/ Accept(c)
    PROVE  RestTypeOK'
<1>1. /\ told' \in BOOLEAN /\ token' \in {"none", "good", "bad"}
      /\ UNCHANGED <<gap, since, route, subs, spaced>>
  BY DEF GetToken, Accept, LarkAccepts, SlackAccepts, PushAccepted, Heard,
         RestTypeOK, manager, config, history
<1> QED
  BY <1>1 DEF RestTypeOK

LEMMA DeliverRest ==
    ASSUME RestTypeOK, Deliver
    PROVE  RestTypeOK'
<1>1. CASE \E c \in Costs : Fail(c)
  <2>1. PICK c \in Costs : Fail(c)
    BY <1>1
  <2>2. CASE LarkAnswerLost(c)
    <3>1. told' \in BOOLEAN /\ UNCHANGED <<gap, since, route, subs, token, spaced>>
      BY <2>2 DEF LarkAnswerLost, manager, config
    <3> QED
      BY <3>1 DEF RestTypeOK
  <2>3. CASE TokenRefused(c)
    <3>1. token' \in {"none", "good", "bad"} /\ UNCHANGED <<gap, since, route, subs, told, spaced>>
      BY <2>3 DEF TokenRefused, RestTypeOK, manager, config, history
    <3> QED
      BY <3>1 DEF RestTypeOK
  <2>4. CASE \E b \in Browsers : \E d \in 0..send.time : PushGone(b, c, d)
    <3>1. subs' \subseteq subs /\ UNCHANGED <<gap, since, route, token, told, spaced>>
      BY <2>4 DEF PushGone, Removal, manager, history
    <3> QED
      BY <3>1 DEF RestTypeOK
  <2>5. CASE LarkFails(c) \/ SlackFails(c) \/ \E b \in Browsers : PushFails(b, c)
    <3>1. UNCHANGED <<gap, since, route, subs, token, told, spaced>>
      BY <2>5 DEF LarkFails, SlackFails, PushFails, manager, config, history
    <3> QED
      BY <3>1 DEF RestTypeOK
  <2> QED
    BY <2>1, <2>2, <2>3, <2>4, <2>5 DEF Fail
<1>2. CASE \/ ReadRoute \/ ReadDelivery \/ ReadFallback \/ LarkDone
           \/ ReadSubscriptions \/ PushDone \/ SendEnds
           \/ \E t \in Destinations : OutOfTime(t)
  <2>1. UNCHANGED <<gap, since, route, subs, token, told, spaced>>
    BY <1>2 DEF ReadRoute, ReadDelivery, ReadFallback, LarkDone, ReadSubscriptions, PushDone,
                SendEnds, OutOfTime, manager, config, history
  <2> QED
    BY <2>1 DEF RestTypeOK
<1> QED
  BY <1>1, <1>2 DEF Deliver

LEMMA RestStep ==
    ASSUME RestTypeOK, [Next]_vars
    PROVE  RestTypeOK'
<1>0. {MaxGap, Renotify} \subseteq Nat
  BY AlertDeliveryAssumption
<1>1. ASSUME NEW pct, NEW mv, ReportOf(pct, mv) PROVE RestTypeOK'
  <2>1. /\ gap' \in {0, gap} /\ since' \in {0, since}
        /\ UNCHANGED <<route, subs, token, told>>
    BY <1>1 DEF ReportOf, config
  <2>2. spaced' \in BOOLEAN
    BY <1>1 DEF ReportOf
  <2> QED
    BY <1>0, <2>1, <2>2 DEF RestTypeOK
<1>2. CASE Deliver
  BY <1>2, DeliverRest
<1>11. ASSUME NEW c \in Costs, GetToken(c) \/ Accept(c) PROVE RestTypeOK'
  BY <1>11, AcceptRest
<1>3. CASE Level
  <2>1. told' \in BOOLEAN /\ UNCHANGED <<gap, since, route, subs, token, spaced>>
    BY <1>3 DEF Level, manager, config
  <2> QED
    BY <2>1 DEF RestTypeOK
<1>4. CASE Tick
  <2>1. UNCHANGED <<route, subs, token, told, spaced>>
    BY <1>4 DEF Tick, config, history
  <2>2. gap' \in 0..(MaxGap + 1) /\ since' \in 0..Renotify
    BY <1>0, <1>4 DEF Tick, RestTypeOK
  <2> QED
    BY <2>1, <2>2 DEF RestTypeOK
<1>5. CASE TokenGone
  BY <1>5 DEF TokenGone, RestTypeOK, manager, config, history
<1>6. CASE Restart
  <2>1. spaced' \in BOOLEAN
    BY <1>6 DEF Restart
  <2>2. gap' = 0 /\ since' = 0 /\ token' = "none" /\ UNCHANGED <<route, subs, told>>
    BY <1>6 DEF Restart, config
  <2> QED
    BY <1>0, <2>1, <2>2 DEF RestTypeOK
<1>7. ASSUME NEW th \in Thresholds, SaveThresholds(th) PROVE RestTypeOK'
  BY <1>7 DEF SaveThresholds, RestTypeOK, manager
<1>8. ASSUME NEW r \in Routes, SaveRoute(r) PROVE RestTypeOK'
  BY <1>8 DEF SaveRoute, RestTypeOK, manager, history
<1>9. ASSUME NEW b \in Browsers, Subscribe(b) PROVE RestTypeOK'
  BY <1>9 DEF Subscribe, RestTypeOK, manager, history
<1>10. CASE UNCHANGED vars
  BY <1>10 DEF vars, RestTypeOK, manager, config, history
<1> QED
  BY <1>1, <1>2, <1>3, <1>4, <1>5, <1>6, <1>7, <1>8, <1>9, <1>10, <1>11 DEF Next, Report, FailedReading

(* A report's message starts with nobody tried.                             *)
LEMMA DispatchNew ==
    ASSUME RestTypeOK, NEW kind \in {"low", "charged"}
    PROVE  Dispatch(kind) \in Sent /\ Whole(Dispatch(kind)) /\ Turns(Dispatch(kind))
<1> DEFINE d == Dispatch(kind)
<1>1. route \in RouteType /\ IsInjective(route.channels) /\ SendTime \in 0..SendTime
  BY AlertDeliveryAssumption DEF RestTypeOK, RouteType
<1>2. <<>> \in Seq(Destinations)
  OBVIOUS
<1>3. d \in Sent
  BY <1>1, <1>2 DEF Dispatch, Sent, RouteType
<1>4. /\ d.pc = "turn" /\ d.todo = route.channels /\ d.route = route /\ d.got = <<>>
      /\ d.failed = {} /\ d.unsent = {} /\ d.time = SendTime /\ d.slow = 0
  BY DEF Dispatch
<1> HIDE DEF d
<1>5. TriedOf(d) = {} /\ IsInjective(d.got)
  BY <1>4 DEF TriedOf, Range, IsInjective
<1>6. \A ch : ~Over(d, ch)
  BY <1>4 DEF Over
<1>7. FallbackLast(d) /\ AtTurn(d)
  BY <1>4, <1>5 DEF FallbackLast, AtTurn
<1>8. Budget(d)
  BY <1>4 DEF Budget
<1>9. Whole(d) /\ Turns(d)
  BY <1>1, <1>4, <1>5, <1>6, <1>7, <1>8 DEF Whole, Turns
<1> QED
  BY <1>3, <1>9 DEF d

(* Every step keeps the message whole and its turns in order.               *)
LEMMA SendStep ==
    ASSUME RestTypeOK, SendInv, [Next]_vars
    PROVE  SendInv'
<1>1. ASSUME NEW pct, NEW mv, ReportOf(pct, mv) PROVE SendInv'
  <2>1. send' \in {Idle, Dispatch("low"), Dispatch("charged")}
    BY <1>1 DEF ReportOf
  <2> QED
    BY <2>1, DispatchNew DEF SendInv
<1>2. CASE Deliver
  <2>1. CASE ReadRoute \/ ReadDelivery \/ ReadFallback
    BY <2>1, RouteReads
  <2>2. CASE ReadSubscriptions
    BY <2>2, SubscriptionsRead
  <2>3. CASE LarkDone \/ PushDone
    BY <2>3, TurnEnds
  <2>4. CASE SendEnds
    BY <2>4 DEF SendEnds, SendInv
  <2>5. ASSUME NEW c \in Costs, Fail(c) PROVE SendInv'
    <3>1. CASE LarkFails(c) \/ LarkAnswerLost(c) \/ (TokenRefused(c) /\ send.retried)
      BY <3>1, LarkSteps
    <3>2. CASE TokenRefused(c) /\ ~send.retried
      BY <3>2, TokenSteps
    <3>3. CASE SlackFails(c)
      BY <3>3, SlackSteps
    <3>4. ASSUME NEW b \in Browsers,
                 PushFails(b, c) \/ \E d \in 0..send.time : PushGone(b, c, d)
          PROVE  SendInv'
      BY <3>4, PushSteps
    <3> QED
      BY <2>5, <3>1, <3>2, <3>3, <3>4 DEF Fail
  <2>6. ASSUME NEW t \in Destinations, OutOfTime(t) PROVE SendInv'
    BY <2>6, UnsentSteps
  <2> QED
    BY <1>2, <2>1, <2>2, <2>3, <2>4, <2>5, <2>6 DEF Deliver
<1>3. ASSUME NEW c \in Costs, GetToken(c) \/ Accept(c) PROVE SendInv'
  <2>1. CASE GetToken(c)
    BY <2>1, TokenSteps
  <2>2. CASE LarkAccepts(c)
    BY <2>2, LarkSteps
  <2>3. CASE SlackAccepts(c)
    BY <2>3, SlackSteps
  <2>4. ASSUME NEW b \in Browsers, PushAccepted(b, c) PROVE SendInv'
    BY <2>4, PushSteps
  <2> QED
    BY <1>3, <2>1, <2>2, <2>3, <2>4 DEF Accept
<1>4. CASE Restart
  BY <1>4 DEF Restart, SendInv
<1>5. CASE \/ Level \/ Tick \/ TokenGone \/ UNCHANGED vars
           \/ \E th \in Thresholds : SaveThresholds(th)
           \/ \E r \in Routes : SaveRoute(r)
           \/ \E b \in Browsers : Subscribe(b)
  <2>1. UNCHANGED send
    BY <1>5 DEF Level, Tick, TokenGone, SaveThresholds, SaveRoute, Subscribe, vars
  <2> QED
    BY <2>1 DEF SendInv
<1> QED
  BY <1>1, <1>2, <1>3, <1>4, <1>5 DEF Next, Report, FailedReading

LEMMA AlwaysInTurn == Spec => [](RestTypeOK /\ SendInv)
<1>1. Init => RestTypeOK /\ SendInv
  <2> SUFFICES ASSUME Init PROVE RestTypeOK /\ SendInv
    OBVIOUS
  <2>1. gap \in 0..(MaxGap + 1) /\ since \in 0..Renotify
    BY AlertDeliveryAssumption DEF Init
  <2>2. told \in BOOLEAN /\ spaced \in BOOLEAN
    BY DEF Init
  <2>3. route \in Routes /\ subs \subseteq Browsers /\ token = "none" /\ send = Idle
    BY DEF Init
  <2> QED
    BY <2>1, <2>2, <2>3 DEF RestTypeOK, SendInv
<1>2. (RestTypeOK /\ SendInv) /\ [Next]_vars => (RestTypeOK /\ SendInv)'
  BY RestStep, SendStep
<1> QED
  BY <1>1, <1>2, PTL DEF Spec

(* A latch is of a charge that the reports show, and no message reaches     *)
(* anybody twice: a lost answer and a retry with a new token included       *)
(* (larkapp.go, charge.go).                                                 *)
THEOREM NobodyHearsTwice == Spec => []AlertDeliveryInv
<1>1. LatchInv /\ RestTypeOK /\ SendInv => AlertDeliveryInv
  <2> SUFFICES ASSUME LatchInv, RestTypeOK, SendInv PROVE AlertDeliveryInv
    OBVIOUS
  <2>1. ~Idling => /\ send.time \in 0..SendTime /\ send.slow \in 0..2
                   /\ send.browsers \subseteq Browsers \cup {NoTarget}
                   /\ Range(send.todo) \subseteq Range(send.route.channels)
                   /\ Tried \subseteq Destinations /\ IsInjective(send.got)
    <3> SUFFICES ASSUME ~Idling
                 PROVE  /\ send.time \in 0..SendTime /\ send.slow \in 0..2
                        /\ send.browsers \subseteq Browsers \cup {NoTarget}
                        /\ Range(send.todo) \subseteq Range(send.route.channels)
                        /\ Tried \subseteq Destinations /\ IsInjective(send.got)
      OBVIOUS
    <3>1. send \in Sent /\ Whole(send) /\ Turns(send)
      BY DEF SendInv, Idling, Idle
    <3>2. Range(send.got) \subseteq Destinations
      BY <3>1 DEF Range, Sent
    <3> QED
      BY <3>1, <3>2 DEF Sent, Whole, Turns, Tried
  <2>2. (st.charging <=> charge # "none") /\ (st.sent <=> charge = "told")
    BY DEF LatchInv
  <2>3. st.sent => st.charging
    BY <2>2
  <2>4. AlertDeliveryTypeOK
    BY <2>1 DEF AlertDeliveryTypeOK, LatchInv, State, RestTypeOK
  <2> QED
    BY <2>1, <2>2, <2>3, <2>4 DEF AlertDeliveryInv
<1> QED
  BY <1>1, LatchesFollowReports, AlwaysInTurn, PTL

(* A message that is through has given every channel its turn, in whatever  *)
(* order, and Lark left out only who was not needed (notify.go:103,         *)
(* larkapp.go:60); a turn passed without a request only after two requests  *)
(* that took time, or the save of a removal (notify.go:341).                *)
THEOREM NobodyIsLeftOut == Spec => []NobodyLeftOut
<1>1. SendInv => NobodyLeftOut
  <2> SUFFICES ASSUME SendInv, Done PROVE NobodyLeftOut
    BY DEF NobodyLeftOut
  <2>1. send \in Sent /\ Whole(send) /\ Turns(send)
    BY DEF SendInv, Idle, Done
  <2>2. Range(send.todo) = {}
    BY DEF Done, Range
  <2>3. \A ch \in Range(send.route.channels) : Over(send, ch)
    BY <2>2 DEF Over
  <2>4. /\ "slack" \in Range(send.route.channels) => Slack \in TriedOf(send)
        /\ "webpush" \in Range(send.route.channels) => send.browsers \subseteq TriedOf(send)
        /\ "lark" \in Range(send.route.channels) => LarkOver(send)
        /\ FallbackLast(send)
        /\ send.unsent # {} => send.slow > 1
    BY <2>1, <2>3 DEF Turns, Whole, Budget
  <2>5. TriedOf(send) = Tried /\ \A t : HasIt(send, t) <=> Acked(t)
    BY DEF TriedOf, Tried, HasIt, Acked
  <2> QED
    BY <2>4, <2>5 DEF NobodyLeftOut, LarkOver, FallbackLast
<1> QED
  BY <1>1, AlwaysInTurn, PTL
=============================================================================
