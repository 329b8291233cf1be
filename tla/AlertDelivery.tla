--------------------------- MODULE AlertDelivery ---------------------------
(***************************************************************************)
(* From a battery reading to the people who hear of it: the low-battery    *)
(* and charged messages the alert manager decides on with each report      *)
(* (notify.go, charge.go), and the way of one message through the selected *)
(* channels: Lark (larkapp.go), the Slack webhook, browser push            *)
(* (webpush.go), under settings and routes that an administrator changes   *)
(* (notifications.go).                                                     *)
(*                                                                         *)
(* One display.  Its messages are one at a time: a send gives up after ten *)
(* seconds and a display reports once a minute at most.  A battery level   *)
(* stands for a percentage and, one higher, for its voltage: 0 percent is  *)
(* a voltage, voltage 0 is a reading that failed.                          *)
(***************************************************************************)
EXTENDS Integers, Sequences, Functions

CONSTANTS Full,               \* the highest level
          RiseMV, UnplugMV, DoneMV, MaxGap,   \* charge.go, in levels and ticks
          Renotify,           \* ticks
          BuiltWith,          \* [low, clear]: thresholds at the start of the broker
          Thresholds,         \* those the admin page may save (0: not set)
          Routes,             \* [channels, email, chat, mode, fallback]
          Addressees,         \* Lark's e-mail addresses and chats
          NoTarget,           \* an empty one
          Slack, Browsers,    \* the other destinations
          SendTime,           \* what one send has: dispatch's ten seconds
          RequestTime,        \* what one request may take: eight
          MaxUpsets           \* bound: saves, subscriptions and restarts

\* alerts.channels: each at most once, in any order (validateNotify).
Channels == {"lark", "webpush", "slack"}

ASSUME AlertDeliveryAssumption ==
    /\ {Full, RiseMV, UnplugMV, DoneMV, MaxGap, Renotify} \subseteq Nat \ {0}
    /\ {SendTime, RequestTime, MaxUpsets} \subseteq Nat
    /\ 0 < RequestTime /\ RequestTime < SendTime
    /\ \A th \in Thresholds \cup {BuiltWith} : th.low \in 0..Full /\ th.clear \in 0..Full
    /\ \A th \in Thresholds \cup {BuiltWith} : th.low < DoneMV - 1
    /\ Slack \notin Addressees \cup Browsers /\ Addressees \cap Browsers = {}
    /\ NoTarget \notin Addressees \cup Browsers \cup {Slack}
    /\ \A r \in Routes :
          /\ r \in [channels : Seq(Channels), email : Addressees \cup {NoTarget},
                    chat : Addressees \cup {NoTarget}, mode : {"dm", "group", "both"},
                    fallback : Addressees \cup {NoTarget}]
          /\ IsInjective(r.channels)

VARIABLES bat,         \* the battery's level
          st,          \* devState: the latches of the alert manager
          gap, since,  \* ticks since the last report, since lastNotified
          saved,       \* the thresholds in the live config
          route,       \* the channels and the location's route in the live config
          subs,        \* the browsers with a subscription in the live config
          token,       \* the tenant token: "none", "good", or "bad" (revoked)
          send,        \* the message under way
          told,        \* history: somebody has heard that the battery is low
          charge,      \* history: the charge under way, as the reports show it
          spaced,      \* history: a new low message would be in order
          upsets

manager == <<st, gap, since>>
config == <<saved, route, subs>>
history == <<told, charge, spaced>>
vars == <<bat, manager, config, token, send, history, upsets>>

Unset == [low |-> 0, clear |-> 0]
NewState == [alerting |-> FALSE, mv |-> 0, charging |-> FALSE, sent |-> FALSE]
Idle == [pc |-> "idle"]

Init ==
    /\ bat \in 0..Full
    /\ st = NewState /\ gap = 0 /\ since = 0
    /\ saved = Unset /\ route \in Routes
    /\ subs = Browsers
    /\ token = "none"
    /\ send = Idle
    /\ told = FALSE /\ charge = "none" /\ spaced = TRUE
    /\ upsets = 0

Idling == send.pc = "idle"

(***************************************************************************)
(* The decision: one report, handleTelemetry's two evaluations.            *)
(***************************************************************************)

\* A zero threshold is not set: the manager keeps the one it was built with.
current == [low |-> IF saved.low = 0 THEN BuiltWith.low ELSE saved.low,
            clear |-> IF saved.clear = 0 THEN BuiltWith.clear ELSE saved.clear]

\* Re-armed by anything above the low threshold: no hysteresis.
BugRearmsAtOnce(s, pct) ==
    LET fire == pct <= current.low /\ (~s.alerting \/ since >= Renotify)
    IN  [fire |-> fire, st |-> [s EXCEPT !.alerting = pct <= current.low]]

\* One message for each time it falls low, and none after that.
BugOnceOnly(s, pct) ==
    LET fire == pct <= current.low /\ ~s.alerting
    IN  [fire |-> fire,
         st |-> [s EXCEPT !.alerting = pct < current.clear /\ (@ \/ fire)]]

EvaluateBattery(s, pct) ==
    LET fire == pct <= current.low /\ (~s.alerting \/ since >= Renotify)
    IN  [fire |-> fire,
         st |-> [s EXCEPT !.alerting = IF pct <= current.low THEN @ \/ fire
                                       ELSE pct < current.clear /\ @]]

Rises(s, mv) == mv - s.mv >= RiseMV
Falls(s, mv) == s.mv - mv >= UnplugMV
Breaks(s) == s.mv = 0 \/ gap > MaxGap

EvaluateCharging(s, mv) ==
    LET on == (s.charging \/ Rises(s, mv)) /\ ~Falls(s, mv)
        sent == on /\ s.charging /\ s.sent
        fire == on /\ ~sent /\ mv >= DoneMV
    IN  IF mv = 0 THEN [fire |-> FALSE, st |-> s]
        ELSE IF Breaks(s)
        THEN [fire |-> FALSE, st |-> [s EXCEPT !.mv = mv, !.charging = FALSE, !.sent = FALSE]]
        ELSE [fire |-> fire,
              st |-> [s EXCEPT !.mv = mv, !.charging = on, !.sent = sent \/ fire]]

\* dispatch: the message goes to the channels of this moment, with one time
\* limit for all of them.  The browsers are not read yet.
Dispatch(kind) ==
    [pc |-> "turn", todo |-> route.channels, kind |-> kind, route |-> route,
     browsers |-> {NoTarget}, time |-> SendTime, slow |-> 0, retried |-> FALSE,
     got |-> <<>>, failed |-> {}, unsent |-> {}]

ReportOf(pct, mv) ==
    LET low == EvaluateBattery(st, pct)
        full == EvaluateCharging(low.st, mv)
        trend == IF mv = 0 THEN charge
                 ELSE IF Breaks(st) \/ Falls(st, mv) THEN "none"
                 ELSE IF Rises(st, mv) /\ charge = "none" THEN "climbing" ELSE charge
    IN  /\ Idling
        /\ st' = full.st
        /\ since' = IF low.fire THEN 0 ELSE since
        /\ gap' = IF mv = 0 THEN gap ELSE 0
        /\ send' = IF low.fire THEN Dispatch("low")
                   ELSE IF full.fire THEN Dispatch("charged") ELSE Idle
        /\ charge' = IF full.fire /\ trend = "climbing" THEN "told" ELSE trend
        /\ spaced' = IF low.fire THEN FALSE
                     ELSE spaced \/ (pct > current.low /\ pct >= current.clear)
        /\ UNCHANGED <<bat, config, token, told, upsets>>

Report == ReportOf(bat, bat + 1)
FailedReading == ReportOf(0, 0)         \* battery_mv: the ADC unit is not to be had

(***************************************************************************)
(* The delivery: Multi takes the channels one after the other, `todo` is    *)
(* what is left of them.  `got` lists who received the message, `failed`    *)
(* who the broker takes not to have: a destination whose answer is lost is  *)
(* in both.  `unsent`: those for whom there was no time left.               *)
(***************************************************************************)
Tried == Range(send.got) \cup send.failed
Acked(t) == t \in Range(send.got) \ send.failed

Turn(ch) == send.pc = "turn" /\ send.todo # <<>> /\ Head(send.todo) = ch
NextTurn == send' = [send EXCEPT !.pc = "turn", !.todo = Tail(@)]

\* The client has no time limit of its own.
BugNoTimeLimit == 0..send.time

\* Every request takes some of the send's time, however it ends: at most what
\* the client allows (8 s), at most what is left of the context.
Costs == {c \in 0..RequestTime : c <= send.time}

\* `slow` counts the requests that took time, as far as two (more than one).
After(c) ==
    [send EXCEPT !.time = @ - c,
                 !.slow = IF c > 0 /\ @ < 2 THEN @ + 1 ELSE @]

\* The Lark targets of the mode, and the fallback group behind them.
ModeTargets(r) ==
    ({r.chat} \cup (IF r.mode = "group" THEN {} ELSE {r.email})) \ {NoTarget}
LarkTargets(r) == (ModeTargets(r) \cup {r.fallback}) \ {NoTarget}

\* The fallback group is tried without a look at who was.
BugTriedTwice ==
    LET r == send.route
        left == ModeTargets(r) \ Tried
        worked == \E t \in LarkTargets(r) : Acked(t)
    IN  IF left # {} /\ (r.mode = "both" \/ ~worked)
        THEN IF r.email \in left THEN r.email ELSE r.chat
        ELSE IF ~worked THEN r.fallback ELSE NoTarget

(* The next Lark target to try, or NoTarget: the person before the group;   *)
(* "both" tries both, the others stop at the first success; the fallback    *)
(* only when nothing worked.                                                *)
NextLark ==
    LET r == send.route
        left == ModeTargets(r) \ Tried
        worked == \E t \in LarkTargets(r) : Acked(t)
    IN  IF left # {} /\ (r.mode = "both" \/ ~worked)
        THEN IF r.email \in left THEN r.email ELSE r.chat
        ELSE IF ~worked /\ r.fallback \notin Tried THEN r.fallback
        ELSE NoTarget

\* Lark reads the route when its turn comes, in three loads of the live config:
\* a save in between gives it parts of two.
ReadRoute ==
    /\ Turn("lark")
    /\ send' = [send EXCEPT !.pc = "routed",
                            !.route = [@ EXCEPT !.email = route.email,
                                                !.chat = route.chat]]
    /\ UNCHANGED <<bat, manager, config, token, history, upsets>>

ReadDelivery ==
    /\ send.pc = "routed"
    /\ send' = [send EXCEPT !.pc = "moded", !.route = [@ EXCEPT !.mode = route.mode]]
    /\ UNCHANGED <<bat, manager, config, token, history, upsets>>

ReadFallback ==
    /\ send.pc = "moded"
    /\ send' = [send EXCEPT !.pc = "lark", !.route = [@ EXCEPT !.fallback = route.fallback]]
    /\ UNCHANGED <<bat, manager, config, token, history, upsets>>

\* tenantToken: a cached one, or a new one from Lark, which may refuse.
GetToken(c) ==
    /\ send.pc = "lark" /\ NextLark # NoTarget
    /\ token = "none" /\ send.time > 0
    /\ send' = After(c) /\ token' = "good"
    /\ UNCHANGED <<bat, manager, config, history, upsets>>

\* Slack's turn is over with its one request.
TodoAfter(t) == IF t = Slack THEN Tail(send.todo) ELSE send.todo

Heard(t, c) ==
    /\ send' = [After(c) EXCEPT !.got = Append(@, t), !.todo = TodoAfter(t), !.retried = FALSE]
    /\ told' = (told \/ send.kind = "low")

\* A try that ends with an error.
Missed(t, c) ==
    send' = [After(c) EXCEPT !.failed = @ \cup {t}, !.todo = TodoAfter(t), !.retried = FALSE]

LarkAccepts(c) ==
    /\ send.pc = "lark" /\ NextLark # NoTarget
    /\ token = "good" /\ send.time > 0
    /\ Heard(NextLark, c)
    /\ UNCHANGED <<bat, manager, config, token, charge, spaced, upsets>>

\* No token, a refusal, or no answer.
LarkFails(c) ==
    /\ send.pc = "lark" /\ NextLark # NoTarget
    /\ send.time > 0
    /\ Missed(NextLark, c)
    /\ UNCHANGED <<bat, manager, config, token, history, upsets>>

\* Posted, and the answer does not arrive.
LarkAnswerLost(c) ==
    /\ send.pc = "lark" /\ NextLark # NoTarget
    /\ token = "good" /\ send.time > 0
    /\ send' = [After(c) EXCEPT !.got = Append(@, NextLark), !.failed = @ \cup {NextLark},
                                !.retried = FALSE]
    /\ told' = (told \/ send.kind = "low")
    /\ UNCHANGED <<bat, manager, config, token, charge, spaced, upsets>>

\* The token is refused: dropped, and this target is tried once more.
TokenRefused(c) ==
    /\ send.pc = "lark" /\ NextLark # NoTarget
    /\ token = "bad" /\ send.time > 0
    /\ IF send.retried
       THEN Missed(NextLark, c) /\ UNCHANGED token
       ELSE send' = [After(c) EXCEPT !.retried = TRUE] /\ token' = "none"
    /\ UNCHANGED <<bat, manager, config, history, upsets>>

\* A failure of Lark is the end of the message.
BugStopAtFailure ==
    /\ send.pc = "lark" /\ NextLark = NoTarget
    /\ send' = [send EXCEPT !.pc = "turn",
                            !.todo = IF send.failed = {} THEN Tail(@) ELSE <<>>]
    /\ UNCHANGED <<bat, manager, config, token, history, upsets>>

\* The next channel's turn, whatever Lark made of it.
LarkDone ==
    /\ send.pc = "lark" /\ NextLark = NoTarget
    /\ NextTurn
    /\ UNCHANGED <<bat, manager, config, token, history, upsets>>

SlackAccepts(c) ==
    /\ Turn("slack") /\ send.time > 0
    /\ Heard(Slack, c)
    /\ UNCHANGED <<bat, manager, config, token, charge, spaced, upsets>>

SlackFails(c) ==
    /\ Turn("slack") /\ send.time > 0
    /\ Missed(Slack, c)
    /\ UNCHANGED <<bat, manager, config, token, history, upsets>>

\* The subscriptions are read once, when the channel's turn comes.
ReadSubscriptions ==
    /\ Turn("webpush")
    /\ send' = [send EXCEPT !.pc = "push", !.browsers = subs]
    /\ UNCHANGED <<bat, manager, config, token, history, upsets>>

PushTurn(b) == send.pc = "push" /\ b \in send.browsers \ Tried

PushAccepted(b, c) ==
    /\ PushTurn(b) /\ send.time > 0
    /\ Heard(b, c)
    /\ UNCHANGED <<bat, manager, config, token, charge, spaced, upsets>>

PushFails(b, c) ==
    /\ PushTurn(b) /\ send.time > 0
    /\ Missed(b, c)
    /\ UNCHANGED <<bat, manager, config, token, history, upsets>>

Removal(b) == subs' = subs \ {b}

\* 404 or 410: the subscription is removed, unless it was made a moment ago or
\* the new config cannot be saved.  The save waits for its turn and may take all
\* that is left of the send's time: more than one request could.
PushGone(b, c, d) ==
    /\ PushTurn(b) /\ send.time > 0 /\ c + d <= send.time
    /\ send' = [After(c) EXCEPT !.failed = @ \cup {b}, !.retried = FALSE,
                                !.time = @ - d, !.slow = IF d > 0 THEN 2 ELSE @]
    /\ Removal(b) \/ UNCHANGED subs
    /\ UNCHANGED <<bat, manager, saved, route, token, history, upsets>>

PushDone ==
    /\ send.pc = "push" /\ send.browsers \subseteq Tried
    /\ NextTurn
    /\ UNCHANGED <<bat, manager, config, token, history, upsets>>

\* The context is over: a try ends at once, without a request.
OutOfTime(t) ==
    /\ \/ send.pc = "lark" /\ t = NextLark /\ t # NoTarget
       \/ Turn("slack") /\ t = Slack
       \/ PushTurn(t)
    /\ send.time = 0
    /\ send' = [send EXCEPT !.failed = @ \cup {t}, !.todo = TodoAfter(t), !.retried = FALSE,
                            !.unsent = @ \cup {t}]
    /\ UNCHANGED <<bat, manager, config, token, history, upsets>>

Done == send.pc = "turn" /\ send.todo = <<>>

SendEnds ==
    /\ Done
    /\ send' = Idle
    /\ UNCHANGED <<bat, manager, config, token, history, upsets>>

Fail(c) ==
    \/ LarkFails(c) \/ LarkAnswerLost(c) \/ TokenRefused(c) \/ SlackFails(c)
    \/ \E b \in Browsers : PushFails(b, c) \/ \E d \in 0..send.time : PushGone(b, c, d)

Destinations == Addressees \cup {Slack} \cup Browsers

Deliver ==
    \/ ReadRoute \/ ReadDelivery \/ ReadFallback \/ LarkDone
    \/ ReadSubscriptions \/ PushDone \/ SendEnds
    \/ ~Idling /\ \E c \in Costs : Fail(c)
    \/ ~Idling /\ \E t \in Destinations : OutOfTime(t)

Accept(c) == LarkAccepts(c) \/ SlackAccepts(c) \/ \E b \in Browsers : PushAccepted(b, c)

(***************************************************************************)
(* The surroundings.                                                       *)
(***************************************************************************)
Level ==
    /\ Idling
    /\ bat' \in {bat - 1, bat + 1} \cap 0..Full
    /\ told' = (told /\ bat' <= current.low)
    /\ UNCHANGED <<manager, config, token, send, charge, spaced, upsets>>

\* Time passes: saturating, as nothing looks past these two limits.
Tick ==
    /\ Idling
    /\ gap <= MaxGap \/ since < Renotify
    /\ gap' = IF gap <= MaxGap THEN gap + 1 ELSE gap
    /\ since' = IF since < Renotify THEN since + 1 ELSE since
    /\ UNCHANGED <<bat, st, config, token, send, history, upsets>>

Upset == upsets < MaxUpsets /\ upsets' = upsets + 1

SaveThresholds(th) ==
    /\ Upset
    /\ th # saved /\ saved' = th
    /\ told' = FALSE
    /\ UNCHANGED <<bat, manager, route, subs, token, send, charge, spaced>>

SaveRoute(r) ==
    /\ Upset
    /\ r # route /\ route' = r
    /\ UNCHANGED <<bat, manager, saved, subs, token, send, history>>

Subscribe(b) ==
    /\ Upset
    /\ subs' = subs \cup {b}
    /\ UNCHANGED <<bat, manager, saved, route, token, send, history>>

\* A cached token that is near its end is not used again, and new channels
\* come with a new cache; a token that Lark revokes stays cached.
TokenGone ==
    /\ token # "none"
    /\ \/ Idling /\ token' = "none"
       \/ token = "good" /\ token' = "bad"
    /\ UNCHANGED <<bat, manager, config, send, history, upsets>>

\* The latches, the token and a message under way are in memory.
Restart ==
    /\ Upset
    /\ st' = NewState /\ gap' = 0 /\ since' = 0
    /\ token' = "none" /\ send' = Idle
    /\ charge' = "none" /\ spaced' = TRUE
    /\ UNCHANGED <<bat, config, told>>

Next ==
    \/ Report \/ FailedReading \/ Deliver
    \/ ~Idling /\ \E c \in Costs : GetToken(c) \/ Accept(c)
    \/ Level \/ Tick \/ TokenGone \/ Restart
    \/ \E th \in Thresholds : SaveThresholds(th)
    \/ \E r \in Routes : SaveRoute(r)
    \/ \E b \in Browsers : Subscribe(b)

Spec == Init /\ [][Next]_vars

(* A display reports and a send runs to its end, whatever the services do.  *)
(* Lark answers every now and then, a request for a token at once; Slack    *)
(* and the push services may never.                                         *)
Fairness ==
    /\ WF_vars(Report \/ FailedReading) /\ WF_vars(Tick) /\ WF_vars(Deliver)
    /\ SF_vars(GetToken(0)) /\ SF_vars(TokenRefused(0))
    /\ SF_vars(~Idling /\ \E c \in Costs : LarkAccepts(c))

FairSpec == Spec /\ Fairness

(***************************************************************************)
(* Properties                                                              *)
(***************************************************************************)
AlertDeliveryTypeOK ==
    /\ bat \in 0..Full /\ gap \in 0..(MaxGap + 1) /\ since \in 0..Renotify
    /\ st \in [alerting : BOOLEAN, mv : 0..(Full + 1), charging : BOOLEAN, sent : BOOLEAN]
    /\ saved \in Thresholds \cup {Unset} /\ route \in Routes
    /\ subs \subseteq Browsers
    /\ token \in {"none", "good", "bad"}
    /\ charge \in {"none", "climbing", "told"} /\ told \in BOOLEAN /\ spaced \in BOOLEAN
    /\ ~Idling => /\ send.time \in 0..SendTime /\ send.slow \in 0..2
                  /\ send.browsers \subseteq Browsers \cup {NoTarget}
                  /\ Range(send.todo) \subseteq Range(send.route.channels)
                  /\ Tried \subseteq Destinations

\* A latch is of a charge that the reports show, and each message is sent to
\* nobody twice, a lost answer and a retry with a new token included.
AlertDeliveryInv ==
    /\ AlertDeliveryTypeOK
    /\ st.sent => st.charging
    /\ st.charging <=> charge # "none"
    /\ st.sent <=> charge = "told"
    /\ ~Idling => IsInjective(send.got)

\* notify.go:103, larkapp.go:60: when a message is through, every channel it was
\* for had its turn, in whatever order they are configured and whatever the
\* earlier ones made of it; Lark left a target of the mode or the fallback group
\* out only for one that has the message, and took the fallback group only when
\* the mode had failed.  A turn without a request comes about only when two
\* requests took time, successes among them, or the save of a removal did: the
\* eight seconds of one request never cost the others all of the ten.
NobodyLeftOut ==
    Done =>
        LET r == send.route
            m == ModeTargets(r)
            chosen == Range(r.channels)
        IN  /\ "slack" \in chosen => Slack \in Tried
            /\ "webpush" \in chosen => send.browsers \subseteq Tried
            /\ "lark" \in chosen =>
                  /\ \/ LarkTargets(r) \subseteq Tried
                     \/ \E t \in LarkTargets(r) : Acked(t)
                  /\ r.mode = "both" => m \subseteq Tried
                  /\ r.fallback \in Tried \ m => m \subseteq send.failed
            /\ send.unsent # {} => send.slow > 1

\* notify.go:232, charge.go:23: a display's low message comes only after a
\* recovery, a restart, or renotify since the last one; its charged message
\* only in a charge whose climb the reports showed, and once in it.
MessagesAreDue ==
    [][Idling /\ ~Idling' =>
          IF send'.kind = "low" THEN spaced \/ since >= Renotify
          ELSE charge # "told" /\ charge' = "told"]_vars

\* While the battery stays low somebody hears of it, although a message that
\* reaches nobody is not sent again (notify.go:343): the next one, after
\* renotify, is on its way to the same people.
LowIsTold == []<>(told \/ bat > current.low)

=============================================================================
