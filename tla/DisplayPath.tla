---------------------------- MODULE DisplayPath ----------------------------
(***************************************************************************)
(* The whole way of a room's state to the glass: RoomPoller's cache, the   *)
(* HTTP handler of GET /display (handlers.go) and the firmware's wake      *)
(* cycle (app_main.cpp, net_client.cpp, epd_spectra6.cpp).  The handler    *)
(* copies the cache entry, then asks the cache whether a forced refresh is *)
(* due, then answers: the poller, an admin and a restart may come between. *)
(* The device keeps the hash of what it last painted in RTC memory, which  *)
(* a reset clears while the e-ink panel keeps its image.                   *)
(***************************************************************************)
EXTENDS RoomPoller

CONSTANTS ForcedRefresh,    \* wake.forced_refresh_hour is set
          MaxDay,           \* bound: days of the clock
          MaxCrashes        \* bound: resets of a device

ASSUME DisplayPathAssumption ==
    /\ ForcedRefresh \in BOOLEAN
    /\ MaxDay \in Nat \ {0}
    /\ MaxCrashes \in Nat

VARIABLES clock,     \* the local day, and whether it is the forced hour
          req,       \* Device -> its GET /display in the broker
          dev,       \* Device -> the firmware: where it is, RTC state, body received
          panel,     \* Device -> the e-ink panel; suspect: see PaintTimesOut
          crashes    \* Device -> its resets so far

pathVars == <<clock, req, dev, panel, crashes>>
vars == <<pollerVars, pathVars>>

NoFrame == [room |-> NoRoom, version |-> 0, content |-> NoContent]
Frame(e) == [room |-> e.room, version |-> e.version, content |-> e.content]
NoRequest == [st |-> "none", inm |-> NoFrame, frame |-> NoFrame, forced |-> FALSE]
Replies == {"notModified", "ok", "unavailable", "unauthorized"}

Asleep(d) == [dev[d] EXCEPT !.st = "asleep", !.got = NoFrame]

\* An interrupted refresh leaves the old image, the new one, or neither.
Interrupted(p, f) ==
    {p, [room |-> f.room, version |-> f.version, content |-> f.content],
     [room |-> f.room, version |-> f.version, content |-> NoContent]}

PathInit ==
    /\ Init
    /\ clock = [day |-> 1, inHour |-> FALSE]
    /\ req = [d \in Devices |-> NoRequest]
    /\ dev = [d \in Devices |-> [st |-> "asleep", shown |-> NoFrame, got |-> NoFrame]]
    /\ panel = [d \in Devices |-> [image |-> NoFrame, suspect |-> FALSE]]
    /\ crashes = [d \in Devices |-> 0]

(* The forced hour begins, or the next day does (nothing else reads it).    *)
AdvanceClock ==
    /\ ForcedRefresh
    /\ clock' = IF clock.inHour THEN [day |-> clock.day + 1, inHour |-> FALSE]
                                ELSE [clock EXCEPT !.inHour = TRUE]
    /\ clock'.day <= MaxDay
    /\ UNCHANGED <<pollerVars, req, dev, panel, crashes>>

(* What the device offers as If-None-Match: nothing on a touch wake or when *)
(* RTC memory holds no valid hash.                                          *)
IfNoneMatch(d, touch) == IF touch THEN NoFrame ELSE dev[d].shown

(* A wake that reaches the broker: Wi-Fi and clock are up, the request is   *)
(* sent.  (A wake that does not changes nothing modelled here.)             *)
Wake(d, touch) ==
    /\ dev[d].st = "asleep"
    /\ req[d].st = "none"
    /\ dev' = [dev EXCEPT ![d].st = "waiting"]
    /\ req' = [req EXCEPT ![d] = [NoRequest EXCEPT !.st = "arrived",
                                                   !.inm = IfNoneMatch(d, touch)]]
    /\ UNCHANGED <<pollerVars, clock, panel, crashes>>

BugLookupServesEmpty(d) ==
    /\ req[d].st = "arrived"
    /\ req' = [req EXCEPT ![d].st = IF config[d] = NoRoom THEN "unauthorized" ELSE "looked",
                          ![d].frame = IF config[d] = NoRoom THEN NoFrame
                                       ELSE Frame(cache[d])]
    /\ UNCHANGED <<pollerVars, clock, dev, panel, crashes>>

(* handleDisplay up to the cache lookup: 401 for a device in no room, 503   *)
(* when there is no payload yet, else a copy of the entry.                  *)
Lookup(d) ==
    /\ req[d].st = "arrived"
    /\ req' = [req EXCEPT ![d].st = IF config[d] = NoRoom THEN "unauthorized"
                                    ELSE IF cache[d].version = 0 THEN "unavailable"
                                    ELSE "looked",
                          ![d].frame = IF config[d] = NoRoom THEN NoFrame
                                       ELSE Frame(cache[d])]
    /\ UNCHANGED <<pollerVars, clock, dev, panel, crashes>>

(* cache.ShouldForceFullRefresh: in the forced hour, and not marked today.  *)
DueForced(d) == ForcedRefresh /\ clock.inHour /\ cache[d].forced # clock.day

(* The conditional GET matches against the entry that was copied. *)
Matches(d) == req[d].inm # NoFrame /\ Etag(req[d].inm) = Etag(req[d].frame)

(* The rest of handleDisplay: mark the device as forced today if it is due, *)
(* and answer 304 if it is not due and the hash matches, 200 otherwise.     *)
Answer(d) ==
    /\ req[d].st = "looked"
    /\ cache' = [cache EXCEPT ![d].forced = IF DueForced(d) THEN clock.day ELSE @]
    /\ req' = [req EXCEPT ![d].forced = DueForced(d),
                          ![d].st = IF ~DueForced(d) /\ Matches(d)
                                    THEN "notModified" ELSE "ok"]
    /\ UNCHANGED <<calendar, config, tick, workers, writes, restarts,
                   clock, dev, panel, crashes>>

BugShownBeforePaint(d) ==
    /\ dev[d].st = "waiting"
    /\ req[d].st \in Replies
    /\ dev' = [dev EXCEPT ![d] = IF req[d].st = "ok"
                                 THEN [st |-> "painting", shown |-> req[d].frame,
                                       got |-> req[d].frame]
                                 ELSE Asleep(d)]
    /\ req' = [req EXCEPT ![d] = NoRequest]
    /\ UNCHANGED <<pollerVars, clock, panel, crashes>>

(* The device reads the reply: a 200 whose payload is sound goes to the     *)
(* panel, everything else puts the device back to sleep.                    *)
Receive(d) ==
    /\ dev[d].st = "waiting"
    /\ req[d].st \in Replies
    /\ dev' = [dev EXCEPT ![d] = IF req[d].st = "ok"
                                 THEN [@ EXCEPT !.st = "painting", !.got = req[d].frame]
                                 ELSE Asleep(d)]
    /\ req' = [req EXCEPT ![d] = NoRequest]
    /\ UNCHANGED <<pollerVars, clock, panel, crashes>>

(* The connection fails, the read times out or the payload is rejected; the *)
(* handler may not even have run, and its answer then goes nowhere.         *)
GiveUp(d) ==
    /\ dev[d].st = "waiting"
    /\ dev' = [dev EXCEPT ![d] = Asleep(d)]
    /\ UNCHANGED <<pollerVars, clock, req, panel, crashes>>

(* A reply nobody waits for is dropped with its connection. *)
DropReply(d) ==
    /\ dev[d].st # "waiting"
    /\ req[d].st \in Replies
    /\ req' = [req EXCEPT ![d] = NoRequest]
    /\ UNCHANGED <<pollerVars, clock, dev, panel, crashes>>

(* epd::show returns true: the panel shows the frame, RTC memory says so.   *)
PaintOk(d) ==
    /\ dev[d].st = "painting"
    /\ panel' = [panel EXCEPT ![d] = [image |-> dev[d].got, suspect |-> FALSE]]
    /\ dev' = [dev EXCEPT ![d] = [Asleep(d) EXCEPT !.shown = dev[d].got]]
    /\ UNCHANGED <<pollerVars, clock, req, crashes>>

(* power_up fails, or show refuses the frame before it touches the panel.   *)
PaintRefused(d) ==
    /\ dev[d].st = "painting"
    /\ dev' = [dev EXCEPT ![d] = Asleep(d)]
    /\ UNCHANGED <<pollerVars, clock, req, panel, crashes>>

(* show has started the refresh and BUSY is not released in 40 s: it gives  *)
(* up, and the RTC hash stays what it was before.                           *)
PaintTimesOut(d) ==
    /\ dev[d].st = "painting"
    /\ \E i \in Interrupted(panel[d].image, dev[d].got) :
           panel' = [panel EXCEPT ![d] = [image |-> i, suspect |-> TRUE]]
    /\ dev' = [dev EXCEPT ![d] = Asleep(d)]
    /\ UNCHANGED <<pollerVars, clock, req, crashes>>

BugResetKeepsRtc(d) ==
    /\ crashes[d] < MaxCrashes
    /\ crashes' = [crashes EXCEPT ![d] = @ + 1]
    /\ IF dev[d].st = "painting"
       THEN \E i \in Interrupted(panel[d].image, dev[d].got) :
                panel' = [panel EXCEPT ![d].image = i]
       ELSE UNCHANGED panel
    /\ dev' = [dev EXCEPT ![d] = Asleep(d)]
    /\ UNCHANGED <<pollerVars, clock, req>>

(* Battery swap, brown-out, panic or OTA reboot, possibly mid-refresh: RTC  *)
(* memory starts from zero, the panel keeps whatever is on it.              *)
Reset(d) ==
    /\ crashes[d] < MaxCrashes
    /\ crashes' = [crashes EXCEPT ![d] = @ + 1]
    /\ IF dev[d].st = "painting"
       THEN \E i \in Interrupted(panel[d].image, dev[d].got) :
                panel' = [panel EXCEPT ![d].image = i]
       ELSE UNCHANGED panel
    /\ dev' = [dev EXCEPT ![d] = [Asleep(d) EXCEPT !.shown = NoFrame]]
    /\ UNCHANGED <<pollerVars, clock, req>>

(* The broker restarts: every request in it dies with it. *)
BrokerRestart ==
    /\ Restart
    /\ req' = [d \in Devices |-> NoRequest]
    /\ UNCHANGED <<clock, dev, panel, crashes>>

(* Every step of the poller and its surroundings but the restart. *)
PollerStep ==
    /\ \/ \E r \in Rooms : CalendarChange(r) \/ Spawn(r)
       \/ \E d \in Devices, r \in Rooms \cup {NoRoom} : ConfigWrite(d, r)
       \/ StartTick
       \/ \E w \in workers : Work(w)
       \/ EndTick
    /\ UNCHANGED pathVars

Handle(d) == Lookup(d) \/ Answer(d) \/ DropReply(d)
Cycle(d) == Receive(d) \/ GiveUp(d) \/ PaintOk(d) \/ PaintRefused(d) \/ PaintTimesOut(d)

PathNext ==
    \/ PollerStep
    \/ BrokerRestart
    \/ AdvanceClock
    \/ \E d \in Devices : \/ \E touch \in BOOLEAN : Wake(d, touch)
                          \/ Handle(d)
                          \/ Cycle(d)
                          \/ Reset(d)

PathSpec == PathInit /\ [][PathNext]_vars

(* The RTC timer wakes a device that sleeps, the firmware's timeouts end    *)
(* every cycle, Go runs the handlers and the poller.  A calendar, a request *)
(* and a panel refresh that are tried again and again succeed sooner or     *)
(* later: the broker answers, and the reply arrives, before the device      *)
(* gives up.  A device is reset only so often.                              *)
PathFairness ==
    /\ WF_vars(StartTick /\ UNCHANGED pathVars)
    /\ WF_vars(EndTick /\ UNCHANGED pathVars)
    /\ \A r \in Rooms :
          /\ WF_vars(Spawn(r) /\ UNCHANGED pathVars)
          /\ WF_vars((\E w \in workers : w.room = r /\ Work(w)) /\ UNCHANGED pathVars)
          /\ SF_vars((\E w \in workers : w.room = r /\ FetchAnswered(w)) /\ UNCHANGED pathVars)
    /\ \A d \in Devices :
          /\ WF_vars(Wake(d, FALSE))
          /\ WF_vars(Handle(d))
          /\ WF_vars(Cycle(d))
          /\ SF_vars(dev[d].st = "waiting" /\ Lookup(d))
          /\ SF_vars(dev[d].st = "waiting" /\ Answer(d))
          /\ SF_vars(Receive(d))
          /\ SF_vars(PaintOk(d))

FairPathSpec == PathSpec /\ PathFairness

-----------------------------------------------------------------------------
(* The types of the variables this module adds. *)
FrameType == [room : Rooms \cup {NoRoom}, version : Nat, content : Contents \cup {NoContent}]
PathTypeOK ==
    /\ clock \in [day : 1..MaxDay, inHour : BOOLEAN]
    /\ req \in [Devices -> [st : {"none", "arrived", "looked"} \cup Replies,
                            inm : FrameType, frame : FrameType, forced : BOOLEAN]]
    /\ dev \in [Devices -> [st : {"asleep", "waiting", "painting"},
                            shown : FrameType, got : FrameType]]
    /\ panel \in [Devices -> [image : FrameType, suspect : BOOLEAN]]
    /\ crashes \in [Devices -> Nat]

(* A frame is nothing at all, or what the calendar of its room once made    *)
(* the broker draw.                                                         *)
Genuine(f) == \/ f = NoFrame
              \/ /\ f.room \in Rooms
                 /\ f.version \in 1..Len(calendar[f.room])
                 /\ f.content = calendar[f.room][f.version]

(* Whatever is on its way to the glass is a frame the calendar really had,  *)
(* and neither an answer nor a refresh is ever about nothing: a broker that *)
(* has just started answers 503 (handlers.go), it never blanks a panel.     *)
PathInv ==
    /\ PathTypeOK
    /\ \A d \in Devices :
          /\ \A f \in {req[d].inm, req[d].frame, dev[d].shown, dev[d].got} : Genuine(f)
          /\ req[d].st \in {"looked", "ok", "notModified"} => req[d].frame # NoFrame
          /\ dev[d].st = "painting" => dev[d].got # NoFrame

(* A 304 tells the truth: the device that gets it is showing the very frame *)
(* the broker had for it, whatever was booked, reconfigured, restarted or   *)
(* reset since it last painted - unless its last refresh timed out          *)
(* (handlers.go: identical content -> 304, device skips the refresh).       *)
NotModifiedIsTrue ==
    \A d \in Devices :
        req[d].st = "notModified" /\ dev[d].st = "waiting" /\ ~panel[d].suspect
            => Etag(panel[d].image) = Etag(req[d].frame)

(* The panel of a device, legible or not, seen as a board.                  *)
PanelBoard == INSTANCE RoomBoard WITH
    board <- [d \in Devices |-> [room |-> panel[d].image.room,
                                 version |-> panel[d].image.version]]

(* The panel implements the board too: it never goes back to an earlier     *)
(* version of the room it is about, so no lost or late reply, retry, tick   *)
(* or restart brings an old frame back (handlers.go, poller.go, app_main).  *)
PanelIsABoard == PanelBoard!BoardSpec

(* Once calendars, config and crashes are over, every configured panel      *)
(* shows what its room's calendar says, or its last refresh timed out.      *)
PanelCatchesUp ==
    \A d \in Devices : <>[](\/ config[d] = NoRoom
                            \/ panel[d].suspect
                            \/ Etag(panel[d].image) =
                                <<config[d], calendar[config[d]][Len(calendar[config[d]])]>>)
=============================================================================
