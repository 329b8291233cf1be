----------------------------- MODULE FleetConfig -----------------------------
(***************************************************************************)
(* What one fleet config says and how each form changes it: displays and    *)
(* the rooms they hang at, offices and whom Lark tells there, accounts that *)
(* are limited to some offices, alert channels and push subscriptions       *)
(* (config/config.go, config/notify.go, server/admin.go,                    *)
(* admin_locations.go, admin_notifications.go, manager.go, push.go).        *)
(*                                                                         *)
(* A form loads the config, edits a copy, and is refused unless the copy    *)
(* passes Validate; here that is one step and a refused form none.  How     *)
(* such steps overlap is ConfigWrite's, and logins are Accounts'.           *)
(***************************************************************************)
EXTENDS Integers, Functions

CONSTANTS Devices, Addresses, Labels, Offices, People, Browsers,
          Contacts,    \* what an office's form may say of whom Lark tells
          Wakes,       \* wake overrides of a display
          Readable,    \* calendars shared with the broker
          Fallback,    \* alerts.lark_fallback_chat_id is set
          None,        \* an empty field
          Unsent       \* a field the form does not send

ASSUME FleetConfigAssumption ==
    /\ {None, Unsent} \cap (Devices \cup Labels \cup Offices \cup Wakes) = {}
    /\ None # Unsent
    /\ Readable \subseteq Addresses
    /\ Contacts \subseteq [email : BOOLEAN, chat : BOOLEAN,
                           mode : {"", "dm", "group", "both"}]
    /\ Fallback \in BOOLEAN

VARIABLES cfg,       \* the live config
          asked,     \* history: the wake override last asked for each display
          chosen,    \* history: the channels last chosen
          granted    \* history: the offices each account was last given

vars == <<cfg, asked, chosen, granted>>

Display == [room : Addresses, label : Labels \cup {None}, office : Offices \cup {None},
            wake : Wakes \cup {None}]
Channels == {"lark", "webpush"}      \* none of them: "log"

(***************************************************************************)
(* Validate.                                                                *)
(***************************************************************************)
\* A room's first display needs no label.
BugLabelsOptional(rooms) ==
    \A d, e \in DOMAIN rooms :
        d # e /\ rooms[d].room = rooms[e].room /\ rooms[d].label # None
        => rooms[d].label # rooms[e].label

validateRoomLabels(rooms) ==
    \A d, e \in DOMAIN rooms :
        d # e /\ rooms[d].room = rooms[e].room
        => rooms[d].label # None /\ rooms[d].label # rooms[e].label

\* Only whether there is an office is looked at.
BugAnyOffice(c) == Fallback \/ DOMAIN c.offices # {}

validateLarkApp(c) ==
    Fallback \/ (/\ DOMAIN c.offices # {}
                 /\ \A l \in DOMAIN c.offices : c.offices[l].email \/ c.offices[l].chat)

validateNotify(c) ==
    /\ "lark" \in c.channels => validateLarkApp(c)
    /\ \A b \in DOMAIN c.subs : c.subs[b].office \in DOMAIN c.offices \cup {None}

validateLocations(c) ==
    /\ \A l \in DOMAIN c.offices :
          /\ c.offices[l].mode \in {"dm", "both"} => c.offices[l].email
          /\ c.offices[l].mode \in {"group", "both"} => c.offices[l].chat
    /\ \A u \in DOMAIN c.users :
          /\ c.users[u].offices \subseteq DOMAIN c.offices
          /\ c.users[u].admin => c.users[u].offices = {}
    /\ c.default \in DOMAIN c.offices \/ (c.default = None /\ DOMAIN c.offices = {})
    /\ \A d \in DOMAIN c.rooms : c.rooms[d].office \in DOMAIN c.offices \cup {None}

Validate(c) ==
    /\ DOMAIN c.rooms # {}
    /\ validateRoomLabels(c.rooms)
    /\ validateNotify(c)
    /\ validateLocations(c)

(***************************************************************************)
(* Reading a config.                                                        *)
(***************************************************************************)
LocationOf(c, d) ==
    IF d \in DOMAIN c.rooms /\ c.rooms[d].office # None THEN c.rooms[d].office ELSE c.default

Limited(user) == ~user.admin /\ user.offices # {}
CanSee(user, l) == Limited(user) => l \in user.offices

\* LarkApp.Send: the targets one message may go to.
Targets(c, l) ==
    LET at == IF l \in DOMAIN c.offices THEN c.offices[l]
              ELSE [email |-> FALSE, chat |-> FALSE, mode |-> ""]
    IN  {t \in {"email", "chat", "fallback"} :
            \/ t = "email" /\ at.email /\ at.mode # "group"
            \/ t = "chat" /\ at.chat
            \/ t = "fallback" /\ Fallback}

(***************************************************************************)
(* Operations on a config.                                                  *)
(***************************************************************************)
Put(f, x, y) == [z \in DOMAIN f \cup {x} |-> IF z = x THEN y ELSE f[z]]
Drop(f, x) == Restrict(f, DOMAIN f \ {x})

WithRoom(c, d, display) == [c EXCEPT !.rooms = Put(@, d, display)]
WithoutRoom(c, d) == [c EXCEPT !.rooms = Drop(@, d)]

WithLocation(c, l, contact) ==
    [c EXCEPT !.offices = Put(@, l, contact), !.default = IF @ = None THEN l ELSE @]

\* The office is taken off the lists that name it.
BugTakesOffLists(c, l) ==
    IF c.default = l /\ DOMAIN c.offices # {l} THEN c
    ELSE [c EXCEPT !.offices = Drop(@, l), !.default = IF @ = l THEN None ELSE @,
                   !.users = [u \in DOMAIN @ |-> [@[u] EXCEPT !.offices = @ \ {l}]]]

\* Refused (c as it was) while it is the default of several, or a display or
\* a limited account names it; subscriptions are left to Validate.
WithoutLocation(c, l) ==
    IF \/ c.default = l /\ DOMAIN c.offices # {l}
       \/ \E d \in DOMAIN c.rooms : c.rooms[d].office = l
       \/ \E u \in DOMAIN c.users : Limited(c.users[u]) /\ l \in c.users[u].offices
    THEN c
    ELSE [c EXCEPT !.offices = Drop(@, l), !.default = IF @ = l THEN None ELSE @]

Init ==
    /\ \E d \in Devices, a \in Addresses :
          cfg = [rooms |-> [x \in {d} |-> [room |-> a, label |-> None, office |-> None,
                                           wake |-> None]],
                 offices |-> <<>>, default |-> None,
                 users |-> [u \in People |-> [admin |-> FALSE, offices |-> {}]],
                 channels |-> {}, subs |-> <<>>, mode |-> "flat"]
    /\ asked = [d \in Devices |-> None]
    /\ chosen = {}
    /\ granted = [u \in People |-> {}]

Saved(c) == Validate(c) /\ cfg' = c

(***************************************************************************)
(* /admin: displays.                                                        *)
(***************************************************************************)
Kept(sent, had, field) == IF sent = Unsent THEN had[field] ELSE sent

Existing(orig, id) == IF orig # None THEN orig ELSE id

\* The room form, with or without original_device_id: what it does not send
\* stays, and a changed calendar is probed.  (The token of a display is left
\* out: a new display brings one, and it is kept as the other fields are.)
EditedRoom(orig, id, room, label, office, wake) ==
    LET old == Existing(orig, id)
        known == old \in DOMAIN cfg.rooms
        had == IF known THEN cfg.rooms[old]
               ELSE [label |-> None, office |-> None, wake |-> None, room |-> None]
    IN  [ok |-> room # had.room => room \in Readable,
         display |-> [room |-> room, label |-> Kept(label, had, "label"),
                      office |-> Kept(office, had, "office"), wake |-> Kept(wake, had, "wake")]]

\* A rename drops the old entry from a copy that has passed Validate with both.
AfterRename(c, orig, id) ==
    LET one == WithoutRoom(c, orig)
    IN  IF orig \notin {None, id} /\ Validate(one) THEN one ELSE c

SaveRoom(orig, id, room, label, office, wake) ==
    LET edit == EditedRoom(orig, id, room, label, office, wake)
        both == WithRoom(cfg, id, edit.display)
    IN  /\ edit.ok /\ Validate(both)
        /\ Saved(AfterRename(both, orig, id))
        /\ asked' = [asked EXCEPT ![id] =
              IF wake # Unsent THEN wake
              ELSE IF orig \in DOMAIN cfg.rooms THEN asked[orig]
              ELSE IF orig = None /\ id \in DOMAIN cfg.rooms THEN @ ELSE None]
        /\ UNCHANGED <<chosen, granted>>

DeleteRoom(d) ==
    /\ Saved(WithoutRoom(cfg, d))
    /\ UNCHANGED <<asked, chosen, granted>>

(***************************************************************************)
(* /admin: offices, channels, the other forms.                              *)
(***************************************************************************)
SaveLocation(l, contact) ==
    /\ Saved(WithLocation(cfg, l, contact))
    /\ UNCHANGED <<asked, chosen, granted>>

DeleteLocation(l) ==
    /\ Saved(WithoutLocation(cfg, l))
    /\ UNCHANGED <<asked, chosen, granted>>

DefaultLocation(l) ==
    /\ Saved([cfg EXCEPT !.default = l])
    /\ UNCHANGED <<asked, chosen, granted>>

SaveNotifications(channels) ==
    /\ Saved([cfg EXCEPT !.channels = channels])
    /\ chosen' = channels
    /\ UNCHANGED <<asked, granted>>

\* A fresh AlertConfig is built from the form.
BugFreshAlerts ==
    /\ Saved([cfg EXCEPT !.channels = {}])
    /\ UNCHANGED <<asked, chosen, granted>>

\* Thresholds and style; the channels, and so the whole of this model, stay.
SaveAlerts == Saved(cfg) /\ UNCHANGED <<asked, chosen, granted>>

SaveWakeDefaults(mode) ==
    /\ Saved([cfg EXCEPT !.mode = mode])
    /\ UNCHANGED <<asked, chosen, granted>>

(***************************************************************************)
(* /admin: accounts and their offices.                                      *)
(***************************************************************************)
SaveUser(orig, u, admin, offices) ==
    LET both == [cfg EXCEPT !.users = Put(@, u, [admin |-> admin, offices |-> offices])]
    IN  /\ Saved(IF orig = u THEN both ELSE [both EXCEPT !.users = Drop(@, orig)])
        /\ granted' = [granted EXCEPT ![u] = offices]
        /\ UNCHANGED <<asked, chosen>>

DeleteUser(u) ==
    /\ Saved([cfg EXCEPT !.users = Drop(@, u)])
    /\ UNCHANGED <<asked, chosen, granted>>

(***************************************************************************)
(* /manager, within the account's offices.                                  *)
(***************************************************************************)
\* Simple mode without an interval is no override where the fleet has it too.
ManagerSaveWake(u, d, wake) ==
    LET over == IF wake = "flat" /\ cfg.mode = "flat" THEN None ELSE wake
    IN  /\ u \in DOMAIN cfg.users /\ CanSee(cfg.users[u], LocationOf(cfg, d))
        /\ d \in DOMAIN cfg.rooms
        /\ Saved(WithRoom(cfg, d, [cfg.rooms[d] EXCEPT !.wake = over]))
        /\ asked' = [asked EXCEPT ![d] = over]
        /\ UNCHANGED <<chosen, granted>>

Subscribe(u, b, office) ==
    /\ "webpush" \in cfg.channels
    /\ u \in DOMAIN cfg.users /\ CanSee(cfg.users[u], office)
    /\ Saved([cfg EXCEPT !.subs = Put(@, b, [user |-> u, office |-> office])])
    /\ UNCHANGED <<asked, chosen, granted>>

\* By its owner, or because the push service says it is gone.
Unsubscribe(b) ==
    /\ b \in DOMAIN cfg.subs
    /\ cfg' = [cfg EXCEPT !.subs = Drop(@, b)]
    /\ UNCHANGED <<asked, chosen, granted>>

Next ==
    \/ \E id \in Devices : \E orig \in (Devices \ {id}) \cup {None}, room \in Addresses,
          label \in Labels \cup {Unsent}, office \in Offices \cup {None, Unsent},
          wake \in Wakes \cup {None, Unsent} :
             SaveRoom(orig, id, room, label, office, wake)
    \/ \E d \in Devices : DeleteRoom(d)
    \/ \E l \in Offices, contact \in Contacts : SaveLocation(l, contact)
    \/ \E l \in Offices : DeleteLocation(l) \/ DefaultLocation(l)
    \/ \E channels \in SUBSET Channels : SaveNotifications(channels)
    \/ SaveAlerts
    \/ \E mode \in {"flat", "smart"} : SaveWakeDefaults(mode)
    \/ \E orig, u \in People, admin \in BOOLEAN, offices \in SUBSET Offices :
          SaveUser(orig, u, admin, offices)
    \/ \E u \in People :
          \/ DeleteUser(u)
          \/ \E d \in Devices, wake \in Wakes : ManagerSaveWake(u, d, wake)
          \/ \E b \in Browsers, office \in Offices \cup {None} : Subscribe(u, b, office)
    \/ \E b \in Browsers : Unsubscribe(b)

Spec == Init /\ [][Next]_vars

(***************************************************************************)
(* Properties.                                                              *)
(***************************************************************************)
\* Types, and whatever forms were saved in whatever order: everything a config
\* names is there, every display has an office as soon as there is one, and
\* two displays of a room can be told apart (Validate).
FleetInv ==
    /\ DOMAIN cfg.rooms \subseteq Devices /\ \A d \in DOMAIN cfg.rooms : cfg.rooms[d] \in Display
    /\ DOMAIN cfg.offices \subseteq Offices
    /\ \A l \in DOMAIN cfg.offices : cfg.offices[l] \in Contacts
    /\ DOMAIN cfg.users \subseteq People
    /\ cfg.channels \subseteq Channels /\ cfg.mode \in {"flat", "smart"}
    /\ DOMAIN cfg.subs \subseteq Browsers
    /\ \A u \in DOMAIN cfg.users : cfg.users[u].offices \subseteq DOMAIN cfg.offices
    /\ \A b \in DOMAIN cfg.subs : cfg.subs[b].office \in DOMAIN cfg.offices \cup {None}
    /\ DOMAIN cfg.offices # {} =>
          \A d \in DOMAIN cfg.rooms : LocationOf(cfg, d) \in DOMAIN cfg.offices
    /\ \A d, e \in DOMAIN cfg.rooms :
          d # e /\ cfg.rooms[d].room = cfg.rooms[e].room
          => cfg.rooms[d].label # cfg.rooms[e].label

\* With Lark chosen, an alert of any display has somebody to go to: no edit of
\* an office, a display, the default or the channels takes the last target
\* from it (validateLarkApp's promise, against what LarkApp.Send tries).
LarkAlertsHaveARoute ==
    "lark" \in cfg.channels =>
        \A d \in DOMAIN cfg.rooms : Targets(cfg, LocationOf(cfg, d)) # {}

\* A form changes what it owns and nothing else: the wake override last asked
\* for a display outlives every other edit of it, renames included, and the
\* channels last chosen outlive every other form (handleAdminSaveRoom's and
\* handleAdminSaveAlerts' comments tell of edits that wiped them).
EditsKeepTheRest ==
    /\ \A d \in DOMAIN cfg.rooms : cfg.rooms[d].wake = asked[d]
    /\ cfg.channels = chosen

\* An account that was limited to some offices sees no other until it is
\* given more, whatever becomes of those offices: an emptied list would mean
\* every office (WithoutLocation).
LimitedStaysLimited ==
    \A u \in DOMAIN cfg.users : granted[u] # {} =>
        \A l \in Offices \cup {None} : CanSee(cfg.users[u], l) => l \in granted[u]

\* "so renaming a device works" (the room form's script, admin.go): a display
\* can be given an unused id.
RenameWorks ==
    \A d \in DOMAIN cfg.rooms, n \in Devices \ DOMAIN cfg.rooms :
        Validate(WithRoom(cfg, n, EditedRoom(d, n, cfg.rooms[d].room, cfg.rooms[d].label,
                                             cfg.rooms[d].office, Unsent).display))
=============================================================================
