-------------------------- MODULE FleetConfigProofs --------------------------
(***************************************************************************)
(* Proofs about FleetConfig, for any displays, calendars, offices, accounts *)
(* and browsers.  The argument: no form is saved that Validate refuses, so  *)
(* a config is always valid; what remains is that the tables keep their     *)
(* shape and that each form leaves alone the columns of the others (Kept-   *)
(* columns below), and the promises are consequences of those.              *)
(***************************************************************************)
EXTENDS FleetConfig, TLAPS

Maps(S, T) == UNION {[D -> T] : D \in SUBSET S}

User == [admin : BOOLEAN, offices : SUBSET Offices]
Subscription == [user : People, office : Offices \cup {None}]

Shape == [rooms : Maps(Devices, Display), offices : Maps(Offices, Contacts),
          default : Offices \cup {None}, users : Maps(People, User),
          channels : SUBSET Channels, subs : Maps(Browsers, Subscription),
          mode : {"flat", "smart"}]

Histories ==
    /\ asked \in [Devices -> Wakes \cup {None}]
    /\ granted \in [People -> SUBSET Offices]

(* What the histories say of a config: the columns that a form keeps.       *)
Columns(c, a, ch, g) ==
    /\ \A d \in DOMAIN c.rooms : c.rooms[d].wake = a[d]
    /\ c.channels = ch
    /\ \A u \in DOMAIN c.users : c.users[u].offices = g[u]

IInv == cfg \in Shape /\ Validate(cfg) /\ Histories /\ Columns(cfg, asked, chosen, granted)

-----------------------------------------------------------------------------
(* Tables: config.go's maps keyed by device, office, account and endpoint.  *)

(* What a table's rows are.                                                 *)
LEMMA MapRows ==
    ASSUME NEW S, NEW T, NEW f \in Maps(S, T)
    PROVE  DOMAIN f \subseteq S /\ \A x \in DOMAIN f : f[x] \in T
  BY DEF Maps

(* A row added or replaced (SetRoom, SetLocation, SetUser and the like).    *)
LEMMA PutRow ==
    ASSUME NEW f, NEW x, NEW y
    PROVE  /\ DOMAIN Put(f, x, y) = DOMAIN f \cup {x}
           /\ Put(f, x, y)[x] = y
           /\ \A z \in DOMAIN f : z # x => Put(f, x, y)[z] = f[z]
  BY DEF Put

(* A table of rows stays one when a row is put in it.                       *)
LEMMA PutTable ==
    ASSUME NEW S, NEW T, NEW f \in Maps(S, T), NEW x \in S, NEW y \in T
    PROVE  Put(f, x, y) \in Maps(S, T)
<1>1. DOMAIN f \cup {x} \in SUBSET S
  BY MapRows
<1>2. Put(f, x, y) \in [DOMAIN f \cup {x} -> T]
  BY MapRows DEF Put
<1> QED
  BY <1>1, <1>2 DEF Maps

(* A row deleted.                                                           *)
LEMMA DropRow ==
    ASSUME NEW f, NEW x
    PROVE  /\ DOMAIN Drop(f, x) = DOMAIN f \ {x}
           /\ \A z \in DOMAIN f : z # x => Drop(f, x)[z] = f[z]
  BY DEF Drop, Restrict

(* A table of rows stays one when a row is deleted from it.                 *)
LEMMA DropTable ==
    ASSUME NEW S, NEW T, NEW f \in Maps(S, T), NEW x
    PROVE  Drop(f, x) \in Maps(S, T)
<1>1. DOMAIN f \ {x} \in SUBSET S
  BY MapRows
<1>2. Drop(f, x) \in [DOMAIN f \ {x} -> T]
  BY MapRows DEF Drop, Restrict
<1> QED
  BY <1>1, <1>2 DEF Maps

(* An empty table.                                                          *)
LEMMA EmptyTable == ASSUME NEW S, NEW T PROVE <<>> \in Maps(S, T) /\ DOMAIN <<>> = {}
<1>1. <<>> \in [{} -> T] /\ DOMAIN <<>> = {}
  OBVIOUS
<1>2. {} \in SUBSET S
  OBVIOUS
<1> QED
  BY <1>1, <1>2 DEF Maps

-----------------------------------------------------------------------------
(* What validateLocations asks of a config, table by table.                 *)
LEMMA Locations ==
    ASSUME NEW c,
           \A l \in DOMAIN c.offices :
               /\ c.offices[l].mode \in {"dm", "both"} => c.offices[l].email
               /\ c.offices[l].mode \in {"group", "both"} => c.offices[l].chat,
           \A u \in DOMAIN c.users :
               /\ c.users[u].offices \subseteq DOMAIN c.offices
               /\ c.users[u].admin => c.users[u].offices = {},
           c.default \in DOMAIN c.offices \/ (c.default = None /\ DOMAIN c.offices = {}),
           \A d \in DOMAIN c.rooms : c.rooms[d].office \in DOMAIN c.offices \cup {None}
    PROVE  validateLocations(c)
  BY Zenon DEF validateLocations

(* The first config: one display and no offices.                            *)
LEMMA InitInv == Init => IInv
<1> SUFFICES ASSUME Init PROVE IInv
  OBVIOUS
<1> USE FleetConfigAssumption
<1>1. PICK d \in Devices, a \in Addresses :
          cfg = [rooms |-> [x \in {d} |-> [room |-> a, label |-> None, office |-> None,
                                           wake |-> None]],
                 offices |-> <<>>, default |-> None,
                 users |-> [u \in People |-> [admin |-> FALSE, offices |-> {}]],
                 channels |-> {}, subs |-> <<>>, mode |-> "flat"]
  BY DEF Init
<1> DEFINE row == [room |-> a, label |-> None, office |-> None, wake |-> None]
<1>2. cfg.rooms = [x \in {d} |-> row] /\ DOMAIN cfg.rooms = {d} /\ cfg.rooms[d] = row
  BY <1>1
<1>3. cfg.rooms \in Maps(Devices, Display)
  <2>1. row \in Display
    BY DEF Display
  <2> HIDE DEF row
  <2>2. cfg.rooms \in [{d} -> Display] /\ {d} \in SUBSET Devices
    BY <1>2, <2>1
  <2> QED
    BY <2>2 DEF Maps
<1>4. cfg.users \in Maps(People, User)
  <2>1. cfg.users = [u \in People |-> [admin |-> FALSE, offices |-> {}]]
    BY <1>1
  <2>2. [admin |-> FALSE, offices |-> {}] \in User
    BY DEF User
  <2>3. cfg.users \in [People -> User] /\ People \in SUBSET People
    BY <2>1, <2>2
  <2> QED
    BY <2>3 DEF Maps
<1>5. cfg \in Shape
  BY <1>1, <1>3, <1>4, EmptyTable DEF Shape
<1>6. DOMAIN cfg.offices = {} /\ DOMAIN cfg.subs = {} /\ cfg.default = None /\ cfg.channels = {}
  BY <1>1, EmptyTable
<1>7. \A u \in DOMAIN cfg.users : cfg.users[u].offices = {}
  BY <1>1
<1>8. Validate(cfg)
  <2>1. validateRoomLabels(cfg.rooms)
    BY <1>2 DEF validateRoomLabels
  <2>2. validateNotify(cfg)
    BY <1>6 DEF validateNotify
  <2>3. \A x \in DOMAIN cfg.rooms : cfg.rooms[x].office = None
    BY <1>1, <1>2
  <2>4. \A u \in DOMAIN cfg.users :
           /\ cfg.users[u].offices \subseteq DOMAIN cfg.offices
           /\ cfg.users[u].admin => cfg.users[u].offices = {}
    BY <1>7
  <2>5. validateLocations(cfg)
    <3>1. \A l \in DOMAIN cfg.offices :
             /\ cfg.offices[l].mode \in {"dm", "both"} => cfg.offices[l].email
             /\ cfg.offices[l].mode \in {"group", "both"} => cfg.offices[l].chat
      BY <1>6
    <3>2. cfg.default \in DOMAIN cfg.offices \/ (cfg.default = None /\ DOMAIN cfg.offices = {})
      BY <1>6
    <3>3. \A x \in DOMAIN cfg.rooms : cfg.rooms[x].office \in DOMAIN cfg.offices \cup {None}
      BY <2>3
    <3> QED
      BY <2>4, <3>1, <3>2, <3>3, Locations
  <2> QED
    BY <1>2, <2>1, <2>2, <2>5 DEF Validate
<1>9. Histories /\ Columns(cfg, asked, chosen, granted)
  <2>1. asked = [x \in Devices |-> None] /\ granted = [u \in People |-> {}] /\ chosen = {}
    BY DEF Init
  <2>2. DOMAIN cfg.users \subseteq People
    BY <1>1
  <2>3. \A x \in DOMAIN cfg.rooms : cfg.rooms[x].wake = asked[x]
    BY <1>1, <1>2, <2>1
  <2> QED
    BY <1>6, <1>7, <2>1, <2>2, <2>3 DEF Histories, Columns
<1> QED
  BY <1>5, <1>8, <1>9 DEF IInv

-----------------------------------------------------------------------------
(* A form that leaves the displays' overrides, the channels and the         *)
(* accounts' offices alone (offices, default, wake defaults, subscriptions).*)
LEMMA OtherTables ==
    ASSUME IInv, cfg' \in Shape, Validate(cfg'),
           cfg'.rooms = cfg.rooms, cfg'.channels = cfg.channels, cfg'.users = cfg.users,
           UNCHANGED <<asked, chosen, granted>>
    PROVE  IInv'
  BY DEF IInv, Histories, Columns

(* Saving an office, and the default that a first office becomes.           *)
LEMMA SaveLocationInv ==
    ASSUME IInv, NEW l \in Offices, NEW contact \in Contacts, SaveLocation(l, contact)
    PROVE  IInv'
<1>1. cfg \in Shape
  BY DEF IInv
<1>2. cfg' = WithLocation(cfg, l, contact) /\ Validate(cfg') /\ UNCHANGED <<asked, chosen, granted>>
  BY DEF SaveLocation, Saved
<1>3. Put(cfg.offices, l, contact) \in Maps(Offices, Contacts)
  BY <1>1, PutTable DEF Shape
<1>4. cfg' \in Shape /\ cfg'.rooms = cfg.rooms /\ cfg'.channels = cfg.channels
      /\ cfg'.users = cfg.users
  BY <1>1, <1>2, <1>3 DEF Shape, WithLocation
<1> QED
  BY <1>2, <1>4, OtherTables

(* Deleting an office, where WithoutLocation does not refuse it.            *)
LEMMA DeleteLocationInv ==
    ASSUME IInv, NEW l \in Offices, DeleteLocation(l)
    PROVE  IInv'
<1>1. cfg \in Shape
  BY DEF IInv
<1>2. cfg' = WithoutLocation(cfg, l) /\ Validate(cfg') /\ UNCHANGED <<asked, chosen, granted>>
  BY DEF DeleteLocation, Saved
<1>3. Drop(cfg.offices, l) \in Maps(Offices, Contacts)
  BY <1>1, DropTable DEF Shape
<1> DEFINE gone == [cfg EXCEPT !.offices = Drop(@, l), !.default = IF @ = l THEN None ELSE @]
<1>4. WithoutLocation(cfg, l) \in {cfg, gone}
  BY DEF WithoutLocation
<1>5. gone \in Shape /\ gone.rooms = cfg.rooms /\ gone.channels = cfg.channels
      /\ gone.users = cfg.users
  BY <1>1, <1>3 DEF Shape
<1>6. cfg' \in Shape /\ cfg'.rooms = cfg.rooms /\ cfg'.channels = cfg.channels
      /\ cfg'.users = cfg.users
  BY <1>1, <1>2, <1>4, <1>5
<1> QED
  BY <1>2, <1>6, OtherTables

(* Another default, other wake defaults, other thresholds.                  *)
LEMMA SettingsInv ==
    ASSUME IInv,
           \/ \E l \in Offices : DefaultLocation(l)
           \/ \E mode \in {"flat", "smart"} : SaveWakeDefaults(mode)
           \/ SaveAlerts
    PROVE  IInv'
<1>1. cfg \in Shape
  BY DEF IInv
<1>2. Validate(cfg') /\ UNCHANGED <<asked, chosen, granted>>
  BY DEF DefaultLocation, SaveWakeDefaults, SaveAlerts, Saved
<1>3. \/ \E l \in Offices : cfg' = [cfg EXCEPT !.default = l]
      \/ \E mode \in {"flat", "smart"} : cfg' = [cfg EXCEPT !.mode = mode]
      \/ cfg' = cfg
  BY DEF DefaultLocation, SaveWakeDefaults, SaveAlerts, Saved
<1>4. cfg' \in Shape /\ cfg'.rooms = cfg.rooms /\ cfg'.channels = cfg.channels
      /\ cfg'.users = cfg.users
  BY <1>1, <1>3 DEF Shape
<1> QED
  BY <1>2, <1>4, OtherTables

(* A manager's browser subscribes.                                          *)
LEMMA SubscribeInv ==
    ASSUME IInv, NEW u \in People, NEW b \in Browsers, NEW office \in Offices \cup {None},
           Subscribe(u, b, office)
    PROVE  IInv'
<1>1. cfg \in Shape
  BY DEF IInv
<1> DEFINE subs == Put(cfg.subs, b, [user |-> u, office |-> office])
<1>2. cfg' = [cfg EXCEPT !.subs = subs] /\ Validate(cfg') /\ UNCHANGED <<asked, chosen, granted>>
  BY DEF Subscribe, Saved
<1>3. subs \in Maps(Browsers, Subscription)
  BY <1>1, PutTable DEF Shape, Subscription
<1> HIDE DEF subs
<1>4. cfg' \in Shape /\ cfg'.rooms = cfg.rooms /\ cfg'.channels = cfg.channels
      /\ cfg'.users = cfg.users
  BY <1>1, <1>2, <1>3 DEF Shape
<1> QED
  BY <1>2, <1>4, OtherTables

(* A subscription goes without Validate being asked (push.go, webpush.go    *)
(* after a 410): what is left is valid still.                               *)
LEMMA UnsubscribeInv ==
    ASSUME IInv, NEW b \in Browsers, Unsubscribe(b)
    PROVE  IInv'
<1>1. cfg \in Shape /\ Validate(cfg)
  BY DEF IInv
<1> DEFINE subs == Drop(cfg.subs, b)
<1>2. cfg' = [cfg EXCEPT !.subs = subs] /\ UNCHANGED <<asked, chosen, granted>>
  BY DEF Unsubscribe
<1>3. subs \in Maps(Browsers, Subscription)
  BY <1>1, DropTable DEF Shape
<1>4. \A x \in DOMAIN subs : x \in DOMAIN cfg.subs /\ subs[x] = cfg.subs[x]
  <2>1. cfg.subs \in Maps(Browsers, Subscription)
    BY <1>1 DEF Shape
  <2>2. DOMAIN subs = DOMAIN cfg.subs \ {b}
        /\ \A z \in DOMAIN cfg.subs : z # b => subs[z] = cfg.subs[z]
    BY DropRow
  <2> HIDE DEF subs
  <2> QED
    BY <2>2
<1> HIDE DEF subs
<1>5. cfg' \in Shape /\ cfg'.rooms = cfg.rooms /\ cfg'.channels = cfg.channels
      /\ cfg'.users = cfg.users /\ cfg'.offices = cfg.offices /\ cfg'.default = cfg.default
      /\ cfg'.subs = subs
  BY <1>1, <1>2, <1>3 DEF Shape
<1>6. validateLocations(cfg') /\ validateRoomLabels(cfg'.rooms) /\ DOMAIN cfg'.rooms # {}
  BY <1>1, <1>5 DEF Validate, validateLocations
<1>7. validateNotify(cfg')
  BY <1>1, <1>4, <1>5 DEF Validate, validateNotify, validateLarkApp
<1>8. Validate(cfg')
  BY <1>6, <1>7 DEF Validate
<1> QED
  BY <1>2, <1>5, <1>8, OtherTables

(* The channels form: what it chose is what is there.                       *)
LEMMA SaveNotificationsInv ==
    ASSUME IInv, NEW channels \in SUBSET Channels, SaveNotifications(channels)
    PROVE  IInv'
<1>1. cfg \in Shape
  BY DEF IInv
<1>2. cfg' = [cfg EXCEPT !.channels = channels] /\ Validate(cfg') /\ chosen' = channels
      /\ UNCHANGED <<asked, granted>>
  BY DEF SaveNotifications, Saved
<1>3. cfg' \in Shape /\ cfg'.rooms = cfg.rooms /\ cfg'.channels = channels
      /\ cfg'.users = cfg.users
  BY <1>1, <1>2 DEF Shape
<1> QED
  BY <1>2, <1>3 DEF IInv, Histories, Columns

-----------------------------------------------------------------------------
(* Displays.                                                                *)

(* A display taken off: the overrides of the others are as they were.       *)
LEMMA WithoutRoomKeeps ==
    ASSUME NEW c \in Shape, NEW a, NEW ch, NEW g, NEW d, Columns(c, a, ch, g)
    PROVE  WithoutRoom(c, d) \in Shape /\ Columns(WithoutRoom(c, d), a, ch, g)
<1> DEFINE rooms == Drop(c.rooms, d)
<1>1. c.rooms \in Maps(Devices, Display)
  BY DEF Shape
<1>2. rooms \in Maps(Devices, Display) /\ DOMAIN rooms = DOMAIN c.rooms \ {d}
      /\ \A z \in DOMAIN c.rooms : z # d => rooms[z] = c.rooms[z]
  BY <1>1, DropRow, DropTable
<1> HIDE DEF rooms
<1>3. WithoutRoom(c, d) = [c EXCEPT !.rooms = rooms]
  BY DEF WithoutRoom, rooms
<1>4. WithoutRoom(c, d) \in Shape /\ WithoutRoom(c, d).rooms = rooms
      /\ WithoutRoom(c, d).channels = c.channels /\ WithoutRoom(c, d).users = c.users
  BY <1>2, <1>3 DEF Shape
<1> QED
  BY <1>2, <1>4 DEF Columns

(* A display written: its override is the one the history says, the others' *)
(* are as they were.                                                        *)
LEMMA WithRoomKeeps ==
    ASSUME NEW c \in Shape, NEW a, NEW ch, NEW g, NEW d \in Devices, NEW display \in Display,
           NEW a2, Columns(c, a, ch, g), display.wake = a2[d],
           \A e \in DOMAIN c.rooms : e # d => a2[e] = a[e]
    PROVE  WithRoom(c, d, display) \in Shape /\ Columns(WithRoom(c, d, display), a2, ch, g)
<1> DEFINE rooms == Put(c.rooms, d, display)
<1>1. c.rooms \in Maps(Devices, Display)
  BY DEF Shape
<1>2. /\ DOMAIN rooms = DOMAIN c.rooms \cup {d} 
      /\ rooms[d] = display
      /\ \A z \in DOMAIN c.rooms : z # d => rooms[z] = c.rooms[z]
  BY DEF Put
<1>6. rooms \in Maps(Devices, Display)
  BY <1>1, PutTable
<1> HIDE DEF rooms
<1>3. WithRoom(c, d, display) = [c EXCEPT !.rooms = rooms]
  BY DEF WithRoom, rooms
<1>4. WithRoom(c, d, display) \in Shape /\ WithRoom(c, d, display).rooms = rooms
      /\ WithRoom(c, d, display).channels = c.channels
      /\ WithRoom(c, d, display).users = c.users
  BY <1>3, <1>6 DEF Shape
<1>5. \A z \in DOMAIN rooms : rooms[z].wake = a2[z]
  BY <1>2 DEF Columns
<1> QED
  BY <1>4, <1>5 DEF Columns

(* Deleting a display.                                                      *)
LEMMA DeleteRoomInv == ASSUME IInv, NEW d \in Devices, DeleteRoom(d) PROVE IInv'
<1>1. cfg \in Shape /\ Histories /\ Columns(cfg, asked, chosen, granted)
  BY DEF IInv
<1>2. cfg' = WithoutRoom(cfg, d) /\ Validate(cfg') /\ UNCHANGED <<asked, chosen, granted>>
  BY DEF DeleteRoom, Saved
<1>3. cfg' \in Shape /\ Columns(cfg', asked, chosen, granted)
  BY <1>1, <1>2, WithoutRoomKeeps
<1> QED
  BY <1>1, <1>2, <1>3 DEF IInv, Histories

(* A manager's wake override.                                               *)
LEMMA ManagerSaveWakeInv ==
    ASSUME IInv, NEW u \in People, NEW d \in Devices, NEW wake \in Wakes,
           ManagerSaveWake(u, d, wake)
    PROVE  IInv'
<1> DEFINE over == IF wake = "flat" /\ cfg.mode = "flat" THEN None ELSE wake
           display == [cfg.rooms[d] EXCEPT !.wake = over]
<1>1. cfg \in Shape /\ Histories /\ Columns(cfg, asked, chosen, granted)
  BY DEF IInv
<1>2. d \in DOMAIN cfg.rooms /\ cfg' = WithRoom(cfg, d, display) /\ Validate(cfg')
      /\ asked' = [asked EXCEPT ![d] = over] /\ UNCHANGED <<chosen, granted>>
  BY DEF ManagerSaveWake, Saved
<1>3. over \in Wakes \cup {None}
  OBVIOUS
<1> HIDE DEF over
<1>4. cfg.rooms \in Maps(Devices, Display)
  BY <1>1 DEF Shape
<1>5. cfg.rooms[d] \in Display /\ DOMAIN cfg.rooms \subseteq Devices
  BY <1>2, <1>4, MapRows
<1>6. display \in Display /\ display.wake = over
  BY <1>3, <1>5 DEF Display
<1> HIDE DEF display
<1>7. asked' \in [Devices -> Wakes \cup {None}] /\ asked'[d] = over
      /\ \A e \in DOMAIN cfg.rooms : e # d => asked'[e] = asked[e]
  BY <1>1, <1>2, <1>3, <1>5 DEF Histories
<1>8. cfg' \in Shape /\ Columns(cfg', asked', chosen, granted)
  BY <1>1, <1>2, <1>6, <1>7, WithRoomKeeps
<1> QED
  BY <1>1, <1>2, <1>7, <1>8 DEF IInv, Histories

(* The override a display form asks for: what it sends, or what was asked   *)
(* of the display it edits.                                                 *)
AskedFor(orig, id, wake) ==
    IF wake # Unsent THEN wake
    ELSE IF orig \in DOMAIN cfg.rooms THEN asked[orig]
    ELSE IF orig = None /\ id \in DOMAIN cfg.rooms THEN asked[id]
    ELSE None

(* What a display form that leaves its wake fields out would write is what  *)
(* was asked of the display it edits.                                       *)
LEMMA EditedRoomRow ==
    ASSUME IInv, NEW orig \in Devices \cup {None}, NEW id \in Devices, NEW room \in Addresses,
           NEW label \in Labels \cup {Unsent}, NEW office \in Offices \cup {None, Unsent},
           NEW wake \in Wakes \cup {None, Unsent}
    PROVE  /\ EditedRoom(orig, id, room, label, office, wake).display \in Display
           /\ EditedRoom(orig, id, room, label, office, wake).display.wake = AskedFor(orig, id, wake)
<1> DEFINE old == Existing(orig, id)
           known == old \in DOMAIN cfg.rooms
           had == IF known THEN cfg.rooms[old]
                  ELSE [label |-> None, office |-> None, wake |-> None, room |-> None]
           row == [room |-> room, label |-> Kept(label, had, "label"),
                   office |-> Kept(office, had, "office"), wake |-> Kept(wake, had, "wake")]
<1>1. EditedRoom(orig, id, room, label, office, wake).display = row
  BY DEF EditedRoom
<1>2. cfg.rooms \in Maps(Devices, Display) /\ Columns(cfg, asked, chosen, granted)
  BY DEF IInv, Shape
<1>3. DOMAIN cfg.rooms \subseteq Devices /\ \A d \in DOMAIN cfg.rooms : cfg.rooms[d] \in Display
  BY <1>2, MapRows
<1>4. had.label \in Labels \cup {None} /\ had.office \in Offices \cup {None}
      /\ had.wake \in Wakes \cup {None}
  BY <1>3 DEF Display
<1>5. had.wake = IF orig \in DOMAIN cfg.rooms THEN asked[orig]
                 ELSE IF orig = None /\ id \in DOMAIN cfg.rooms THEN asked[id]
                 ELSE None
  BY <1>2, <1>3, FleetConfigAssumption DEF Existing, Columns
<1> HIDE DEF had
<1>6. row \in Display
  BY <1>4 DEF Display, Kept
<1>7. row.wake = IF wake # Unsent THEN wake ELSE had.wake
  BY DEF Kept
<1> QED
  BY <1>1, <1>5, <1>6, <1>7 DEF AskedFor

(* The display form, a rename included: the override goes with the display. *)
LEMMA SaveRoomInv ==
    ASSUME IInv, NEW orig \in Devices \cup {None}, NEW id \in Devices, NEW room \in Addresses,
           NEW label \in Labels \cup {Unsent}, NEW office \in Offices \cup {None, Unsent},
           NEW wake \in Wakes \cup {None, Unsent},
           SaveRoom(orig, id, room, label, office, wake)
    PROVE  IInv'
<1> DEFINE row == EditedRoom(orig, id, room, label, office, wake).display
           both == WithRoom(cfg, id, row)
           to == AskedFor(orig, id, wake)
<1>1. cfg \in Shape /\ Histories /\ Columns(cfg, asked, chosen, granted)
  BY DEF IInv
<1>2. row \in Display /\ row.wake = to
  <2>1. row \in Display
    BY EditedRoomRow
  <2>2. row.wake = to
    BY EditedRoomRow
  <2> QED
    BY <2>1, <2>2
<1>3. cfg' = AfterRename(both, orig, id) /\ Validate(cfg') /\ UNCHANGED <<chosen, granted>>
  BY DEF SaveRoom, Saved
<1>4. asked' = [asked EXCEPT ![id] = to]
  BY <1>1 DEF SaveRoom, Histories, AskedFor
<1>5. to \in Wakes \cup {None}
  BY <1>2 DEF Display
<1> HIDE DEF row, to
<1>6. DOMAIN cfg.rooms \subseteq Devices
  <2>1. cfg.rooms \in Maps(Devices, Display)
    BY <1>1 DEF Shape
  <2> QED
    BY <2>1, MapRows
<1>7. asked' \in [Devices -> Wakes \cup {None}] /\ asked'[id] = to
      /\ \A e \in DOMAIN cfg.rooms : e # id => asked'[e] = asked[e]
  BY <1>1, <1>4, <1>5, <1>6 DEF Histories
<1>8. both \in Shape /\ Columns(both, asked', chosen, granted)
  BY <1>1, <1>2, <1>7, WithRoomKeeps
<1> HIDE DEF both
<1>9. cfg' \in {both, WithoutRoom(both, orig)}
  BY <1>3 DEF AfterRename
<1>10. cfg' \in Shape /\ Columns(cfg', asked', chosen, granted)
  BY <1>8, <1>9, WithoutRoomKeeps
<1> QED
  BY <1>1, <1>3, <1>7, <1>10 DEF IInv, Histories

-----------------------------------------------------------------------------
(* Accounts: the offices of one are the ones it was last given.             *)
LEMMA UsersInv ==
    ASSUME IInv, NEW users \in Maps(People, User), cfg' = [cfg EXCEPT !.users = users],
           Validate(cfg'), UNCHANGED <<asked, chosen>>,
           granted' \in [People -> SUBSET Offices],
           \A u \in DOMAIN users : users[u].offices = granted'[u]
    PROVE  IInv'
<1>1. cfg \in Shape
  BY DEF IInv
<1>2. cfg' \in Shape /\ cfg'.users = users /\ cfg'.rooms = cfg.rooms
      /\ cfg'.channels = cfg.channels
  BY <1>1 DEF Shape
<1> QED
  BY <1>2 DEF IInv, Histories, Columns

(* The account form; a rename drops the old name.                           *)
LEMMA SaveUserInv ==
    ASSUME IInv, NEW orig \in People, NEW u \in People, NEW admin \in BOOLEAN,
           NEW offices \in SUBSET Offices, SaveUser(orig, u, admin, offices)
    PROVE  IInv'
<1> DEFINE row == [admin |-> admin, offices |-> offices]
           both == Put(cfg.users, u, row)
           one == Drop(both, orig)
           users == IF orig = u THEN both ELSE one
<1>1. cfg \in Shape /\ Histories /\ Columns(cfg, asked, chosen, granted)
  BY DEF IInv
<1>2. cfg.users \in Maps(People, User) /\ row \in User /\ row.offices = offices
  BY <1>1 DEF Shape, User
<1>3. DOMAIN cfg.users \subseteq People
  BY <1>2, MapRows
<1> HIDE DEF row
<1>4. /\ DOMAIN both = DOMAIN cfg.users \cup {u}
      /\ both[u] = row
      /\ \A z \in DOMAIN cfg.users : z # u => both[z] = cfg.users[z]
  BY DEF Put
<1>5. both \in Maps(People, User)
  BY <1>2, PutTable
<1> HIDE DEF both
<1>6. /\ DOMAIN one = DOMAIN both \ {orig}
      /\ \A z \in DOMAIN both : z # orig => one[z] = both[z]
  BY DEF Drop, Restrict
<1>7. one \in Maps(People, User)
  BY <1>5, DropTable
<1>8. /\ Validate(cfg')
      /\ cfg' = IF orig = u THEN [cfg EXCEPT !.users = both]
                ELSE [[cfg EXCEPT !.users = both] EXCEPT !.users = one]
      /\ granted' = [granted EXCEPT ![u] = offices]
      /\ UNCHANGED <<asked, chosen>>
  <2>1. [cfg EXCEPT !.users = both].users = both
    BY <1>1 DEF Shape
  <2> QED
    BY <2>1 DEF SaveUser, Saved, both, row
<1> HIDE DEF one
<1>9. cfg' = [cfg EXCEPT !.users = users]
  BY <1>1, <1>8 DEF Shape
<1>10. users \in Maps(People, User)
  BY <1>5, <1>7
<1>11. granted' \in [People -> SUBSET Offices] /\ granted'[u] = offices
       /\ \A z \in People : z # u => granted'[z] = granted[z]
  BY <1>1, <1>8 DEF Histories
<1>12. \A z \in DOMAIN users : z \in DOMAIN both /\ users[z] = both[z]
  BY <1>6
<1>13. \A z \in DOMAIN both : both[z].offices = granted'[z]
  BY <1>1, <1>2, <1>3, <1>4, <1>11 DEF Columns
<1>14. \A z \in DOMAIN users : users[z].offices = granted'[z]
  BY <1>12, <1>13
<1> HIDE DEF users
<1> QED
  BY <1>8, <1>9, <1>10, <1>11, <1>14, UsersInv

(* Deleting an account.                                                     *)
LEMMA DeleteUserInv == ASSUME IInv, NEW u \in People, DeleteUser(u) PROVE IInv'
<1> DEFINE users == Drop(cfg.users, u)
<1>1. cfg \in Shape /\ Histories /\ Columns(cfg, asked, chosen, granted)
  BY DEF IInv
<1>2. cfg' = [cfg EXCEPT !.users = users] /\ Validate(cfg') /\ UNCHANGED <<asked, chosen, granted>>
  BY DEF DeleteUser, Saved
<1>3. cfg.users \in Maps(People, User)
  BY <1>1 DEF Shape
<1>4. users \in Maps(People, User)
  BY <1>3, DropTable
<1>5. /\ DOMAIN users = DOMAIN cfg.users \ {u}
      /\ \A z \in DOMAIN cfg.users : z # u => users[z] = cfg.users[z]
  BY DEF Drop, Restrict
<1> HIDE DEF users
<1>6. \A z \in DOMAIN users : users[z].offices = granted'[z]
  BY <1>1, <1>2, <1>5 DEF Columns
<1> QED
  BY <1>1, <1>2, <1>4, <1>6, UsersInv DEF Histories

-----------------------------------------------------------------------------
(* Every form.                                                              *)
LEMMA StepInv == IInv /\ [Next]_vars => IInv'
<1> SUFFICES ASSUME IInv, [Next]_vars PROVE IInv'
  OBVIOUS
<1>1. CASE UNCHANGED vars
  BY <1>1 DEF IInv, Histories, Columns, vars
<1>2. ASSUME NEW id \in Devices, NEW orig \in (Devices \ {id}) \cup {None},
             NEW room \in Addresses, NEW label \in Labels \cup {Unsent},
             NEW office \in Offices \cup {None, Unsent}, NEW wake \in Wakes \cup {None, Unsent},
             SaveRoom(orig, id, room, label, office, wake)
      PROVE  IInv'
  BY <1>2, SaveRoomInv
<1>3. CASE \E d \in Devices : DeleteRoom(d)
  BY <1>3, DeleteRoomInv
<1>4. CASE \E l \in Offices, contact \in Contacts : SaveLocation(l, contact)
  BY <1>4, SaveLocationInv
<1>5. CASE \E l \in Offices : DeleteLocation(l) \/ DefaultLocation(l)
  BY <1>5, DeleteLocationInv, SettingsInv
<1>6. CASE \E channels \in SUBSET Channels : SaveNotifications(channels)
  BY <1>6, SaveNotificationsInv
<1>7. CASE SaveAlerts \/ \E mode \in {"flat", "smart"} : SaveWakeDefaults(mode)
  BY <1>7, SettingsInv
<1>8. CASE \E orig, u \in People, admin \in BOOLEAN, offices \in SUBSET Offices :
              SaveUser(orig, u, admin, offices)
  BY <1>8, SaveUserInv
<1>9. CASE \E u \in People : DeleteUser(u)
  BY <1>9, DeleteUserInv
<1>10. CASE \E u \in People, d \in Devices, wake \in Wakes : ManagerSaveWake(u, d, wake)
  BY <1>10, ManagerSaveWakeInv
<1>11. CASE \E u \in People, b \in Browsers, office \in Offices \cup {None} :
               Subscribe(u, b, office)
  BY <1>11, SubscribeInv
<1>12. CASE \E b \in Browsers : Unsubscribe(b)
  BY <1>12, UnsubscribeInv
<1> QED
  BY <1>1, <1>2, <1>3, <1>4, <1>5, <1>6, <1>7, <1>8, <1>9, <1>10, <1>11, <1>12 DEF Next

(* In every reachable config the tables are whole and valid, and each       *)
(* form's columns are as that form last left them.                          *)
THEOREM AlwaysIInv == Spec => []IInv
  BY InitInv, StepInv, PTL DEF Spec

-----------------------------------------------------------------------------
(* What validateLocations and validateRoomLabels make of every display:     *)
(* the office it belongs to exists as soon as one does.                     *)
LEMMA OfficeExists ==
    ASSUME IInv, NEW d \in DOMAIN cfg.rooms, DOMAIN cfg.offices # {}
    PROVE  LocationOf(cfg, d) \in DOMAIN cfg.offices
<1>1. cfg.rooms[d].office \in DOMAIN cfg.offices \cup {None}
      /\ cfg.default \in DOMAIN cfg.offices
  BY DEF IInv, Validate, validateLocations
<1> QED
  BY <1>1 DEF LocationOf

(* Types and Validate's promises, whatever forms were saved in whatever     *)
(* order: what a config names is there, every display has an office as soon *)
(* as there is one, displays of one room can be told apart.                 *)
THEOREM ConfigIsWhole == Spec => []FleetInv
<1>1. IInv => FleetInv
  <2> SUFFICES ASSUME IInv PROVE FleetInv
    OBVIOUS
  <2>1. cfg \in Shape /\ Validate(cfg)
    BY DEF IInv
  <2>2. DOMAIN cfg.rooms \subseteq Devices /\ \A d \in DOMAIN cfg.rooms : cfg.rooms[d] \in Display
    <3>1. cfg.rooms \in Maps(Devices, Display)
      BY <2>1 DEF Shape
    <3> QED
      BY <3>1, MapRows
  <2>3. DOMAIN cfg.offices \subseteq Offices
        /\ \A l \in DOMAIN cfg.offices : cfg.offices[l] \in Contacts
    <3>1. cfg.offices \in Maps(Offices, Contacts)
      BY <2>1 DEF Shape
    <3> QED
      BY <3>1, MapRows
  <2>4. DOMAIN cfg.users \subseteq People
    <3>1. cfg.users \in Maps(People, User)
      BY <2>1 DEF Shape
    <3> QED
      BY <3>1, MapRows
  <2>5. DOMAIN cfg.subs \subseteq Browsers
    <3>1. cfg.subs \in Maps(Browsers, Subscription)
      BY <2>1 DEF Shape
    <3> QED
      BY <3>1, MapRows
  <2>6. cfg.channels \subseteq Channels /\ cfg.mode \in {"flat", "smart"}
    BY <2>1 DEF Shape
  <2>7. \A u \in DOMAIN cfg.users : cfg.users[u].offices \subseteq DOMAIN cfg.offices
    BY <2>1 DEF Validate, validateLocations
  <2>8. \A b \in DOMAIN cfg.subs : cfg.subs[b].office \in DOMAIN cfg.offices \cup {None}
    BY <2>1 DEF Validate, validateNotify
  <2>9. DOMAIN cfg.offices # {} =>
           \A d \in DOMAIN cfg.rooms : LocationOf(cfg, d) \in DOMAIN cfg.offices
    BY OfficeExists
  <2>10. \A d, e \in DOMAIN cfg.rooms :
            d # e /\ cfg.rooms[d].room = cfg.rooms[e].room
            => cfg.rooms[d].label # cfg.rooms[e].label
    BY <2>1 DEF Validate, validateRoomLabels
  <2> QED
    BY <2>2, <2>3, <2>4, <2>5, <2>6, <2>7, <2>8, <2>9, <2>10 DEF FleetInv
<1> QED
  BY <1>1, AlwaysIInv, PTL

(* With Lark chosen, an alert of any display has a target to try: the       *)
(* offices are complete or there is a fallback chat (validateLarkApp), an   *)
(* office in group mode has a group (validateLocations), and the display's  *)
(* office exists.                                                           *)
THEOREM LarkReachesSomebody == Spec => []LarkAlertsHaveARoute
<1>1. IInv => LarkAlertsHaveARoute
  <2> SUFFICES ASSUME IInv, "lark" \in cfg.channels, NEW d \in DOMAIN cfg.rooms
               PROVE  Targets(cfg, LocationOf(cfg, d)) # {}
    BY DEF LarkAlertsHaveARoute
  <2> DEFINE l == LocationOf(cfg, d)
  <2>1. validateLarkApp(cfg) /\ validateLocations(cfg)
    BY DEF IInv, Validate, validateNotify
  <2>2. CASE Fallback
    <3>1. "fallback" \in Targets(cfg, l)
      BY <2>2 DEF Targets
    <3> QED
      BY <3>1
  <2>3. CASE ~Fallback
    <3>1. DOMAIN cfg.offices # {}
      BY <2>1, <2>3 DEF validateLarkApp
    <3>2. l \in DOMAIN cfg.offices
      BY <3>1, OfficeExists
    <3> HIDE DEF l
    <3>3. cfg.offices[l].email \/ cfg.offices[l].chat
      BY <2>1, <2>3, <3>2 DEF validateLarkApp
    <3>4. cfg.offices[l].mode = "group" => cfg.offices[l].chat
      BY <2>1, <3>2 DEF validateLocations
    <3>5. CASE cfg.offices[l].chat
      <4>1. "chat" \in Targets(cfg, l)
        BY <3>2, <3>5 DEF Targets
      <4> QED
        BY <4>1 DEF l
    <3>6. CASE cfg.offices[l].email /\ cfg.offices[l].mode # "group"
      <4>1. "email" \in Targets(cfg, l)
        BY <3>2, <3>6 DEF Targets
      <4> QED
        BY <4>1 DEF l
    <3> QED
      BY <3>3, <3>4, <3>5, <3>6
  <2> QED
    BY <2>2, <2>3
<1> QED
  BY <1>1, AlwaysIInv, PTL

(* A form changes what it owns: overrides outlive every other edit of their *)
(* display, renames included, and the channels every other form.            *)
THEOREM FormsKeepTheRest == Spec => []EditsKeepTheRest
<1>1. IInv => EditsKeepTheRest
  BY DEF IInv, Columns, EditsKeepTheRest
<1> QED
  BY <1>1, AlwaysIInv, PTL

(* A limited account stays limited: its list is the one it was given, and   *)
(* an office on it cannot be deleted from under it (WithoutLocation,        *)
(* validateLocations).                                                      *)
THEOREM LimitsHold == Spec => []LimitedStaysLimited
<1>1. IInv => LimitedStaysLimited
  <2> SUFFICES ASSUME IInv, NEW u \in DOMAIN cfg.users, granted[u] # {},
                      NEW l \in Offices \cup {None}, CanSee(cfg.users[u], l)
               PROVE  l \in granted[u]
    BY DEF LimitedStaysLimited
  <2>1. cfg.users[u].offices = granted[u]
    BY DEF IInv, Columns
  <2>2. cfg.users[u].admin => cfg.users[u].offices = {}
    BY DEF IInv, Validate, validateLocations
  <2>3. Limited(cfg.users[u])
    BY <2>1, <2>2 DEF Limited
  <2> QED
    BY <2>1, <2>3 DEF CanSee
<1> QED
  BY <1>1, AlwaysIInv, PTL
=============================================================================
