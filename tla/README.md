# Specifications of the e-ink signage fleet

TLA+ models of the program under `src/`: a Go broker that polls room calendars,
renders one picture per display and serves it to battery-powered e-paper
displays, and the firmware of those displays (C++ on an ESP32). The modules are
translated from the code; where the code and a document disagree the model
follows the code and the disagreement is a run of its own that is expected to
fail (see *Findings*).

## The system

| part | code | state it keeps | operations | talks to |
|---|---|---|---|---|
| room poller | `backend/internal/poller` | locals of the tick: config snapshot, goroutines | tick, fetch, publish, record an error | calendar API, cache, telemetry |
| payload cache | `internal/cache` | device -> entry (payload, ETag, last error, day of the last forced refresh) | `Get`, `Set`, `SetError`, `ShouldForceFullRefresh` | poller writes, display handler reads and marks |
| display handler | `internal/server/handlers.go` | none | conditional GET, telemetry POST | cache, config, telemetry, alerts |
| firmware wake cycle | `firmware/main` | RTC memory: hash of the picture shown, next wake, network failures, Wi-Fi cache | wake, connect, fetch, repaint, telemetry, OTA, sleep | broker over TLS |
| live config | `internal/config` (`Live`, `With...`, `Validate`) | one pointer to an immutable config | load, store, edit a copy | every reader |
| config write path | `internal/server/configwrite.go`, `internal/configstore`, `internal/kube`, `config/persist.go` | `writeMu`, the durable copy, the last persist error, the derived tables | `applyConfig`, `refreshDerived`, atomic file write, ConfigMap PATCH | admin, manager and account pages, alert sender |
| accounts and sessions | `internal/auth`, `server/login.go`, `scope.go` | session table (also on disk), login directory | login, forced password change, second factor, logout, revoke | config write path |
| one-time stores | `server/forgot_password.go`, `password_reset.go`, `provision.go` | reset tokens, temporary passwords, provisioning images, rate windows | put, peek, take, allow | accounts |
| telemetry store | `internal/telemetry` | latest report per device, bounded queue to a sink | ingest, write, prune, close, snapshot | SQLite, metrics, alerts |
| alert manager | `internal/notify`, `server/notifications.go` | per-device battery, charge and offline latches | evaluate, dispatch | channels |
| alert channels | `notify/larkapp.go`, `notify.go` (Slack), `webpush.go`, `config/notify.go`, `server/push.go` | tenant token; routes and subscriptions in the config | send, subscribe, prune | Lark, Slack, Web Push |
| admin, manager and location pages | `server/admin.go`, `admin_locations.go`, `admin_notifications.go`, `manager.go` | none: the config | save and delete displays, offices, accounts, channels | config write path |
| wake schedule | `config.go` 930-1078 | none | how long the display sleeps | display handler |
| rendering, encoding | `internal/render`, `firmware/main/protocol.hpp` | none | layout, palette, PackBits, header | poller, firmware |
| provisioning | `internal/nvs`, `server/provision.go` | one-time artefacts | NVS image, manifest | browser flasher |

What is hard about it, and what makes each part correct:

* The poller writes the cache from several goroutines while requests read it and
  admins change which display shows which room. A display must never be sent
  back in time, two panels of one room must not stay different, and an outage of
  the calendar must not blank a door.
* A device is asleep most of the time, its replies get lost, it is reset in the
  middle of a 30 s panel refresh, and all it remembers is a hash. A 304 must
  mean that the panel is right.
* Config edits run at the same time, persist to a file or a ConfigMap that can
  fail before or after its effect, and are cached in tables that devices and
  people are authenticated against. "Saved" must be true; a red banner must be
  there when it is not.
* Reports of devices go to memory and, through a bounded queue that never makes a
  device wait, to a file, while the server may be told to stop and goes on serving.
  No report may vanish uncounted, and a restart must not know less than the file.
* A display is offline when nothing arrives, measured against a sleep the broker
  itself last sent: people must hear of a dead display, once, and not of a healthy
  one.
* A message goes through channels that hang, refuse the token or lose their answer
  within one shared time limit: nobody may get it twice, and no channel may be
  left out because an earlier one failed.
* The sleep is computed by the broker, clamped again by the firmware and measured
  by a clock that drifts: a door must turn red when the meeting starts, not a
  sleep later, and a drifting timer must not cost two wakes for one.
* Displays, offices, accounts and channels name one another and are edited by a
  dozen forms in any order: no sequence of accepted edits may leave an alert with
  nobody to go to, or give a limited account the whole fleet.
* A session owes up to three things (a new password, a code, an enrolment), which
  come in any order, while admins reset and rename the account: nobody may get in
  who owes something, no session may outlive a reset, and the holder must get in.

## Modules

**`RoomBoard`** is the abstract promise: a board per device on which versions of
a room's calendar are posted, never an older one over a newer one of the same
room, except that a restart wipes it. It knows no ticks, goroutines or hashes.

**`RoomPoller`** models `poller.go` and `cache.go`: one action per step another
goroutine can get in between. `StartTick` snapshots the config (`refreshAll`
loads it once), `Spawn` starts the goroutine of an address under the semaphore,
`FetchAnswered` / `FetchFailed` end the API call, `Publish` / `RecordError` are
the loops over a room's displays (`Store.Set`, `Store.SetError`), `EndTick` is
`wg.Wait`. A calendar is the sequence of contents it has had, so an entry's
`version` says which answer it was rendered from, and its ETag only which
pixels; a booking that is cancelled gives a new version with old pixels.
`ConfigWrite` points displays at other rooms at any time, `Restart` empties
everything kept in memory.

**`DisplayPath`** extends it with what a picture goes through to reach a door:
`Wake` (RTC timer or touch), `Lookup` and `Answer` (the two halves of
`handleDisplay`, between which the poller may replace the entry), `Receive`,
`GiveUp` and `DropReply` (a reply arrives, or the device stops waiting while the
handler still runs), `PaintOk`, `PaintRefused` and `PaintTimesOut` (the outcomes of
`epd::show`), `Reset` (RTC memory is lost, possibly with a refresh under way) and
`BrokerRestart`. `panel` is what one would see on the door; `suspect` remembers
that the last refresh was not confirmed. `PanelIsABoard` shows that the panels
themselves implement `RoomBoard` as long as their controller is.

**`WakeSchedule`** holds the pure part of the broker's answer: `calendar.go`'s
current and next event and the moment the room's state changes next, and
`config.go`'s sleeps on the flat grid, through the night, and up to that moment
(smart). Its operators take times as arguments; nothing in it changes. A calendar is
a sequence of events sorted by start, as `normalize` leaves it (`IsCalendar`).

**`WakeCycle`** extends it with one display's chain of wakes and sleeps: Wi-Fi with
the access point pinned in RTC memory (`WifiFails`), the clock (`TimeFails`), the
fetch (`FetchFails`, `NoPayload`, `ReplyLost`), the picture (`Painted`,
`NotPainted`), a firmware update at the end of the wake (`Update`). Each ends in
`DeepSleep` with the sleep the firmware chooses, while `expected` is what the
broker believes it to be. Around it access points are replaced, settings changed,
versions advertised and power is cut. `now` is the time of the last wake: a step
goes from one wake to the next, with the drift of the RTC or a button in between.

**`ConfigWrite`** models every change of the configuration. A config is a
function from items to values, an item being what one form owns; `Edit` loads
the live config, changes an item in a copy and validates the copy, without a
lock. `Lock`, `Persist`, `PersistFails`, `Store`, `Finish` are `applyConfig` in
order; `PersistFails` may leave the durable copy changed (the directory fsync of
`WriteAtomic` fails after the rename; a PATCH is applied and its answer times
out). `PatchLock`, `PatchStore`, `PatchFinish` are the fallback of
`handleChangePasswordSubmit`, which puts a password in force in memory when it
cannot be saved. `derived` holds the token, name and login tables.

**`FleetConfig`** is the content of that config and every form that edits it: the
`With...` operations, `Validate` and its parts by their names, the room form with
and without `original_device_id` (`Unsent` is a field a form does not have), offices
and the default, channels, wake overrides of the manager page, accounts and their
offices, push subscriptions. A form is one step and a refused form none. `asked`,
`chosen` and `granted` remember what was last asked for.

**`Accounts`** has the accounts' other half: `LoginCheck` and `LoginCreate` (the two
halves of a login, between which a reset may fall), the session store with its
file (`SaveFile` may fail, and then only a log line tells), `requireRole`, forced
password change, code and enrolment, reset links behind the rate limiter,
temporary passwords that are shown once, and the Access panel. A reset may be cut
off by a stop between the saved config and `RevokeByUsername`, and a session's end may
not reach the file either. `ValidUsers` is `validateUsers`: it wants an admin among the
accounts, and accepts that there is no account. Passwords are "own",
"told" (temporary, and the holder knows it) or "temp"; `old` and `due` are history.

**`TelemetryStore`** models `telemetry.go` with `sqlite.go` behind it. `Ingest` is
the half of a POST under `mu`; `StartSend` and `Send` are the half under
`closeMu` (look at `closed`, send or drop), between which Close can fall.
`AppendRecord`, `AppendFails`, `WriterSeesDone` and `WriterStops` are the writer
goroutine; `Stop`, `CloseLocks`, `CloseQueue` and `CloseReturns` the end of `main`.
`Restart` may come at any time and reads the rows back (`NewWithSink`). A report is
its time; `count` has the two counters of the code (`failed`, `dropped`) and two of
the model (`ingested`, `written`). **`ReportBook`** is the abstract promise it implements:
per device the latest report, the reports under way, the one kept; a restart knows
what was kept. It knows no queue, goroutine or lock (`StoreIsABook`: memory, queue and
POSTs, table).

**`OfflineAlerts`** puts a display's wake cycle, the two fields of the telemetry
store that staleness depends on, and the offline latch of the alert manager
together. The display handler notes the new expected wake (`Fetch`) before the
device reports (`Report`); `Judge` is `checkStale` up to the snapshot,
`TellOffline`, `TellRecovered` and `TellNothing` the outcomes of `EvaluateStale`.
Time is in ticks: ages grow with `Tick`, and a wake takes no tick. `told` and
`missed` are history: what people were told last, and whether the display failed a
check-in since its last report. A wake without Wi-Fi ends in the default sleep or
in the backed-off one of four times that (`ConnectFails`).

**`AlertDelivery`** follows the other two messages to the people: `ReportOf` is one
report with `EvaluateBattery` and `EvaluateCharging`; from `Dispatch` on a message
takes its turns (`Multi`) in the order `alerts.channels` has them; `todo` is what is
left of it. Lark's turn: `ReadRoute`, `ReadDelivery` and `ReadFallback` are its three
loads of the config, `NextLark` the order of targets, `GetToken` and `TokenRefused`
the tenant token. Slack's is one request. The browsers are those subscribed when
their turn comes (`ReadSubscriptions`; `PushGone` removes one). Every request, whether
it succeeds, fails or loses its answer, takes any part (`Costs`) of what is left of the
ten seconds all channels share, eight at most; so does the save of a removal, without
that limit. When nothing is left, what remains is tried without a request (`OutOfTime`,
`unsent`). `slow` counts what took time. `got` and `failed` differ where an answer is
lost.

`MC...` modules only give constants their values for TLC; `...Proofs` hold the
theorems. `RoomPoller` is extended by `DisplayPath`, `WakeSchedule` by `WakeCycle`;
the others meet where one leaves a step to another: `ConfigWrite` says how any two
forms overlap and `FleetConfig` and `Accounts` what a form does; `OfflineAlerts`
takes any sleep the broker may send, and `WakeCycle` says which it sends.

## Runs

| run | checks | bounds and why they are enough |
|---|---|---|
| `room_poller` | `PollerInv`, `SettledDisplaysAgree`, `SettledEntryIsOfItsRoom`, `CacheCatchesUp`, `CacheIsABoard` | two displays and two rooms let displays share a room, swap rooms, and be in groups of two configs; two versions let an answer be older than the calendar; a fan-out of 2 lets two goroutines overlap; a write and a restart can fall anywhere in a tick |
| `display_path` | `PathInv`, `NotModifiedIsTrue`, `PanelIsABoard` | one display suffices: devices share nothing but the poller, which the run above checks with two; two rooms of one another's content, one reset, one broker restart, the forced refresh of one day |
| `display_path_live` | `PanelCatchesUp` | one room, without the forced refresh, which repaints what is shown; one reset at any point |
| `wake_cycle` | `WakeInv`, `StatusShownOnTime`, `FreshAnswerIsExpected`, `FlatWakesOncePerSlot`, `RoamCostsOneWake` | the unit is half a minute; day and longest sleep are shortened and keep their order to intervals and night. Three calendars (none, back to back, nested and late), three settings, looks 0 or 2 minutes old, a drift of a unit either way, a button, one change of the world. Wakes are followed through a morning, the end of a working day and the next day off: the edges of the business hours, of meetings and of the clamp |
| `config_write` | `ConfigInv`, `BannerTellsTheTruth`, `DurableFirst`, `EditsAreAnswered` | two handlers, three edits and a restart; three items: one that needs the derived tables (`room`), one that a password change writes (`login`) and one that needs neither (`wake`), two of them constrained by `Validate` |
| `config_write_own_item` | `OnlyOwnItem`, expected to fail | as above |
| `fleet_config` | `FleetInv`, `LarkAlertsHaveARoute`, `EditsKeepTheRest`, `LimitedStaysLimited` | two displays of one calendar need labels; two offices make a default and another one; an account, a browser and three contacts (nobody, a person, a group only) meet every clause of `Validate`. All configs that forms can reach are visited |
| `fleet_config_rename` | `RenameWorks`, expected to fail | as above |
| `accounts` | `AccountsInv`, `FullMeansProved`, `ResetEndsSessions`, `LastAdminStays`, `HolderGetsIn` | an admin and somebody else can swap roles, and the admin alone can rename herself and delete what she has become; two sessions let one be older than a reset; two upsets (edits, resets, faults, losses) in any order |
| `telemetry_store` | `StoreInv`, `LatestReportCarriesRepaint`, `StoreIsABook`, `StopEnds` | a queue of one, which two reports overflow and which is full after the writer has gone; two devices, of which one may be sending while the other finds the store closed; a stop and a restart anywhere |
| `offline_alerts` | `AlertInv`, `StaleIsJustified`, `RepeatsAreSpaced`, `DeadIsTold`, `RecoveryIsTold` | one display; sleeps of 1 and 3 ticks, so that two of the short one are over before one of the long one is; a backed-off sleep of 8; settings laxer and empty; ages to 7, above every threshold; a restart that keeps the reports (SQLite) |
| `alert_delivery` | `AlertDeliveryInv`, `NobodyLeftOut`, `MessagesAreDue`, `LowIsTold` | levels 0 to 2 cross both thresholds and the charged voltage; a route to a person, then browsers and Slack (the order the admin page saves), and a route with Slack first and then both, whose fallback is one of them; a send of two units of time, of which a request takes none or one and the save of a removal up to what is left; one upset (a save, a subscription, a restart) anywhere in a message |

What each passing run shows is in `PROJECT.json` beside it. Bounds on writes,
restarts, changes and upsets are guards of those actions alone; the system's own
steps are never bounded.

`CHECK_DEADLOCK FALSE` is set where something really stops: in `config_write`,
`fleet_config` and `accounts` nobody has to save another form (and a session ends
for good); `telemetry_store` ends with the process; `wake_cycle` stops at the end
of the hours it follows.

## Findings

Each of the two is a run whose counterexample shows it.

1. `config_write_own_item`: two edits that overlap. The later one to be published
   was made from an older copy and silently undoes the earlier one (`admin.go:256`
   says only the form's own fields change; the copy is loaded before
   `configwrite.go:102` holds `writeMu`). When the later one does not refresh the
   derived tables (`manager.go:121`), they keep what it has undone.
2. `fleet_config_rename`: `admin.go:1201` says a display can be renamed, and that the
   save removes the old entry. The copy is first validated with the old entry and
   the new one (`admin.go:174`, `config.go:741`); both are of one calendar, so
   `validateRoomLabels` (`config.go:699`) refuses every rename that does not change
   the label at the same time.

Seen on the way, not runs of their own, and why some properties are worded as they
are:

* `cache.go:60` promises the forced refresh "at most once per local calendar day",
  restarts excepted. The mark is part of the entry the poller replaces on every tick
  (`poller.go:166`), so a device that polls twice in the forced hour is forced twice;
  and one whose reply is lost is not forced again until the next tick has wiped the mark.
* `PROTOCOL.md:18` says `If-None-Match` is the hash of what the panel shows. After a
  refresh whose BUSY line timed out it is the hash of the picture before; hence the
  `suspect` panels of `NotModifiedIsTrue`.
* A display that wakes on time from a 6 h sleep and is sent a 10 minute one is
  measured against 20 minutes from that moment (`handlers.go:48`), and its last report
  is 6 h old until it has repainted and posted: a check in between (`notify.go:383`)
  sends "offline", and "back online" a minute later. It is one of the causes that
  `StaleIsJustified` names.
* With the SQLite backend a restart keeps the old report and loses the latch: a
  display that is still offline is reported again before `min_renotify`
  (`notify.go:293`). `RepeatsAreSpaced` excepts it.
* "Nothing was changed" (`configwrite.go:118`) is not always so on disk: `PersistFails`
  may have had its effect. `BannerTellsTheTruth` holds because the banner is red then.
* The in-memory password of `login.go:292` can go live after another handler's success
  has cleared the banner that was to announce it; `BannerTellsTheTruth` says so.
* `telemetry.go:239` says Close drains the queue. The writer leaves on `ctx.Done`
  when it finds the queue empty; a POST that queues its record after that and before
  `close(q)` leaves it there, neither written nor counted. `DrainLeavesLateOnly`
  (proved, with `EveryReportAccounted`) is what holds.
* The sleep up to a change of the room's state trails it by 30 s (`calendar.go:61`), the
  poller looks every two minutes. When the change a look saw coming has come by the
  time of the answer, the sleep is 0: the broker takes it for the shortest one
  (`config.go:1066`), the device for "none sent" and repeats its last. Hence `Fresh`
  in `FreshAnswerIsExpected`.
* `wifi_fast.cpp:27` says "One retry without the cached BSSID"; `connect()` clears the
  pin and gives up, so a replaced access point costs a wake (`RoamCostsOneWake`).
* A failed ADC reading is sent as 0 percent (`power.cpp:45`): the manager is told of a
  flat battery (`notify.go:243`) while `status.go:80` shows the device as ok.
* A charger that is unplugged so gently that no two reports in a row differ by 40 mV
  (`charge.go:48`) leaves the charge latched: the next full charge has no message.
* `larkapp.go:64` loads the config three times for one message; a save in between
  sends it by a route that never was.
* All channels of a message share ten seconds (`notify.go:341`), and each request may
  take eight (`larkapp.go:48`). Two slow ones, successes as well as failures, or the
  save of one removed subscription (`notifications.go:121`), leave the channels behind
  them no time: "Every channel is attempted" (`notify.go:103`) means then that its
  `Send` is called and fails at once. `NobodyLeftOut` says that less never does it.
* `admin.go:409` says deleting the last admin is rejected in `WithoutUser`, and so does
  `config.go:870`; `validateUsers` rejects accounts without an admin and accepts none at
  all (`config.go:638`). A sole admin who renames herself keeps a session of the old
  name, which passes the check for one's own account (`admin.go:411`) and may delete the
  last one; nobody can log in then. `AccountsInv` allows for it and `LastAdminStays`
  says that nothing else ends the last admin.
* Whether a subscription is too fresh to be removed after a 410 is judged by the copy
  read when the channel's turn came: one renewed since then is removed
  (`webpush.go:185`).
* A password that is too short uses up its reset link. A session that waits for a
  code of an account whose secret an admin has cleared is sent from page to page
  until a new login (`login.go:112`). Demoting the last admin by a rename leaves both
  accounts (`admin.go:389`).

## Fairness

The poller's ticks, goroutines and the request handlers are run by the Go
scheduler and are weakly fair. A calendar call that is made again every tick is
assumed to succeed now and then (strong fairness of `FetchAnswered`), as are a
request that a device repeats on every wake and a panel refresh it repeats after
every failure. Resets, restarts, admin writes, lost replies and failures are
never fair: they may happen, within the bounds, or not. `writeMu` is strongly fair: Go's
mutex enters starvation mode after 1 ms and then hands itself over in arrival order.
So is the write lock of `closeMu`, which lets no new reader in once it is asked for.
`OfflineAlerts` assumes the clock and the checks to go on, and nothing of the display.

`AlertDelivery`: a display reports, time passes and a send runs to its end, as every
request has a time limit (weak). Lark gives a token at once now and then, refuses a
bad one at once, and takes a message (strong); Slack and the push services may fail
for ever, so `LowIsTold` does not lean on them. `Accounts`: a login that has checked a
password goes on, sessions end by their 12 hours and windows of the rate limiter by
the clock (weak); a holder tries again and follows the pages shown (strong). No admin
has to do anything.
`WakeCycle` and `FleetConfig` claim no liveness: how late a panel may be is the
safety property `StatusShownOnTime`.

## Proofs

Every theorem holds for every value of the constants that the module's named
assumption allows: any number of displays, rooms, handlers, offices, accounts. They
are about the specification without fairness, which none needs.

* `DisplayPathProofs`, first part (`RoomPoller`). `PollerInvariant`: `PollerInv` is inductive: types,
  `WorkersAreDisjoint` (a display waits for at most one goroutine, because ticks do
  not overlap and groups of one snapshot are disjoint), `EntriesAreGenuine`,
  `WorkersAreNotBehind` (no goroutine holds an answer older than the entries it is
  going to replace). The last one makes the cache monotonic (`CacheMonotone`,
  `PayloadSurvives`) and, with `CacheRefinesBoard`, an implementation of `RoomBoard`.
  `PanelsOfARoomAgree` and `PayloadIsOfItsRoom` speak of the time between ticks only
  and say nothing of how a tick gets there; `SettledInv` says of a running tick which
  displays it has updated, that those agree, and that a goroutine still at work has
  the same outcome in store for the rest.
* `DisplayPathProofs`, second part (`DisplayPath`). `ServedInv` adds to `PollerInv` that all frames under way are
  genuine (`Honest`) and how a device's request, RTC memory and panel fit together
  (`Row`: the memory names what an undisturbed panel shows, a device that waits has
  asked about that, and a 304 is for a frame of the same pixels). From it `PathIsGenuine` and
  `NotModifiedTellsTheTruth`. `PanelRefinesBoard` needs more: `LineInv` orders a
  room's frames from the goroutines through cache, reply and device to the panel,
  each no newer than the one before, so that a late reply cannot overtake.
* `ConfigWriteProofs`. `ConfigInvariant`: types, validity, mutual exclusion and
  `ProgressHolds`, what a handler between two steps can rely on; from it
  `BannerHolds`, `DerivedHolds` and `PersistedFirst`.
* `FleetConfigProofs`. `IInv` is `Validate(cfg)` with the shape of the tables and
  `Columns`, which ties the histories to the tables. `Validate` alone gives
  `ConfigIsWhole` and `LarkReachesSomebody`: its clauses about offices, default and
  displays together imply what none says, that each display's office exists and has
  a target `LarkApp.Send` tries. `Columns` gives `FormsKeepTheRest` and, as the list
  of a limited account is never emptied by an edit of offices, `LimitsHold`.
* `AccountsProofs`. `IInv` says of every session, live, in the file or about to be
  made, that what it owes is marked on it (`Owes`) and that it is from before a reset
  only if `left` names its account (`Good`). From it `AdminOrNobody`,
  `HomeMeansProved` and `ResetsEndSessions`. `LastAdminOutlived` adds what a step may
  do: an edit that is saved and leaves an account leaves an admin (`SavedKeepsOne`), so
  the last admin goes only with the last account, and that only `DeleteUser` can take
  (`EmptiedByDelete`), which asks for an admin's session of another name.
* `TelemetryStoreProofs`. `StoreInvariant` and from it `ReportsAccounted`,
  `DrainHolds`, `DiskBehind`, `LatestCarriesRepaint`, `DiskMonotone` and `Remembered`.
  That the disk never goes back is not inductive: `SQLiteSink.Append` compares no
  times. What makes it so is `NewsInOrder` (the row, the records of the queue from its
  head, the memory: each no later than the next), which rests on `PostIsLatest` (a
  device has one POST at a time, so the record it queues is the latest news of it)
  and `RepaintsAreReported`. `StoreRefinesBook` maps every step to one of `ReportBook`:
  the row a record leaves is the record itself (`HeadRow`, the use of `NewsInOrder`; an
  upsert of a record without a repaint would mix two reports), and nothing comes to be
  under way but by `Ingest` (`NothingComesBack`).
* `WakeCycleProofs`. The assumptions: calendars are sorted, `TransitionBuffer` is not 0,
  the firmware's default sleep is within its own clamp, and the clock drifts over one
  sleep by no more than half the shortest (30 s of a minute; a longer sleep's drift is
  bounded by the same constant). Grids, intervals, windows, business hours and bounds
  are arbitrary. `IInv` is the three invariants of the run, types (`WorldOK`) and
  `OnItsGrid`: a flat sleep ends on the grid it was computed for, which the answer alone
  does not tell at the next wake. Under it lie `FlatSleepIsNextSlot` (the next point of
  the grid is on it, can be slept until, and none that could be was passed over), `Nearest`
  (a drifting wake is nearest to its own point), and for smart sleeps `MeetingLasts`
  and `PauseLasts` (sortedness makes what a panel shows last until an event ends or
  starts), `Transition` and `SmartSleep`. From `IInv` follow `SleepsAreSound`,
  `StatusComesOnTime`, `BrokerKnowsTheSleep`, and with `TimePasses` (how the time moves in
  a step) the action properties `RoamingCostsOneWake` and `OneWakePerSlot`.
* `OfflineAlertsProofs`. `AlertInv` is inductive as it stands (`LatchTellsTheTruth`);
  it gives `RepeatsWaitForRenotify`, as the latch's age is then the message's. A
  display that has missed nothing is `OnSchedule`: the age of its report and what is
  left of its sleep are no more than that sleep. A threshold is never less than two
  sleeps, if the broker knows which; hence `StaleHasACause`.
* `AlertDeliveryProofs`. `LatchInv` (`LatchesFollowReports`) ties the latches to what
  the reports showed, and gives `MessagesComeWhenDue`. `SendInv` follows one message:
  it is `Whole` (nobody twice; and its `Budget`: before anything has taken time all of it
  is left, after one request at least the rest of the ten seconds, and a turn without a
  request comes after two), and its `Turns` say, for channels in any order, what each
  leaves behind when its turn is over: `FallbackLast` and `LarkOver` of Lark's targets,
  Slack and the browsers tried. What Lark left out was right when its turn ended; that
  it still is when the message is through needs that Slack and the browsers are none of
  its targets, which is an assumption, as is that a request's limit is shorter than the
  message's. From it `NobodyHearsTwice` and `NobodyIsLeftOut`, for any number of targets
  and browsers, any order of the channels, and routes that are saved at any moment.

Model-checked only: everything temporal under fairness (`CacheCatchesUp`,
`PanelCatchesUp`, `EditsAreAnswered`, `HolderGetsIn`, `StopEnds`, `DeadIsTold`,
`RecoveryIsTold`, `LowIsTold`), which the prover cannot treat. Every invariant and every
action property of a passing run is also a theorem. The inductive invariants were checked
by TLC on the runs' instances before they were proved.

## Simplifications

* One display name per address: `refreshRoom`'s memo of composed pictures by name
  is not told apart from composing twice.
* The poller's reading of the clock is not modelled in `RoomPoller`: a content that
  changes because time passes is a `CalendarChange`. In `WakeCycle`, time is there and
  the calendar fixed.
* Handlers that load the live config twice (password change, 2FA, wake
  defaults, firmware) are modelled as loading it once; the window between the two
  loads only adds ways to lose an update.
* `MarshalForPersist` and its environment references are left out.
* A process crash loses nothing SQLite has committed; a power failure of the host,
  which with `synchronous=NORMAL` may lose the last transactions, is not modelled.
* A device has one POST under way at most: it wakes at most once a minute.
  `AlertDelivery` has one message at a time for the same reason.
* A room that is removed and added again is not modelled in `OfflineAlerts`.
* `AlertDelivery` assumes a low threshold below the charged voltage
  (`th.low < DoneMV - 1`), which nothing validates (`admin.go:262`). Without it one report
  could be due both messages; the model would send the low one only. Waiting for
  the token lock while another display's message fetches one takes time too, and is not
  there.
* `OfflineAlerts` does not count failures in a row: a wake without Wi-Fi may end in the
  backed-off sleep from the first failure on.
* Two names, addresses or tokens are equal or not: case folding is not modelled.
* In `FleetConfig` and `Accounts` a form is one step. What overlapping forms do to each
  other is the same for all of them and is in `ConfigWrite`.
* In `Accounts` the holder's code is right whenever the phone has the account's secret;
  neither guessed codes nor the replay window of one are told apart. Sessions with
  equal fields are one.
* `ActivateChannels` after a saved channel form is part of the save; a message decided
  between the two goes to the channels before.
* A device's local time is the fleet's: zones with half-hour offsets shift the grid.

## Not modelled, and the plan

Partly or not at all, with the reason in `PROJECT.json`:

* Page layout, styles, drawing and dithering, PackBits, the NVS image: pure functions
  of one input, which the repository's tests compare byte for byte with another
  implementation's output.
* Start-up, routing, TLS, flags, command-line tools, scripts and manifests: wiring.
* Dashboard, status and metrics pages: read-only views over state modelled elsewhere.
* The one-time store of provisioning images; pruning and the history of samples, which
  nothing reads back; the rollback inside the OTA library; sensors.
* SQL, the calendar, Lark, Slack and push APIs: external, modelled by how the code
  uses them.

What the plan has left: a `WakeCycle` whose calendar changes between the poller's
looks; abstract specifications of the alert manager and of the config write path.
