----------------------------- MODULE ConfigWrite -----------------------------
(***************************************************************************)
(* How an edit of the fleet's configuration becomes durable and live.      *)
(* Every handler that changes it (the admin, manager and account pages,    *)
(* and the alert sender that drops a dead push subscription) loads the     *)
(* live *config.Config without a lock, edits and validates a copy, and     *)
(* hands the whole copy to applyConfig (configwrite.go), which persists    *)
(* it, publishes it and rebuilds the caches derived from it under writeMu. *)
(* A password change that could not be persisted goes live all the same,   *)
(* in a second critical section of its own (login.go).                     *)
(*                                                                         *)
(* A config is a function of its items: an item is what one form owns (the *)
(* rooms, the accounts, the wake defaults, the alert thresholds, the push  *)
(* subscriptions...), and a value is what the form may save there.         *)
(***************************************************************************)
EXTENDS Naturals

CONSTANTS Writers,       \* handlers that may run at the same time
          NoWriter,      \* writeMu is free
          Items, Values,
          Derived,       \* the items refreshDerived reads: tokens, names, logins
          Passwords,     \* the items a password change writes
          ValidConfigs,  \* the configs Validate accepts
          NoConfig,      \* a handler that is not editing
          MaxWrites, MaxRestarts     \* bounds

ASSUME ConfigWriteAssumption ==
    /\ NoWriter \notin Writers
    /\ Passwords \subseteq Derived
    /\ Derived \subseteq Items
    /\ ValidConfigs \subseteq [Items -> Values]
    /\ NoConfig \notin ValidConfigs
    /\ MaxWrites \in Nat
    /\ MaxRestarts \in Nat

VARIABLES durable,   \* the config in the file or the ConfigMap: the next start's
          live,      \* *config.Live
          derived,   \* the token, name and login tables (server.go)
          lock,      \* writeMu
          err,       \* persistState.lastErr is set: the red banner
          mode,      \* "durable" (file, configmap) or "none"
          wr,        \* Writer -> its handler: step, edited item and copy
          last,      \* history: what the last cfg.Store was
          writes, restarts           \* counters for the bounds

vars == <<durable, live, derived, lock, err, mode, wr, last, writes, restarts>>

Idle == [pc |-> "idle", new |-> NoConfig, item |-> {}, patch |-> FALSE]

(* refreshDerived: the caches hold what they need of a config. *)
Derive(c) == [i \in Derived |-> c[i]]

Refreshing(w) == wr[w].item \subseteq Derived

Goto(w, pc) == wr' = [wr EXCEPT ![w].pc = pc]

Reply(w) == wr' = [wr EXCEPT ![w] = Idle]

-----------------------------------------------------------------------------
(* Load and New: the config is read from its durable copy. *)
Init ==
    /\ durable \in ValidConfigs
    /\ live = durable
    /\ derived = Derive(durable)
    /\ lock = NoWriter
    /\ err = FALSE
    /\ mode \in {"durable", "none"}
    /\ wr = [w \in Writers |-> Idle]
    /\ last = "start"
    /\ writes = 0
    /\ restarts = 0

BugEditUnvalidated(w, i, v, patch) ==
    /\ wr[w].pc = "idle"
    /\ writes < MaxWrites
    /\ wr' = [wr EXCEPT ![w] = [pc |-> "ready", new |-> [live EXCEPT ![i] = v],
                                item |-> {i}, patch |-> patch]]
    /\ writes' = writes + 1
    /\ UNCHANGED <<durable, live, derived, lock, err, mode, last, restarts>>

(* A handler loads the live config, changes its item in a copy and          *)
(* validates the copy (config.With...).  One that is refused changes        *)
(* nothing and answers at once.                                             *)
Edit(w, i, v, patch) ==
    /\ wr[w].pc = "idle"
    /\ writes < MaxWrites
    /\ [live EXCEPT ![i] = v] \in ValidConfigs
    /\ wr' = [wr EXCEPT ![w] = [pc |-> "ready", new |-> [live EXCEPT ![i] = v],
                                item |-> {i}, patch |-> patch]]
    /\ writes' = writes + 1
    /\ UNCHANGED <<durable, live, derived, lock, err, mode, last, restarts>>

(* A form that owns something the derived caches hold: refreshCaches=true.  *)
SaveRoom(w, i, v) == i \in Derived /\ Edit(w, i, v, FALSE)

(* A form that owns something else: refreshCaches=false. *)
ManagerSaveWake(w, i, v) == i \in Items \ Derived /\ Edit(w, i, v, FALSE)

(* An account holder picks a password: the one edit that must not fail. *)
ChangePassword(w, i, v) == i \in Passwords /\ Edit(w, i, v, TRUE)

BugLockWithoutWaiting(w) ==
    /\ wr[w].pc = "ready"
    /\ lock' = w
    /\ Goto(w, "locked")
    /\ UNCHANGED <<durable, live, derived, err, mode, last, writes, restarts>>

(* applyConfig: writeMu.Lock. *)
Lock(w) ==
    /\ wr[w].pc = "ready"
    /\ lock = NoWriter
    /\ lock' = w
    /\ Goto(w, "locked")
    /\ UNCHANGED <<durable, live, derived, err, mode, last, writes, restarts>>

(* Store.Persist returns nil. *)
Persist(w) ==
    /\ wr[w].pc = "locked"
    /\ mode = "durable"
    /\ durable' = wr[w].new
    /\ Goto(w, "persisted")
    /\ UNCHANGED <<live, derived, lock, err, mode, last, writes, restarts>>

BugFailKeepsLock(w) ==
    /\ wr[w].pc = "locked"
    /\ mode = "durable"
    /\ durable' \in {durable, wr[w].new}
    /\ err' = TRUE
    /\ IF wr[w].patch THEN Goto(w, "failed") ELSE Reply(w)
    /\ UNCHANGED <<live, derived, lock, mode, last, writes, restarts>>

(* Store.Persist fails: the write never happened, or it did and the error   *)
(* came later (fsync of the directory after the rename, a PATCH that was    *)
(* applied but not answered in 5 s).  recordErr, unlock, and the error goes *)
(* back to the handler.                                                     *)
PersistFails(w) ==
    /\ wr[w].pc = "locked"
    /\ mode = "durable"
    /\ durable' \in {durable, wr[w].new}
    /\ err' = TRUE
    /\ lock' = NoWriter
    /\ IF wr[w].patch THEN Goto(w, "failed") ELSE Reply(w)
    /\ UNCHANGED <<live, derived, mode, last, writes, restarts>>

BugStoreFirst(w) ==
    /\ wr[w].pc \in {"locked", "persisted"}
    /\ live' = wr[w].new
    /\ last' = IF Refreshing(w) THEN "derived" ELSE "plain"
    /\ Goto(w, "stored")
    /\ UNCHANGED <<durable, derived, lock, err, mode, writes, restarts>>

(* cfg.Store: from here on every reader sees the new config. *)
Store(w) ==
    /\ wr[w].pc = IF mode = "durable" THEN "persisted" ELSE "locked"
    /\ live' = wr[w].new
    /\ last' = IF Refreshing(w) THEN "derived" ELSE "plain"
    /\ Goto(w, "stored")
    /\ UNCHANGED <<durable, derived, lock, err, mode, writes, restarts>>

(* refreshDerived if asked for, recordOK, unlock, and the handler replies   *)
(* "saved".                                                                 *)
Finish(w) ==
    /\ wr[w].pc = "stored"
    /\ derived' = IF Refreshing(w) THEN Derive(wr[w].new) ELSE derived
    /\ err' = FALSE
    /\ lock' = NoWriter
    /\ Reply(w)
    /\ UNCHANGED <<durable, live, mode, last, writes, restarts>>

(* handleChangePasswordSubmit after a failed applyConfig: it takes writeMu  *)
(* again to put the new password in force in memory only.                   *)
PatchLock(w) ==
    /\ wr[w].pc = "failed"
    /\ lock = NoWriter
    /\ lock' = w
    /\ Goto(w, "patching")
    /\ UNCHANGED <<durable, live, derived, err, mode, last, writes, restarts>>

PatchStore(w) ==
    /\ wr[w].pc = "patching"
    /\ live' = wr[w].new
    /\ last' = "patch"
    /\ Goto(w, "patched")
    /\ UNCHANGED <<durable, derived, lock, err, mode, writes, restarts>>

PatchFinish(w) ==
    /\ wr[w].pc = "patched"
    /\ derived' = Derive(wr[w].new)
    /\ lock' = NoWriter
    /\ Reply(w)
    /\ UNCHANGED <<durable, live, err, mode, last, writes, restarts>>

(* The broker stops, in the middle of whatever it was doing, and starts     *)
(* again from the durable config.                                           *)
Restart ==
    /\ restarts < MaxRestarts
    /\ live' = durable
    /\ derived' = Derive(durable)
    /\ lock' = NoWriter
    /\ err' = FALSE
    /\ wr' = [w \in Writers |-> Idle]
    /\ last' = "start"
    /\ restarts' = restarts + 1
    /\ UNCHANGED <<durable, mode, writes>>

Submit(w) == \E i \in Items, v \in Values :
    SaveRoom(w, i, v) \/ ManagerSaveWake(w, i, v) \/ ChangePassword(w, i, v)

Apply(w) == Persist(w) \/ PersistFails(w) \/ Store(w) \/ Finish(w)
Patch(w) == PatchStore(w) \/ PatchFinish(w)

Next ==
    \/ \E w \in Writers :
           Submit(w) \/ Lock(w) \/ Apply(w) \/ PatchLock(w) \/ Patch(w)
    \/ Restart

Spec == Init /\ [][Next]_vars

(* A handler that runs keeps running: the persist timeout ends Persist, and *)
(* Go's mutex hands the lock over in arrival order once a waiter has waited *)
(* 1 ms, so a handler that keeps asking gets it.                            *)
Fairness == \A w \in Writers :
    /\ WF_vars(Apply(w) \/ Patch(w))
    /\ SF_vars(Lock(w) \/ PatchLock(w))

FairSpec == Spec /\ Fairness

-----------------------------------------------------------------------------
Critical == {"locked", "persisted", "stored", "patching", "patched"}

(* The types of the variables. *)
Handler == [pc : Critical \cup {"idle", "ready", "failed"},
            new : ValidConfigs \cup {NoConfig}, item : SUBSET Items, patch : BOOLEAN]
TypeOK ==
    /\ durable \in [Items -> Values]
    /\ live \in [Items -> Values]
    /\ derived \in [Derived -> Values]
    /\ lock \in Writers \cup {NoWriter}
    /\ err \in BOOLEAN
    /\ mode \in {"durable", "none"}
    /\ wr \in [Writers -> Handler]
    /\ last \in {"start", "derived", "plain", "patch"}
    /\ writes \in Nat
    /\ restarts \in Nat

(* Both copies of the config pass Validate at all times, whatever edits run *)
(* at once and wherever a restart falls: a broker that restarts can load    *)
(* what the web pages wrote (config.go, Validate).                          *)
AlwaysValid ==
    /\ durable \in ValidConfigs
    /\ live \in ValidConfigs
    /\ \A w \in Writers : wr[w].pc # "idle" => wr[w].new \in ValidConfigs

(* writeMu is held by the handler that is between Lock and Unlock. *)
MutualExclusion == \A w \in Writers : wr[w].pc \in Critical <=> lock = w

(* What a handler has done so far is still so: nobody else persisted or     *)
(* published in between (configwrite.go, applyConfig's comment).            *)
ProgressHolds == \A w \in Writers :
    /\ wr[w].pc = "persisted" => mode = "durable" /\ durable = wr[w].new
    /\ wr[w].pc = "stored" =>
          /\ live = wr[w].new
          /\ mode = "durable" => durable = live
          /\ last = IF Refreshing(w) THEN "derived" ELSE "plain"
    /\ wr[w].pc = "patched" => live = wr[w].new /\ last = "patch"

Publishing == \E w \in Writers : wr[w].pc \in {"persisted", "stored", "patched"}

(* No red banner, no lie: when nobody is publishing and no save has failed  *)
(* since the last success, what is live is what a restart would load,       *)
(* unless the last thing published was a password kept in memory            *)
(* (configwrite.go: a human who is told "Saved" has been told the truth).   *)
BannerTellsTheTruth ==
    mode = "durable" /\ ~Publishing /\ ~err /\ last # "patch" => live = durable

(* The tables that devices and people are checked against follow every      *)
(* save that concerns them, the in-memory one included (server.go,          *)
(* refreshDerived).  A write that does not concern them may publish an      *)
(* older copy under them: the same lost update as in OnlyOwnItem.           *)
DerivedFollows == ~Publishing /\ last # "plain" => derived = Derive(live)

(* The inductive invariant. *)
ConfigInv ==
    /\ TypeOK
    /\ AlwaysValid
    /\ MutualExclusion
    /\ ProgressHolds
    /\ BannerTellsTheTruth
    /\ DerivedFollows

(* Persist first: no config goes live that is not durable already, but for  *)
(* a password kept in memory (configwrite.go, applyConfig).                 *)
DurableFirst ==
    [][mode = "durable" /\ live' # live => live' = durable' \/ last' = "patch"]_vars

(* Every edit is answered, saved or not: no handler waits for writeMu for   *)
(* ever, least of all a password change that takes it twice.                *)
EditsAreAnswered == \A w \in Writers : wr[w].pc # "idle" ~> wr[w].pc = "idle"

(* admin.go: "Start from the live alert config and change only the          *)
(* thresholds on this form": a save leaves the other items as they are.     *)
OnlyOwnItem ==
    [][\A w \in Writers : Store(w) =>
          \A i \in Items \ wr[w].item : live'[i] = live[i]]_vars
=============================================================================
