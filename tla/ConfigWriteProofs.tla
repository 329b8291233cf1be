-------------------------- MODULE ConfigWriteProofs --------------------------
(***************************************************************************)
(* Proofs about ConfigWrite, for any writers, items, values and validity   *)
(* rule.  The argument: writeMu lets one handler at a time between Lock    *)
(* and Unlock (MutualExclusion), so what that handler persisted or         *)
(* published is still there at its next step (ProgressHolds), and every    *)
(* way out of the critical section leaves the banner and the derived       *)
(* tables in line with what was published.                                 *)
(***************************************************************************)
EXTENDS ConfigWrite, TLAPS

(* The config a broker starts from is valid, live and durable.              *)
LEMMA InitInv == Init => ConfigInv
<1> SUFFICES ASSUME Init PROVE ConfigInv
  OBVIOUS
<1> USE ConfigWriteAssumption DEF Init
<1>1. durable \in [Items -> Values] /\ live \in [Items -> Values]
  OBVIOUS
<1>2. Derive(durable) \in [Derived -> Values]
  BY <1>1 DEF Derive
<1>3. TypeOK
  BY <1>1, <1>2 DEF TypeOK, Handler, Idle
<1>4. AlwaysValid
  BY DEF AlwaysValid, Idle
<1>5. MutualExclusion
  BY DEF MutualExclusion, Critical, Idle
<1>6. ProgressHolds
  BY DEF ProgressHolds, Idle
<1>7. BannerTellsTheTruth
  BY DEF BannerTellsTheTruth
<1>8. DerivedFollows
  BY DEF DerivedFollows
<1> QED
  BY <1>3, <1>4, <1>5, <1>6, <1>7, <1>8 DEF ConfigInv

(* A handler that moves to another step changes nothing of the others'.     *)
LEMMA GotoFacts ==
    ASSUME TypeOK, NEW w \in Writers, NEW h \in Handler, wr' = [wr EXCEPT ![w] = h]
    PROVE  /\ wr' \in [Writers -> Handler]
           /\ wr'[w] = h
           /\ \A u \in Writers : u # w => wr'[u] = wr[u]
  BY DEF TypeOK

(* The records a step leaves in wr: the step is new, the copy is not.       *)
LEMMA Steps ==
    ASSUME TypeOK, NEW w \in Writers,
           NEW pc \in Critical \cup {"idle", "ready", "failed"}
    PROVE  /\ Goto(w, pc) =>
                 /\ wr' \in [Writers -> Handler]
                 /\ wr'[w].pc = pc /\ wr'[w].new = wr[w].new
                 /\ wr'[w].item = wr[w].item
                 /\ \A u \in Writers : u # w => wr'[u] = wr[u]
           /\ Reply(w) =>
                 /\ wr' \in [Writers -> Handler]
                 /\ wr'[w].pc = "idle"
                 /\ \A u \in Writers : u # w => wr'[u] = wr[u]
<1>1. wr[w] \in Handler
  BY DEF TypeOK
<1>2. [wr[w] EXCEPT !.pc = pc] \in Handler
  BY <1>1 DEF Handler
<1>3. ASSUME Goto(w, pc)
      PROVE  wr' = [wr EXCEPT ![w] = [wr[w] EXCEPT !.pc = pc]]
  BY <1>3 DEF Goto
<1>4. ASSUME Reply(w)
      PROVE  wr' = [wr EXCEPT ![w] = Idle]
  BY <1>4 DEF Reply
<1>5. Idle \in Handler
  BY DEF Idle, Handler
<1>6. [wr[w] EXCEPT !.pc = pc].new = wr[w].new /\ [wr[w] EXCEPT !.pc = pc].item = wr[w].item
      /\ [wr[w] EXCEPT !.pc = pc].pc = pc /\ Idle.pc = "idle"
  BY <1>1 DEF Handler, Idle
<1> QED
  BY <1>2, <1>3, <1>4, <1>5, <1>6, GotoFacts

(* A handler that loads the config and validates its edit (admin.go,        *)
(* manager.go, login.go) disturbs nobody: it holds no lock.                 *)
LEMMA EditInv ==
    ASSUME ConfigInv, NEW w \in Writers, NEW i \in Items, NEW v \in Values,
           NEW patch \in BOOLEAN, Edit(w, i, v, patch)
    PROVE  ConfigInv'
<1> DEFINE h == [pc |-> "ready", new |-> [live EXCEPT ![i] = v], item |-> {i}, patch |-> patch]
<1>1. h \in Handler
  BY DEF Edit, Handler
<1>2. /\ wr' \in [Writers -> Handler]
      /\ wr'[w] = h
      /\ \A u \in Writers : u # w => wr'[u] = wr[u]
  BY <1>1, GotoFacts DEF ConfigInv, Edit
<1>3. wr[w].pc = "idle" /\ h.new \in ValidConfigs
  BY DEF Edit
<1>4. TypeOK'
  BY <1>2 DEF ConfigInv, TypeOK, Edit
<1>5. AlwaysValid'
  BY <1>2, <1>3 DEF ConfigInv, AlwaysValid, Edit
<1>6. MutualExclusion'
  BY <1>2, <1>3 DEF ConfigInv, MutualExclusion, Critical, Edit
<1>7. ProgressHolds'
  BY <1>2 DEF ConfigInv, ProgressHolds, Refreshing, Edit
<1>8. Publishing' <=> Publishing
  BY <1>2, <1>3 DEF Publishing
<1>9. BannerTellsTheTruth' /\ DerivedFollows'
  BY <1>8 DEF ConfigInv, BannerTellsTheTruth, DerivedFollows, Derive, Edit
<1> QED
  BY <1>4, <1>5, <1>6, <1>7, <1>9 DEF ConfigInv

(* Taking writeMu, for applyConfig or for the in-memory password.           *)
LEMMA LockInv ==
    ASSUME ConfigInv, NEW w \in Writers, Lock(w) \/ PatchLock(w)
    PROVE  ConfigInv'
<1>1. PICK pc \in {"locked", "patching"} : Goto(w, pc)
  BY DEF Lock, PatchLock
<1>2. /\ wr' \in [Writers -> Handler]
      /\ wr'[w].pc = pc /\ wr'[w].new = wr[w].new
      /\ wr'[w].item = wr[w].item
      /\ \A u \in Writers : u # w => wr'[u] = wr[u]
  BY <1>1, Steps DEF ConfigInv, Critical
<1>3. /\ wr[w].pc \in {"ready", "failed"} /\ lock = NoWriter /\ lock' = w
      /\ UNCHANGED <<durable, live, derived, err, mode, last, writes, restarts>>
  BY DEF Lock, PatchLock
<1>4. TypeOK'
  BY <1>2, <1>3 DEF ConfigInv, TypeOK
<1>5. AlwaysValid'
  BY <1>2, <1>3 DEF ConfigInv, AlwaysValid
<1>6. MutualExclusion'
  BY <1>2, <1>3, ConfigWriteAssumption DEF ConfigInv, MutualExclusion, Critical
<1>7. ProgressHolds'
  BY <1>2, <1>3 DEF ConfigInv, ProgressHolds, Refreshing
<1>8. Publishing' <=> Publishing
  BY <1>2, <1>3 DEF Publishing
<1>9. BannerTellsTheTruth' /\ DerivedFollows'
  BY <1>3, <1>8 DEF ConfigInv, BannerTellsTheTruth, DerivedFollows, Derive
<1> QED
  BY <1>4, <1>5, <1>6, <1>7, <1>9 DEF ConfigInv

(* While a handler is in its critical section, no other is in one.          *)
LEMMA Alone ==
    ASSUME ConfigInv, NEW w \in Writers, wr[w].pc \in Critical
    PROVE  /\ lock = w
           /\ \A u \in Writers : u # w => wr[u].pc \notin Critical
           /\ wr[w].new \in ValidConfigs
  BY DEF ConfigInv, MutualExclusion, AlwaysValid, Critical

(* Persist, Store and PatchStore: steps inside the critical section.  The   *)
(* handler is publishing afterwards, so only ProgressHolds speaks of it.    *)
LEMMA InsideInv ==
    ASSUME ConfigInv, NEW w \in Writers, Persist(w) \/ Store(w) \/ PatchStore(w)
    PROVE  ConfigInv'
<1>1. PICK pc \in {"persisted", "stored", "patched"} : Goto(w, pc)
  BY DEF Persist, Store, PatchStore
<1>2. /\ wr' \in [Writers -> Handler]
      /\ wr'[w].pc = pc /\ wr'[w].new = wr[w].new
      /\ wr'[w].item = wr[w].item
      /\ \A u \in Writers : u # w => wr'[u] = wr[u]
  BY <1>1, Steps DEF ConfigInv, Critical
<1>3. wr[w].pc \in Critical
  BY DEF Persist, Store, PatchStore, Critical
<1>4. /\ lock = w /\ lock' = w
      /\ UNCHANGED <<derived, err, mode, writes, restarts>>
      /\ durable' \in {durable, wr[w].new}
      /\ live' \in {live, wr[w].new}
      /\ last' \in {last, "derived", "plain", "patch"}
  BY <1>3, Alone DEF Persist, Store, PatchStore
<1>5. wr[w].new \in [Items -> Values]
  BY <1>3, Alone, ConfigWriteAssumption
<1>6. TypeOK'
  BY <1>2, <1>4, <1>5 DEF ConfigInv, TypeOK
<1>7. AlwaysValid'
  BY <1>2, <1>3, <1>4, Alone DEF ConfigInv, AlwaysValid, Critical
<1>8. MutualExclusion'
  BY <1>2, <1>3, <1>4 DEF ConfigInv, MutualExclusion, Critical
<1>9. ProgressHolds'
  <2>1. \A u \in Writers : u # w => wr'[u].pc \notin Critical
    BY <1>2, <1>3, Alone
  <2>2. Refreshing(w)' = Refreshing(w)
    BY <1>2 DEF Refreshing
  <2>3. CASE Persist(w)
    BY <1>2, <2>1, <2>3 DEF ProgressHolds, Persist, Critical, Goto, ConfigInv, TypeOK
  <2>4. CASE Store(w)
    <3>1. mode = "durable" => durable = wr[w].new
      BY <2>4 DEF ConfigInv, ProgressHolds, Store
    <3>2. wr'[w].pc = "stored"
      BY <2>4, Steps DEF Store, ConfigInv, Critical
    <3> QED
      BY <1>2, <2>1, <2>2, <2>4, <3>1, <3>2 DEF ProgressHolds, Store, Critical
  <2>5. CASE PatchStore(w)
    <3>1. wr'[w].pc = "patched"
      BY <2>5, Steps DEF PatchStore, ConfigInv, Critical
    <3> QED
      BY <1>2, <2>1, <2>5, <3>1 DEF ProgressHolds, PatchStore, Critical
  <2> QED
    BY <2>3, <2>4, <2>5
<1>10. Publishing'
  BY <1>2 DEF Publishing
<1>11. BannerTellsTheTruth' /\ DerivedFollows'
  BY <1>10 DEF BannerTellsTheTruth, DerivedFollows
<1> QED
  BY <1>6, <1>7, <1>8, <1>9, <1>11 DEF ConfigInv

(* PersistFails, Finish and PatchFinish: the ways out of the critical       *)
(* section.  Nobody is publishing afterwards, so the banner and the derived *)
(* tables have to be right.                                                 *)
LEMMA OutsideInv ==
    ASSUME ConfigInv, NEW w \in Writers, PersistFails(w) \/ Finish(w) \/ PatchFinish(w)
    PROVE  ConfigInv'
<1>1. Goto(w, "failed") \/ Reply(w)
  BY DEF PersistFails, Finish, PatchFinish
<1>2. /\ wr' \in [Writers -> Handler]
      /\ wr'[w].pc \in {"failed", "idle"}
      /\ wr'[w].pc = "failed" => wr'[w].new = wr[w].new
      /\ \A u \in Writers : u # w => wr'[u] = wr[u]
  BY <1>1, Steps DEF ConfigInv, Critical
<1>3. wr[w].pc \in Critical
  BY DEF PersistFails, Finish, PatchFinish, Critical
<1>4. wr[w].new \in [Items -> Values]
  BY <1>3, Alone, ConfigWriteAssumption
<1>5. Derive(wr[w].new) \in [Derived -> Values]
  BY <1>4, ConfigWriteAssumption DEF Derive
<1>6. /\ lock' = NoWriter
      /\ UNCHANGED <<live, mode, last, writes, restarts>>
      /\ err' \in BOOLEAN
      /\ durable' \in {durable, wr[w].new}
      /\ derived' \in {derived, Derive(wr[w].new)}
  BY DEF PersistFails, Finish, PatchFinish, ConfigInv, TypeOK
<1>7. TypeOK'
  <2>1. TypeOK
    BY DEF ConfigInv
  <2>2. durable' \in [Items -> Values] /\ live' \in [Items -> Values]
    BY <2>1, <1>4, <1>6 DEF TypeOK
  <2>3. derived' \in [Derived -> Values]
    BY <2>1, <1>5, <1>6 DEF TypeOK
  <2>4. writes' \in Nat /\ restarts' \in Nat /\ mode' \in {"durable", "none"}
        /\ last' \in {"start", "derived", "plain", "patch"}
    BY <2>1, <1>6 DEF TypeOK
  <2> QED
    BY <1>2, <1>6, <2>2, <2>3, <2>4 DEF TypeOK
<1>8. AlwaysValid'
  BY <1>2, <1>3, <1>6, Alone DEF ConfigInv, AlwaysValid, Critical
<1>9. \A u \in Writers : wr'[u].pc \notin Critical
  BY <1>2, <1>3, Alone DEF Critical
<1>10. MutualExclusion'
  BY <1>6, <1>9, ConfigWriteAssumption DEF MutualExclusion
<1>11. ProgressHolds'
  BY <1>9 DEF ProgressHolds, Critical
<1>12. BannerTellsTheTruth'
  <2>1. CASE PersistFails(w)
    BY <2>1 DEF PersistFails, BannerTellsTheTruth
  <2>2. CASE Finish(w)
    BY <2>2 DEF Finish, ConfigInv, ProgressHolds, BannerTellsTheTruth
  <2>3. CASE PatchFinish(w)
    BY <2>3 DEF PatchFinish, ConfigInv, ProgressHolds, BannerTellsTheTruth
  <2> QED
    BY <2>1, <2>2, <2>3
<1>13. DerivedFollows'
  <2>1. CASE PersistFails(w)
    <3>1. ~Publishing
      BY <2>1, <1>3, Alone DEF PersistFails, Publishing, Critical
    <3> QED
      BY <2>1, <3>1 DEF PersistFails, ConfigInv, DerivedFollows, Derive
  <2>2. CASE Finish(w)
    <3>1. live = wr[w].new /\ last = IF Refreshing(w) THEN "derived" ELSE "plain"
      BY <2>2 DEF Finish, ConfigInv, ProgressHolds
    <3> QED
      BY <2>2, <3>1 DEF Finish, DerivedFollows, Derive
  <2>3. CASE PatchFinish(w)
    <3>1. live = wr[w].new
      BY <2>3 DEF PatchFinish, ConfigInv, ProgressHolds
    <3> QED
      BY <2>3, <3>1 DEF PatchFinish, DerivedFollows, Derive
  <2> QED
    BY <2>1, <2>2, <2>3
<1> QED
  BY <1>7, <1>8, <1>10, <1>11, <1>12, <1>13 DEF ConfigInv

(* A restart begins again from the durable config, which is valid.          *)
LEMMA RestartInv == ASSUME ConfigInv, Restart PROVE ConfigInv'
<1> USE ConfigWriteAssumption
<1>1. /\ wr' = [w \in Writers |-> Idle]
      /\ lock' = NoWriter /\ err' = FALSE /\ last' = "start"
      /\ live' = durable /\ durable' = durable /\ mode' = mode
      /\ derived' = Derive(durable)
      /\ writes' = writes /\ restarts' = restarts + 1
  BY DEF Restart
<1>2. Derive(durable) \in [Derived -> Values]
  BY DEF ConfigInv, TypeOK, Derive
<1>3. TypeOK'
  <2>1. Idle \in Handler
    BY DEF Idle, Handler
  <2>2. wr' \in [Writers -> Handler]
    BY <1>1, <2>1
  <2>3. TypeOK
    BY DEF ConfigInv
  <2>4. durable' \in [Items -> Values] /\ live' \in [Items -> Values]
    BY <1>1, <2>3 DEF TypeOK
  <2>5. derived' \in [Derived -> Values]
    BY <1>1, <1>2
  <2>6. writes' \in Nat /\ restarts' \in Nat /\ mode' \in {"durable", "none"}
    BY <1>1, <2>3 DEF TypeOK
  <2> QED
    BY <1>1, <2>2, <2>4, <2>5, <2>6 DEF TypeOK
<1>4. AlwaysValid'
  BY <1>1 DEF ConfigInv, AlwaysValid, Idle
<1>5. MutualExclusion'
  BY <1>1 DEF MutualExclusion, Critical, Idle
<1>6. ProgressHolds'
  BY <1>1 DEF ProgressHolds, Idle
<1>7. BannerTellsTheTruth' /\ DerivedFollows'
  BY <1>1 DEF BannerTellsTheTruth, DerivedFollows, Derive
<1> QED
  BY <1>3, <1>4, <1>5, <1>6, <1>7 DEF ConfigInv

(* Every step of the broker preserves the inductive invariant.              *)
LEMMA StepInv == ConfigInv /\ [Next]_vars => ConfigInv'
<1> SUFFICES ASSUME ConfigInv, [Next]_vars PROVE ConfigInv'
  OBVIOUS
<1>1. ASSUME NEW w \in Writers, Submit(w) PROVE ConfigInv'
  BY <1>1, EditInv DEF Submit, SaveRoom, ManagerSaveWake, ChangePassword
<1>2. ASSUME NEW w \in Writers, Lock(w) \/ PatchLock(w) PROVE ConfigInv'
  BY <1>2, LockInv
<1>3. ASSUME NEW w \in Writers, Apply(w) \/ Patch(w) PROVE ConfigInv'
  BY <1>3, InsideInv, OutsideInv DEF Apply, Patch
<1>4. ASSUME Restart PROVE ConfigInv'
  BY <1>4, RestartInv
<1>5. ASSUME UNCHANGED vars PROVE ConfigInv'
  BY <1>5 DEF vars, ConfigInv, TypeOK, AlwaysValid, MutualExclusion, ProgressHolds,
              Refreshing, BannerTellsTheTruth, DerivedFollows, Publishing, Derive
<1> QED
  BY <1>1, <1>2, <1>3, <1>4, <1>5 DEF Next

(* The inductive invariant holds at all times: both copies of the config    *)
(* stay valid and writeMu excludes (configwrite.go, applyConfig).           *)
THEOREM ConfigInvariant == Spec => []ConfigInv
  BY InitInv, StepInv, PTL DEF Spec

(* When no save has failed since the last success, what is live is what a   *)
(* restart would load, unless a password was just kept in memory only.      *)
THEOREM BannerHolds == Spec => []BannerTellsTheTruth
<1>1. ConfigInv => BannerTellsTheTruth
  BY DEF ConfigInv
<1> QED
  BY <1>1, ConfigInvariant, PTL

(* The token, name and login tables follow every save that concerns them.   *)
THEOREM DerivedHolds == Spec => []DerivedFollows
<1>1. ConfigInv => DerivedFollows
  BY DEF ConfigInv
<1> QED
  BY <1>1, ConfigInvariant, PTL

(* No config goes live that is not durable already, but for a password kept *)
(* in memory (applyConfig persists first).                                  *)
THEOREM PersistedFirst == Spec => DurableFirst
<1>1. ConfigInv /\ [Next]_vars
        => [mode = "durable" /\ live' # live => live' = durable' \/ last' = "patch"]_vars
  <2> SUFFICES ASSUME ConfigInv, [Next]_vars, mode = "durable", live' # live
               PROVE  live' = durable' \/ last' = "patch"
    OBVIOUS
  <2>1. CASE Restart
    BY <2>1 DEF Restart
  <2>2. ASSUME NEW w \in Writers, Store(w)
        PROVE  live' = durable'
    BY <2>2 DEF Store, ConfigInv, ProgressHolds
  <2>3. ASSUME NEW w \in Writers, PatchStore(w)
        PROVE  last' = "patch"
    BY <2>3 DEF PatchStore
  <2> QED
    BY <2>1, <2>2, <2>3 DEF Next, vars, Submit, SaveRoom, ManagerSaveWake, ChangePassword,
       Edit, Lock, PatchLock, Apply, Patch, Persist, PersistFails, Finish, PatchFinish
<1> QED
  BY <1>1, ConfigInvariant, PTL DEF Spec, DurableFirst
=============================================================================
