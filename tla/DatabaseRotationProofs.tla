----------------------- MODULE DatabaseRotationProofs -----------------------
(***************************************************************************)
(* Proofs about DatabaseRotation, for all periods, settings and bounds:    *)
(* the records of rotations are true, the rotated password is kept, and    *)
(* the next rotation is always scheduled.  Each relates what the worker    *)
(* does now to what it read at the start of its cycle, maybe long after it *)
(* was stored, so the invariant says how the worker's copy, the informer's *)
(* and the stored version stand to each other.                             *)
(***************************************************************************)
EXTENDS DatabaseRotation, TLAPS

IsConfig(obj) ==
    /\ obj = [meta |-> obj.meta, rotation |-> obj.rotation, last |-> obj.last]
    /\ obj.meta \in Object
    /\ Exists(obj.meta) <=> obj.meta.gen # 0
    /\ obj.rotation \in [enable : BOOLEAN, period : 0..MaxAge]
    /\ obj.last \in 0..Never

Typed ==
    /\ since \in 0..Never /\ timer \in 0..MaxAge
    /\ queued \in BOOLEAN /\ issue \in BOOLEAN
    /\ current \in BOOLEAN /\ cacheCurrent \in BOOLEAN
    /\ lastGen \in Nat /\ conf.gen \in Nat
    /\ IsConfig(api) /\ IsConfig(cache) /\ IsConfig(inst)

(* Between two cycles the worker has no copy; an error ends in the status, *)
(* and what is recorded is a rotation of this very cycle.                  *)
Resting ==
    /\ pc = "idle" => inst = NoConfig
    /\ pc # "idle" => inst.meta.gen # 0
    /\ pc \in {"prepare", "write"} => ~inst.meta.deleting
    /\ pc \in {"cleanup", "removeFinalizer"} => inst.meta.deleting
    /\ issue => pc = "status"
    /\ pc = "record" => inst.last = 0

(* The informer's copy, and what the worker is about to record, are as     *)
(* true as what is recorded.                                               *)
IsReal(obj) == obj.last # Never => since <= obj.last

CopiesAreReal == IsReal(cache) /\ IsReal(inst)

(* Copies lag behind, and so does Vault.  A removed resource has           *)
(* generation 0, and a name that is used again goes on counting.           *)
Behind(old, new) == new = 0 \/ old <= new

(* A generation names a spec. *)
SameSpec(old, new) ==
    old.meta.gen # 0 /\ old.meta.gen = new.meta.gen
      => old.rotation = new.rotation /\ old.meta.deleting = new.meta.deleting

CacheOrder ==
    /\ \A g \in {api.meta.gen, cache.meta.gen, conf.gen} : g <= lastGen
    /\ Behind(cache.meta.gen, api.meta.gen) /\ SameSpec(cache, api)
    /\ Behind(conf.gen, api.meta.gen) /\ Behind(conf.gen, cache.meta.gen)
    /\ cacheCurrent => cache = api

CopyOrder ==
    /\ inst.meta.gen <= lastGen
    /\ Behind(inst.meta.gen, api.meta.gen) /\ SameSpec(inst, api)
    /\ Behind(inst.meta.gen, cache.meta.gen) /\ SameSpec(inst, cache)
    /\ pc # "idle" => conf.gen <= inst.meta.gen
    /\ current /\ pc # "idle" => inst.meta.gen = api.meta.gen

(* Behind the write Vault has the copy's configuration, and nothing is     *)
(* recorded for the first time that it has not.                            *)
InVault == inst.meta.deleting \/ inst.meta.gen <= conf.gen

Written ==
    /\ pc \notin {"idle", "prepare", "write"} /\ ~issue => InVault
    /\ current /\ pc # "idle" /\ inst.last # Never /\ api.last = Never => InVault

(* Once a rotation is recorded, a copy without the record is of a          *)
(* generation that Vault has: a cycle that starts from it may retrieve the *)
(* old password, but has nothing to write.                                 *)
Outdone(obj) == obj.last # Never \/ obj.meta.deleting \/ obj.meta.gen <= conf.gen

RotationKnown ==
    /\ pc = "write" /\ inst.last # Never => password = "none"
    /\ api.last # Never
         => Outdone(cache) /\ (pc \in {"prepare", "write"} => Outdone(inst))

(* What happens to the resource during a cycle queues it again, once the   *)
(* informer knows: behind the status, if it is not queued, the worker's    *)
(* copy is the stored one.                                                 *)
CopyFollows ==
    pc \in {"addFinalizer", "rotation"} /\ ~queued
    /\ Live /\ cache.meta.gen = api.meta.gen
      => inst.rotation = api.rotation /\ inst.last = api.last

Ages == Typed /\ Resting /\ RecordedIsReal /\ CopiesAreReal

RotationInv ==
    /\ Ages /\ CacheOrder /\ CopyOrder
    /\ Written /\ RotationKnown
    /\ CopyFollows /\ NextRotationDue

-----------------------------------------------------------------------------
(* Ages grow by one up to their bound, and Never stays. *)
LEMMA OlderAge ==
  ASSUME NEW a \in 0..Never
  PROVE  /\ Older(a) \in 0..Never
         /\ Older(a) = Never <=> a = Never
         /\ a < MaxAge => Older(a) = a + 1
         /\ \A b \in 0..Never : a <= b /\ b # Never => Older(a) <= Older(b)
  BY DatabaseConstants DEF Older, Never

(* The fields of a configuration. *)
LEMMA ConfigFields ==
  ASSUME NEW obj, IsConfig(obj)
  PROVE  /\ obj.meta.gen \in Nat /\ obj.meta.deleting \in BOOLEAN
         /\ obj.rotation.period \in 0..MaxAge /\ obj.last \in 0..Never
  BY DEF IsConfig, Object

(* The two shapes of an update: of the meta data, and of the record. *)
LEMMA ConfigUpdates ==
  ASSUME NEW obj, IsConfig(obj), NEW m \in Object, Exists(m) <=> m.gen # 0
  PROVE  /\ IsConfig([obj EXCEPT !.meta = m])
         /\ [obj EXCEPT !.meta = m].rotation = obj.rotation
         /\ [obj EXCEPT !.meta = m].last = obj.last
         /\ [obj EXCEPT !.meta = m].meta = m
  <1> DEFINE new == [obj EXCEPT !.meta = m]
  <1>1. new = [meta |-> m, rotation |-> obj.rotation, last |-> obj.last]
    BY DEF IsConfig
  <1>2. QED
    BY <1>1 DEF IsConfig

LEMMA ConfigRotated ==
  ASSUME NEW obj, IsConfig(obj), NEW a \in 0..Never
  PROVE  /\ IsConfig([obj EXCEPT !.last = a])
         /\ [obj EXCEPT !.last = a].rotation = obj.rotation
         /\ [obj EXCEPT !.last = a].last = a
         /\ [obj EXCEPT !.last = a].meta = obj.meta
  <1> DEFINE new == [obj EXCEPT !.last = a]
  <1>1. new = [meta |-> obj.meta, rotation |-> obj.rotation, last |-> a]
    BY DEF IsConfig
  <1>2. QED
    BY <1>1 DEF IsConfig

(* No configuration is no live one. *)
LEMMA NoConfigIs ==
  /\ IsConfig(NoConfig) /\ NoConfig.last = Never /\ ~Exists(NoConfig.meta)
  /\ NoConfig.meta.gen = 0 /\ NoConfig.rotation = NoRotation
  <1>1. Absent \in Object /\ ~Exists(Absent) /\ Absent.gen = 0
    BY DEF Absent, Object, Exists, CondTypes
  <1>2. QED
    BY <1>1, DatabaseConstants DEF IsConfig, NoConfig, NoRotation, Never

(* What the users and the worker do to the meta data: only a user's        *)
(* request gives it a new generation.                                      *)
LEMMA NewGenerations ==
  ASSUME NEW obj, IsConfig(obj), NEW g \in Nat, g # 0
  PROVE  /\ Created(g) \in Object /\ Created(g).gen = g /\ Exists(Created(g))
         /\ Exists(obj.meta)
              => /\ Edited(obj.meta, g) \in Object
                 /\ Edited(obj.meta, g).gen = g /\ Exists(Edited(obj.meta, g))
                 /\ MarkedDeleted(obj.meta, g, FALSE) \in Object
                 /\ MarkedDeleted(obj.meta, g, FALSE).gen = g
                 /\ Exists(MarkedDeleted(obj.meta, g, FALSE))
  BY DEF IsConfig, Created, Edited, MarkedDeleted, Absent, Object, Exists, CondTypes

LEMMA SameGeneration ==
  ASSUME NEW obj, IsConfig(obj), NEW fail \in BOOLEAN,
         NEW m \in {AddOrReplaceCondition(obj.meta, OutcomeCondition(fail)),
                    WithFinalizer(obj.meta)}
  PROVE  /\ m \in Object /\ m.gen = obj.meta.gen /\ m.deleting = obj.meta.deleting
         /\ Exists(m) <=> m.gen # 0
  <1> DEFINE meta == obj.meta
  <1>1. meta \in Object /\ (Exists(meta) <=> meta.gen # 0)
    BY DEF IsConfig
  <1> HIDE DEF meta
  <1>2. CASE m = WithFinalizer(meta)
    <2>1. /\ m.uid = meta.uid /\ m.gen = meta.gen /\ m.deleting = meta.deleting
          /\ m = [meta EXCEPT !.finalizer = TRUE]
      BY <1>1, <1>2 DEF WithFinalizer, Object
    <2>2. m \in Object
      BY <1>1, <2>1 DEF Object
    <2>3. QED
      BY <1>1, <2>1, <2>2 DEF Exists, meta
  <1>3. CASE m = AddOrReplaceCondition(meta, OutcomeCondition(fail))
    <2> DEFINE type == OutcomeCondition(fail)
    <2>1. type \in CondTypes
      BY DEF OutcomeCondition, CondTypes
    <2> HIDE DEF type
    <2>2. /\ m.uid = meta.uid /\ m.gen = meta.gen /\ m.deleting = meta.deleting
          /\ m.finalizer = meta.finalizer /\ m.held = meta.held
          /\ m.conds = [meta.conds EXCEPT ![type] = meta.gen]
          /\ m = [meta EXCEPT !.conds = m.conds]
      BY <1>1, <1>3 DEF AddOrReplaceCondition, Object, type
    <2>3. m.conds \in [CondTypes -> Nat]
      BY <1>1, <2>1, <2>2 DEF Object
    <2>4. m \in Object
      BY <1>1, <2>2, <2>3 DEF Object
    <2>5. QED
      BY <1>1, <2>2, <2>4 DEF Exists, meta
  <1>4. QED
    BY <1>2, <1>3 DEF meta

-----------------------------------------------------------------------------
(* The initial states satisfy the invariant. *)
LEMMA RotationInit == Init => RotationInv
  <1>1. SUFFICES ASSUME Init PROVE RotationInv
    OBVIOUS
  <1>2. /\ api = NoConfig /\ inst = NoConfig /\ cache = NoConfig
        /\ pc = "idle" /\ ~issue /\ conf.gen = 0 /\ lastGen = 0 /\ ~current
    BY <1>1 DEF Init
  <1>3. Typed
    <2>1. since \in 0..Never /\ timer \in 0..MaxAge
      BY <1>1, DatabaseConstants DEF Init, Never
    <2>2. /\ queued \in BOOLEAN /\ issue \in BOOLEAN
          /\ current \in BOOLEAN /\ cacheCurrent \in BOOLEAN
      BY <1>1 DEF Init
    <2>3. QED
      BY <1>2, <2>1, <2>2, NoConfigIs DEF Typed
  <1>4. Ages
    BY <1>2, <1>3, NoConfigIs DEF Ages, Resting, RecordedIsReal, CopiesAreReal, IsReal
  <1>5. CacheOrder /\ CopyOrder
    BY <1>2, NoConfigIs DEF CacheOrder, CopyOrder, Behind, SameSpec
  <1>6. Written /\ RotationKnown /\ CopyFollows /\ NextRotationDue
    BY <1>2, NoConfigIs
    DEF Written, RotationKnown, CopyFollows, NextRotationDue, Periodic, Live
  <1>7. QED
    BY <1>4, <1>5, <1>6 DEF RotationInv

(* The numbers and flags that the steps reason with. *)
LEMMA Known ==
  ASSUME RotationInv
  PROVE  /\ api.meta.gen \in Nat /\ cache.meta.gen \in Nat /\ inst.meta.gen \in Nat
         /\ api.meta.deleting \in BOOLEAN /\ cache.meta.deleting \in BOOLEAN
         /\ inst.meta.deleting \in BOOLEAN
         /\ conf.gen \in Nat /\ lastGen \in Nat
         /\ Exists(api.meta) <=> api.meta.gen # 0
         /\ Exists(cache.meta) <=> cache.meta.gen # 0
  BY ConfigFields DEF RotationInv, Ages, Typed, IsConfig

(* A request moves the stored version away from all copies, with a         *)
(* generation that none of them has; it leaves the recorded time or none.  *)
LEMMA RequestStep ==
  ASSUME RotationInv, NEW obj, Request(obj), IsConfig(obj),
         obj.last \in {api.last, Never}, obj.meta.gen \in {0, lastGen + 1}
  PROVE  RotationInv'
  <1>1. /\ api' = obj /\ lastGen' = lastGen + 1
        /\ cacheCurrent' = FALSE /\ current' = FALSE
        /\ UNCHANGED <<since, conf, cache, queued, timer, pc, inst, password, issue>>
    BY DEF Request, Bump, vault
  <1>2. /\ cache.meta.gen < lastGen + 1 /\ inst.meta.gen < lastGen + 1
        /\ conf.gen < lastGen + 1
    BY Known DEF RotationInv, CacheOrder, CopyOrder
  <1>3. Ages'
    <2>1. Typed'
      <3>1. IsConfig(api') /\ IsConfig(cache') /\ IsConfig(inst')
        BY <1>1 DEF RotationInv, Ages, Typed
      <3>2. Typed /\ lastGen' \in Nat
        BY <1>1, Known DEF RotationInv, Ages
      <3>3. QED
        BY <1>1, <3>1, <3>2 DEF Typed
    <2>2. Resting'
      BY <1>1 DEF RotationInv, Ages, Resting
    <2>3. RecordedIsReal' /\ CopiesAreReal'
      BY <1>1 DEF RotationInv, Ages, RecordedIsReal, CopiesAreReal, IsReal
    <2>4. QED
      BY <2>1, <2>2, <2>3 DEF Ages
  <1>4. CacheOrder' /\ CopyOrder'
    <2>1. /\ Behind(cache.meta.gen, obj.meta.gen) /\ SameSpec(cache, obj)
          /\ Behind(inst.meta.gen, obj.meta.gen) /\ SameSpec(inst, obj)
          /\ Behind(conf.gen, obj.meta.gen)
      BY <1>2, Known DEF Behind, SameSpec
    <2>2. CacheOrder /\ CopyOrder
      BY DEF RotationInv
    <2>3. CacheOrder'
      BY <1>1, <1>2, <2>1, <2>2, Known DEF CacheOrder, Behind, SameSpec
    <2>4. CopyOrder'
      BY <1>1, <1>2, <2>1, <2>2, Known DEF CopyOrder, Behind, SameSpec
    <2>5. QED
      BY <2>3, <2>4
  <1>5. Written' /\ RotationKnown'
    BY <1>1 DEF RotationInv, Written, InVault, RotationKnown, Outdone
  <1>6. CopyFollows' /\ NextRotationDue'
    <2>1. Live' => obj.meta.gen # cache.meta.gen
      BY <1>1, <1>2, Known DEF Live, IsConfig
    <2>2. QED
      BY <1>1, <2>1 DEF CopyFollows, NextRotationDue, Periodic
  <1>7. QED
    BY <1>3, <1>4, <1>5, <1>6 DEF RotationInv

LEMMA UserSteps ==
  ASSUME RotationInv, Create \/ Edit \/ Delete
  PROVE  RotationInv'
  <1> DEFINE g == lastGen + 1
  <1>1. IsConfig(api) /\ g \in Nat /\ g # 0
    BY Known DEF RotationInv, Ages, Typed
  <1> HIDE DEF g
  <1>2. ASSUME NEW m \in Object, Exists(m) <=> m.gen # 0,
               NEW r \in Rotations, NEW a \in 0..Never
        PROVE  IsConfig([meta |-> m, rotation |-> r, last |-> a])
    BY <1>2, DatabaseConstants DEF IsConfig
  <1>3. CASE Create
    <2>1. PICK r \in Rotations :
            Request([meta |-> Created(g), rotation |-> r, last |-> Never])
      BY <1>3 DEF Create, g
    <2>2. Created(g) \in Object /\ Created(g).gen = g /\ Exists(Created(g))
      BY <1>1, NewGenerations
    <2>3. Never \in 0..Never
      BY DatabaseConstants DEF Never
    <2>4. QED
      BY <1>1, <1>2, <2>1, <2>2, <2>3, RequestStep DEF g
  <1>4. CASE Edit
    <2> DEFINE m == Edited(api.meta, g)
    <2>1. PICK r \in Rotations :
            Request([meta |-> m, rotation |-> r, last |-> api.last])
      BY <1>4 DEF Edit, g
    <2>2. m \in Object /\ m.gen = g /\ Exists(m)
      BY <1>1, <1>4, NewGenerations DEF Edit
    <2>3. api.last \in 0..Never
      BY <1>1 DEF IsConfig
    <2> HIDE DEF m
    <2>4. QED
      BY <1>1, <1>2, <2>1, <2>2, <2>3, RequestStep DEF g
  <1>5. CASE Delete
    <2> DEFINE m == MarkedDeleted(api.meta, g, FALSE)
    <2>1. Request([api EXCEPT !.meta = m]) \/ Request(NoConfig)
      BY <1>5 DEF Delete, g
    <2>2. m \in Object /\ m.gen = g /\ Exists(m)
      BY <1>1, <1>5, NewGenerations DEF Delete
    <2> HIDE DEF m
    <2>3. QED
      BY <1>1, <2>1, <2>2, RequestStep, ConfigUpdates, NoConfigIs DEF g
  <1>6. QED
    BY <1>3, <1>4, <1>5

(* A change of the password touches no record; it may queue the resource.  *)
LEMMA ChangePasswordStep ==
  ASSUME RotationInv, ChangePassword
  PROVE  RotationInv'
  <1>1. /\ UNCHANGED <<since, api, cache, cacheCurrent, timer, pc, inst, current, issue>>
        /\ lastGen' = lastGen + 1
        /\ password = "none" => password' = "none"
    BY DEF ChangePassword, Bump, informer
  <1>2. queued' \in BOOLEAN /\ (queued => queued')
    <2>1. queued \in BOOLEAN
      BY DEF RotationInv, Ages, Typed
    <2>2. QED
      BY <2>1, Zenon DEF ChangePassword
  <1>3. conf'.gen = conf.gen
    BY DEF ChangePassword
  <1>4. Ages'
    BY <1>1, <1>2, <1>3, Known
    DEF RotationInv, Ages, Typed, Resting, RecordedIsReal, CopiesAreReal, IsReal, IsConfig
  <1>5. CacheOrder' /\ CopyOrder'
    BY <1>1, <1>3, Known DEF RotationInv, CacheOrder, CopyOrder, Behind, SameSpec
  <1>6. Written' /\ RotationKnown'
    BY <1>1, <1>3 DEF RotationInv, Written, InVault, RotationKnown, Outdone
  <1>7. CopyFollows' /\ NextRotationDue'
    BY <1>1, <1>2 DEF RotationInv, CopyFollows, NextRotationDue, Live, Periodic
  <1>8. QED
    BY <1>4, <1>5, <1>6, <1>7 DEF RotationInv

(* The informer catches up, and queues what has a new generation.          *)
LEMMA WatchStep ==
  ASSUME RotationInv, Watch
  PROVE  RotationInv'
  <1>1. /\ cache' = api /\ cacheCurrent' = TRUE
        /\ UNCHANGED <<since, conf, api, lastGen, timer, pc, inst, current,
                       password, issue>>
    BY DEF Watch, vault, kube, worker
  <1>2. queued' \in BOOLEAN /\ (queued' <=> queued \/ cache.meta.gen # api.meta.gen)
    <2>1. queued \in BOOLEAN
      BY DEF RotationInv, Ages, Typed
    <2>2. QED
      BY <2>1, Zenon DEF Watch
  <1>3. Ages'
    BY <1>1, <1>2
    DEF RotationInv, Ages, Typed, Resting, RecordedIsReal, CopiesAreReal, IsReal, IsConfig
  <1>4. CacheOrder' /\ CopyOrder'
    BY <1>1, Known DEF RotationInv, CacheOrder, CopyOrder, Behind, SameSpec
  <1>5. Written' /\ RotationKnown'
    BY <1>1 DEF RotationInv, Written, InVault, RotationKnown, Outdone
  <1>6. CopyFollows' /\ NextRotationDue'
    BY <1>1, <1>2 DEF RotationInv, CopyFollows, NextRotationDue, Live, Periodic
  <1>7. QED
    BY <1>3, <1>4, <1>5, <1>6 DEF RotationInv

(* With a tick the ages grow together and the appointment comes nearer.    *)
LEMMA TickStep ==
  ASSUME RotationInv, Tick
  PROVE  RotationInv'
  <1> DEFINE older == Older(api.last)  cached == Older(cache.last)
  <1>1. /\ since' = Older(since) /\ pc = "idle"
        /\ api' = [api EXCEPT !.last = older] /\ cache' = [cache EXCEPT !.last = cached]
        /\ timer' = (IF timer = 0 THEN 0 ELSE timer - 1)
        /\ UNCHANGED <<conf, lastGen, cacheCurrent, pc, inst, current, password, issue>>
    BY DEF Tick, worker
  <1>2. queued' \in BOOLEAN /\ (queued' <=> queued \/ timer = 1)
    <2>1. queued \in BOOLEAN
      BY DEF RotationInv, Ages, Typed
    <2>2. QED
      BY <2>1, Zenon DEF Tick
  <1>3. /\ api.last \in 0..Never /\ cache.last \in 0..Never
        /\ since \in 0..Never /\ timer \in 0..MaxAge
    BY DEF RotationInv, Ages, Typed, IsConfig
  <1>4. older \in 0..Never /\ cached \in 0..Never /\ Older(since) \in 0..Never
    BY <1>3, OlderAge
  <1>5. /\ IsConfig(api') /\ api'.last = older
        /\ api'.rotation = api.rotation /\ api'.meta = api.meta
        /\ IsConfig(cache') /\ cache'.last = cached
        /\ cache'.rotation = cache.rotation /\ cache'.meta = cache.meta
    <2> HIDE DEF older, cached
    <2>1. QED
      BY <1>1, <1>4, ConfigRotated DEF RotationInv, Ages, Typed
  <1>6. inst' = NoConfig /\ inst' = inst /\ ~issue' /\ pc' = "idle"
    BY <1>1 DEF RotationInv, Ages, Resting
  <1>7. Typed'
    <2>1. since' \in 0..Never /\ timer' \in 0..MaxAge
      BY <1>1, <1>3, <1>4, DatabaseConstants
    <2>2. Typed /\ IsConfig(inst')
      BY <1>6, NoConfigIs DEF RotationInv, Ages
    <2>3. QED
      BY <1>1, <1>2, <1>5, <2>1, <2>2 DEF Typed
  <1>8. Ages'
    <2>1. ASSUME NEW a \in 0..Never, a # Never => since <= a
          PROVE  Older(a) # Never => Older(since) <= Older(a)
      BY <1>3, <2>1, OlderAge
    <2>2. RecordedIsReal' /\ CopiesAreReal'
      BY <1>1, <1>3, <1>5, <1>6, <2>1, NoConfigIs
      DEF RotationInv, Ages, RecordedIsReal, CopiesAreReal, IsReal
    <2>3. Resting'
      BY <1>6 DEF Resting
    <2>4. QED
      BY <1>7, <2>2, <2>3 DEF Ages
  <1>9. CacheOrder' /\ CopyOrder'
    <2>1. cacheCurrent => cache = api
      BY DEF RotationInv, CacheOrder
    <2>2. cacheCurrent => cache' = api'
      BY <1>1, <2>1
    <2>3. QED
      BY <1>1, <1>5, <2>2 DEF RotationInv, CacheOrder, CopyOrder, Behind, SameSpec
  <1>10. Written' /\ RotationKnown' /\ CopyFollows'
    <2>1. (older # Never <=> api.last # Never) /\ (cached # Never <=> cache.last # Never)
      BY <1>3, OlderAge
    <2> HIDE DEF older, cached
    <2>2. QED
      BY <1>1, <1>5, <1>6, <2>1
      DEF RotationInv, Written, RotationKnown, Outdone, CopyFollows
  <1>11. NextRotationDue'
    <2>1. SUFFICES ASSUME Periodic', cache.meta.gen = api.meta.gen, ~queued' PROVE
                     older # Never /\ timer' # 0 /\ timer' <= api.rotation.period - older
      BY <1>5 DEF NextRotationDue
    <2>2. Periodic /\ ~queued /\ timer # 1
      BY <1>2, <1>5, <2>1 DEF Periodic, Live
    <2>3. api.last # Never /\ timer # 0 /\ timer <= api.rotation.period - api.last
      BY <1>1, <2>1, <2>2 DEF RotationInv, NextRotationDue
    <2>4. api.rotation.period \in 0..MaxAge
      BY DEF RotationInv, Ages, Typed, IsConfig
    <2>5. api.last < MaxAge
      BY <1>3, <2>2, <2>3, <2>4, DatabaseConstants DEF Never
    <2>6. older = api.last + 1 /\ older # Never
      BY <1>3, <2>5, OlderAge, DatabaseConstants DEF Never
    <2>7. QED
      BY <1>1, <1>3, <2>2, <2>3, <2>4, <2>6, DatabaseConstants
  <1>12. QED
    BY <1>8, <1>9, <1>10, <1>11 DEF RotationInv

-----------------------------------------------------------------------------
(* What is stored, cached and written stand as they should to each other.  *)
StoreInv ==
    /\ IsConfig(api) /\ IsConfig(cache) /\ cacheCurrent \in BOOLEAN
    /\ RecordedIsReal /\ IsReal(cache)
    /\ CacheOrder
    /\ api.last # Never => Outdone(cache)

(* The copy that is the stored version, with other meta data or a record,  *)
(* may be stored.                                                          *)
LEMMA StoreCopy ==
  ASSUME RotationInv, current = TRUE, pc \notin {"idle", "prepare", "write"},
         NEW obj, IsConfig(obj), obj.rotation = inst.rotation, obj.last = inst.last,
         obj.meta.gen = inst.meta.gen, obj.meta.deleting = inst.meta.deleting,
         api' = obj, cacheCurrent' = FALSE, UNCHANGED <<since, conf, lastGen, cache>>
  PROVE  StoreInv'
  <1>1. IsConfig(api') /\ IsConfig(cache') /\ IsReal(cache)' /\ RecordedIsReal'
    BY DEF RotationInv, Ages, Typed, CopiesAreReal, IsReal, RecordedIsReal
  <1>2. obj.meta.gen = api.meta.gen /\ inst.meta.gen # 0
    BY DEF RotationInv, Ages, Resting, CopyOrder
  <1>3. CacheOrder'
    BY <1>2 DEF RotationInv, CacheOrder, CopyOrder, Behind, SameSpec
  <1>4. api'.last # Never => Outdone(cache)'
    <2>1. CASE api.last # Never
      BY <2>1 DEF RotationInv, RotationKnown, Outdone
    <2>2. CASE api.last = Never /\ inst.last # Never
      <3>1. inst.meta.deleting \/ inst.meta.gen <= conf.gen
        BY <2>2 DEF RotationInv, Written, InVault
      <3>2. /\ cache.meta.gen <= inst.meta.gen
            /\ cache.meta.gen = 0 \/ inst.meta.gen <= cache.meta.gen
            /\ inst.meta.gen = cache.meta.gen
                 => inst.meta.deleting = cache.meta.deleting
        BY <1>2 DEF RotationInv, CacheOrder, CopyOrder, Behind, SameSpec
      <3>3. cache.meta.deleting \/ cache.meta.gen <= conf.gen
        BY <3>1, <3>2, Known
      <3>4. QED
        BY <3>3 DEF Outdone
    <2>3. QED
      BY <2>1, <2>2
  <1>5. QED
    BY <1>1, <1>3, <1>4 DEF StoreInv

LEMMA StoreNothing ==
  ASSUME RotationInv, UNCHANGED <<since, conf, lastGen, api, cache, cacheCurrent>>
  PROVE  StoreInv'
  BY DEF RotationInv, Ages, Typed, CopiesAreReal, IsReal, RecordedIsReal, CacheOrder,
         Behind, SameSpec, RotationKnown, Outdone, StoreInv, IsConfig

(* The end of a cycle leaves no copy behind.                               *)
LEMMA CycleEnds ==
  ASSUME RotationInv, Idle, StoreInv', NextRotationDue',
         UNCHANGED <<since, conf, lastGen>>,
         queued' \in BOOLEAN, timer' \in 0..MaxAge
  PROVE  RotationInv'
  <1>1. /\ inst' = NoConfig /\ issue' = FALSE /\ pc' = "idle" /\ current' = FALSE
    BY DEF Idle
  <1>2. Typed'
    BY <1>1, NoConfigIs DEF RotationInv, Ages, Typed, StoreInv
  <1>3. Ages'
    BY <1>1, <1>2, NoConfigIs DEF Ages, Resting, CopiesAreReal, IsReal, StoreInv
  <1>4. CopyOrder'
    <2>1. /\ api'.meta.gen \in Nat /\ cache'.meta.gen \in Nat /\ lastGen' \in Nat
      BY ConfigFields, Known DEF StoreInv
    <2>2. QED
      BY <1>1, <2>1, NoConfigIs DEF CopyOrder, Behind, SameSpec
  <1>5. Written' /\ RotationKnown' /\ CopyFollows'
    BY <1>1, NoConfigIs DEF Written, RotationKnown, CopyFollows, StoreInv
  <1>6. QED
    BY <1>3, <1>4, <1>5 DEF RotationInv, StoreInv

(* A cycle that is repeated needs no appointment.                          *)
LEMMA RetryStep ==
  ASSUME RotationInv, Retry, StoreInv', UNCHANGED <<since, conf, lastGen>>
  PROVE  RotationInv'
  <1>1. Idle /\ queued' = TRUE /\ timer' = timer
    BY DEF Retry
  <1>2. NextRotationDue'
    BY <1>1 DEF NextRotationDue
  <1>3. timer' \in 0..MaxAge
    BY <1>1 DEF RotationInv, Ages, Typed
  <1>4. QED
    BY <1>1, <1>2, <1>3, CycleEnds

(* A step within a cycle, of those that write to Vault or fail.            *)
LEMMA WithinCycle ==
  ASSUME RotationInv, pc # "idle", since' \in {since, 0},
         UNCHANGED <<api, lastGen, cache, cacheCurrent, timer, queued, inst, current>>,
         \/ conf'.gen = conf.gen
         \/ pc = "write" /\ conf'.gen = inst.meta.gen
         \/ pc = "cleanup" /\ conf'.gen = 0,
         issue' \in BOOLEAN, issue' => pc' = "status",
         pc' \in {"write", "status", "removeFinalizer"},
         pc' = "write" => pc = "prepare" /\ (inst.last # Never => password' = "none"),
         pc' = "removeFinalizer" => pc = "cleanup",
         pc' = "status" => issue' \/ (pc = "write" /\ inst.meta.gen <= conf'.gen)
  PROVE  RotationInv'
  <1>1. conf'.gen \in Nat /\ 0 \in 0..Never
    BY Known, DatabaseConstants DEF Never
  <1>2. Ages'
    <2>1. Typed'
      BY <1>1 DEF RotationInv, Ages, Typed, IsConfig
    <2>2. Resting'
      BY DEF RotationInv, Ages, Resting
    <2>3. RecordedIsReal' /\ CopiesAreReal'
      BY DEF RotationInv, Ages, RecordedIsReal, CopiesAreReal, IsReal, Typed, IsConfig
    <2>4. QED
      BY <2>1, <2>2, <2>3 DEF Ages
  <1>3. CacheOrder'
    BY <1>1, Known DEF RotationInv, CacheOrder, CopyOrder, Behind, SameSpec
  <1>4. CopyOrder'
    BY <1>1, Known DEF RotationInv, CopyOrder, Behind, SameSpec
  <1>5. InVault => InVault' \/ pc = "cleanup"
    BY Known DEF RotationInv, CopyOrder, InVault
  <1>6. Written'
    BY <1>5 DEF RotationInv, Ages, Resting, Written, InVault
  <1>7. RotationKnown'
    <2>1. ASSUME api.last # Never PROVE Outdone(cache)'
      <3>1. Outdone(cache)
        BY <2>1 DEF RotationInv, RotationKnown
      <3>2. CASE conf.gen <= conf'.gen
        BY <1>1, <3>1, <3>2, Known DEF Outdone
      <3>3. CASE pc = "cleanup" /\ conf'.gen = 0
        <4>1. inst.meta.deleting /\ inst.meta.gen # 0 /\ conf.gen <= inst.meta.gen
          BY <3>3 DEF RotationInv, Ages, Resting, CopyOrder
        <4>2. cache.meta.gen = 0 \/ inst.meta.gen <= cache.meta.gen
          BY DEF RotationInv, CopyOrder, Behind
        <4>3. inst.meta.gen = cache.meta.gen => cache.meta.deleting
          BY <4>1, Known DEF RotationInv, CopyOrder, SameSpec
        <4>4. QED
          BY <3>1, <3>3, <4>1, <4>2, <4>3, Known DEF Outdone
      <3>4. QED
        BY <3>2, <3>3, Known DEF RotationInv, CopyOrder
    <2>2. QED
      BY <2>1 DEF RotationInv, RotationKnown, Outdone
  <1>8. CopyFollows' /\ NextRotationDue'
    BY DEF CopyFollows, NextRotationDue
  <1>9. QED
    BY <1>2, <1>3, <1>4, <1>6, <1>7, <1>8 DEF RotationInv

(* An error inside a cycle goes to the status. *)
LEMMA FailStep ==
  ASSUME RotationInv, pc # "idle", Fail, since' \in {since, 0},
         UNCHANGED <<conf, api, lastGen, cache, cacheCurrent>>
  PROVE  RotationInv'
  <1>1. /\ UNCHANGED <<inst, current, password, queued, timer>>
        /\ pc' = "status" /\ issue' = TRUE
    BY DEF Fail
  <1>2. QED
    BY <1>1, WithinCycle

-----------------------------------------------------------------------------
(* The worker's steps.  A cycle starts with what the informer has.         *)
LEMMA TakeStep ==
  ASSUME RotationInv, Take
  PROVE  RotationInv'
  <1>1. /\ pc = "idle" /\ queued' = FALSE
        /\ UNCHANGED <<since, conf, api, lastGen, cache, cacheCurrent, timer>>
    BY DEF Take, vault, kube, informer
  <1>2. inst = NoConfig /\ ~issue
    BY <1>1 DEF RotationInv, Ages, Resting
  <1>3. CASE ~Exists(cache.meta)
    <2>1. UNCHANGED <<pc, inst, current, password, issue>>
      BY <1>3 DEF Take, worker
    <2>2. Typed'
      BY <1>1, <2>1 DEF RotationInv, Ages, Typed, IsConfig
    <2>3. Ages' /\ CacheOrder' /\ CopyOrder'
      BY <1>1, <2>1, <2>2 DEF RotationInv, Ages, Resting, CopiesAreReal, IsReal,
           RecordedIsReal, CacheOrder, CopyOrder, Behind, SameSpec
    <2>4. Written' /\ RotationKnown' /\ CopyFollows'
      BY <1>1, <2>1 DEF RotationInv, Written, InVault, RotationKnown, Outdone, CopyFollows
    <2>5. NextRotationDue'
      BY <1>1, <1>3, <2>1, Known DEF NextRotationDue, Periodic, Live
    <2>6. QED
      BY <2>3, <2>4, <2>5 DEF RotationInv
  <1>4. CASE Exists(cache.meta)
    <2>1. /\ inst' = cache /\ current' = cacheCurrent /\ UNCHANGED <<password, issue>>
          /\ pc' = (IF ~cache.meta.deleting THEN "prepare"
                    ELSE IF cache.meta.finalizer THEN "cleanup" ELSE "rotation")
      BY <1>4 DEF Take
    <2>2. \/ pc' = "prepare" /\ ~cache.meta.deleting
          \/ pc' \in {"cleanup", "rotation"} /\ cache.meta.deleting
      <3>1. CASE cache.meta.deleting
        BY <2>1, <3>1
      <3>2. CASE ~cache.meta.deleting
        BY <2>1, <3>2
      <3>3. QED
        BY <3>1, <3>2
    <2>3. Ages'
      BY <1>1, <1>2, <1>4, <2>1, <2>2, Known
      DEF RotationInv, Ages, Typed, Resting, CopiesAreReal, IsReal, RecordedIsReal, IsConfig
    <2>4. CacheOrder' /\ CopyOrder'
      BY <1>1, <1>4, <2>1, Known DEF RotationInv, CacheOrder, CopyOrder, Behind, SameSpec
    <2>5. Written' /\ RotationKnown'
      <3>1. cacheCurrent => cache.last = api.last
        BY DEF RotationInv, CacheOrder
      <3>2. QED
        BY <1>1, <2>1, <2>2, <3>1
        DEF RotationInv, Written, InVault, RotationKnown, Outdone
    <2>6. CopyFollows'
      <3>1. cache.meta.gen = api.meta.gen => cache.meta.deleting = api.meta.deleting
        BY <1>4, Known DEF RotationInv, CacheOrder, SameSpec
      <3>2. QED
        BY <1>1, <2>1, <2>2, <3>1 DEF CopyFollows, Live
    <2>7. NextRotationDue'
      BY <2>2 DEF NextRotationDue
    <2>8. QED
      BY <2>3, <2>4, <2>5, <2>6, <2>7 DEF RotationInv
  <1>5. QED
    BY <1>3, <1>4

LEMMA PrepareStep ==
  ASSUME RotationInv, Prepare
  PROVE  RotationInv'
  <1>1. pc = "prepare" /\ UNCHANGED <<since, conf, api, lastGen, cache, cacheCurrent>>
    BY DEF Prepare, vault, kube, informer
  <1>2. CASE Fail
    BY <1>1, <1>2, FailStep
  <1>3. CASE ~Fail
    <2>1. /\ pc' = "write" /\ UNCHANGED <<inst, current, issue, queued, timer>>
          /\ inst.last # Never => password' = "none"
      BY <1>3 DEF Prepare
    <2>2. ~issue /\ issue \in BOOLEAN
      BY <1>1 DEF RotationInv, Ages, Resting, Typed
    <2>3. QED
      BY <1>1, <2>1, <2>2, WithinCycle
  <1>4. QED
    BY <1>2, <1>3

(* What is equivalent is there; what is not is written.                    *)
LEMMA WriteStep ==
  ASSUME RotationInv, Write
  PROVE  RotationInv'
  <1>1. pc = "write" /\ UNCHANGED <<since, api, lastGen, cache, cacheCurrent>>
    BY DEF Write, kube, informer
  <1>2. ~issue /\ issue \in BOOLEAN /\ inst.meta.gen \in Nat
    BY <1>1, Known DEF RotationInv, Ages, Resting, Typed
  <1>3. conf' = conf \/ conf'.gen = inst.meta.gen
    BY DEF Write
  <1>4. CASE Fail
    <2>1. /\ pc' = "status" /\ issue' = TRUE
          /\ UNCHANGED <<inst, current, password, queued, timer>>
      BY <1>4 DEF Fail
    <2>2. QED
      BY <1>1, <1>3, <2>1, WithinCycle
  <1>5. CASE ~Fail
    <2>1. Goto("status") /\ conf'.gen = inst.meta.gen
      BY <1>5 DEF Write, Equivalent
    <2>2. pc' = "status" /\ UNCHANGED <<inst, current, password, issue, queued, timer>>
      BY <2>1 DEF Goto
    <2>3. QED
      BY <1>1, <1>2, <2>1, <2>2, WithinCycle
  <1>6. QED
    BY <1>4, <1>5

LEMMA CleanupStep ==
  ASSUME RotationInv, Cleanup
  PROVE  RotationInv'
  <1>1. pc = "cleanup" /\ UNCHANGED <<since, api, lastGen, cache, cacheCurrent>>
    BY DEF Cleanup, kube, informer
  <1>2. ~issue /\ issue \in BOOLEAN
    BY <1>1 DEF RotationInv, Ages, Resting, Typed
  <1>3. conf' = conf \/ conf'.gen = 0
    BY DEF Cleanup
  <1>4. /\ UNCHANGED <<inst, current, password, queued, timer>>
        /\ \/ pc' = "status" /\ issue' = TRUE
           \/ pc' = "removeFinalizer" /\ UNCHANGED issue
    BY DEF Cleanup, Goto, Fail
  <1>5. conf'.gen = conf.gen \/ conf'.gen = 0
    BY <1>3
  <1>6. CASE pc' = "status" /\ issue' = TRUE
    BY <1>1, <1>4, <1>5, <1>6, WithinCycle
  <1>7. CASE pc' = "removeFinalizer" /\ issue' = issue
    BY <1>1, <1>2, <1>4, <1>5, <1>7, WithinCycle
  <1>8. QED
    BY <1>4, <1>6, <1>7

(* The resource is stored as the copy has it, with other meta data; the    *)
(* cycle goes on from there, or is repeated.                               *)
LEMMA StoredStep ==
  ASSUME RotationInv, pc \in {"status", "addFinalizer"},
         NEW m \in {AddOrReplaceCondition(inst.meta, OutcomeCondition(issue)),
                    WithFinalizer(inst.meta)},
         UNCHANGED <<since, conf, lastGen, cache>>,
         \/ /\ Store([inst EXCEPT !.meta = m]) /\ inst' = [inst EXCEPT !.meta = m]
            /\ ~issue /\ pc' \in {"rotation", "addFinalizer"}
            /\ UNCHANGED <<current, password, issue, queued, timer>>
         \/ Store([inst EXCEPT !.meta = m]) /\ Retry
         \/ Rejected /\ Retry
  PROVE  RotationInv'
  <1> DEFINE new == [inst EXCEPT !.meta = m]
  <1>1. IsConfig(inst) /\ issue \in BOOLEAN /\ current \in BOOLEAN
    BY DEF RotationInv, Ages, Typed
  <1>2. /\ m \in Object /\ m.gen = inst.meta.gen /\ m.deleting = inst.meta.deleting
        /\ Exists(m) <=> m.gen # 0
    BY <1>1, SameGeneration
  <1>3. /\ IsConfig(new) /\ new.rotation = inst.rotation /\ new.last = inst.last
        /\ new.meta.gen = inst.meta.gen /\ new.meta.deleting = inst.meta.deleting
    BY <1>1, <1>2, ConfigUpdates
  <1> HIDE DEF new
  <1>4. Store(new) => StoreInv'
    BY <1>1, <1>3, StoreCopy DEF Store
  <1>5. CASE Retry
    <2>1. Rejected => StoreInv'
      BY StoreNothing DEF Rejected
    <2>2. QED
      BY <1>4, <1>5, <2>1, RetryStep DEF new
  <1>6. CASE ~Retry
    <2>1. /\ api' = new /\ cacheCurrent' = FALSE /\ inst' = new /\ ~issue
          /\ pc' \in {"rotation", "addFinalizer"} /\ StoreInv'
          /\ UNCHANGED <<current, password, issue, queued, timer>>
      BY <1>4, <1>6 DEF new, Store
    <2>2. Typed'
      BY <1>3, <2>1 DEF RotationInv, Ages, Typed, IsConfig
    <2>3. Ages'
      BY <1>3, <2>1, <2>2
      DEF RotationInv, Ages, Resting, CopiesAreReal, IsReal, StoreInv
    <2>4. CopyOrder'
      BY <1>3, <2>1, Known DEF RotationInv, CopyOrder, Behind, SameSpec, CacheOrder, StoreInv
    <2>5. Written' /\ RotationKnown'
      BY <1>3, <2>1 DEF RotationInv, Written, InVault, RotationKnown, StoreInv
    <2>6. CopyFollows' /\ NextRotationDue'
      BY <2>1 DEF CopyFollows, NextRotationDue
    <2>7. QED
      BY <2>1, <2>3, <2>4, <2>5, <2>6 DEF RotationInv, StoreInv
  <1>7. QED
    BY <1>5, <1>6

LEMMA StatusStep ==
  ASSUME RotationInv, Status
  PROVE  RotationInv'
  <1> DEFINE m == AddOrReplaceCondition(inst.meta, OutcomeCondition(issue))
             new == [inst EXCEPT !.meta = m]
  <1>1. pc = "status" /\ UNCHANGED <<since, conf, lastGen, cache>>
    BY DEF Status, vault
  <1>2. \/ /\ Store(new) /\ inst' = new /\ ~issue
           /\ pc' \in {"rotation", "addFinalizer"}
           /\ UNCHANGED <<current, password, issue, queued, timer>>
        \/ Store(new) /\ Retry
        \/ Rejected /\ Retry
    BY DEF Status
  <1>3. m \in {AddOrReplaceCondition(inst.meta, OutcomeCondition(issue)),
               WithFinalizer(inst.meta)}
    OBVIOUS
  <1> HIDE DEF m
  <1>4. QED
    BY <1>1, <1>2, <1>3, StoredStep

LEMMA AddFinalizerStep ==
  ASSUME RotationInv, AddFinalizer
  PROVE  RotationInv'
  <1> DEFINE m == WithFinalizer(inst.meta)
             new == [inst EXCEPT !.meta = m]
  <1>1. /\ pc = "addFinalizer" /\ UNCHANGED <<since, conf, lastGen, cache>> /\ ~issue
    BY DEF AddFinalizer, vault, RotationInv, Ages, Resting
  <1>2. \/ /\ Store(new) /\ inst' = new
           /\ pc' \in {"rotation", "addFinalizer"}
           /\ UNCHANGED <<current, password, issue, queued, timer>>
        \/ Store(new) /\ Retry
        \/ Rejected /\ Retry
    BY DEF AddFinalizer
  <1>3. m \in {AddOrReplaceCondition(inst.meta, OutcomeCondition(issue)),
               WithFinalizer(inst.meta)}
    OBVIOUS
  <1> HIDE DEF m
  <1>4. QED
    BY <1>1, <1>2, <1>3, StoredStep

(* Without a resource nothing is recorded and nothing is due.              *)
LEMMA RemoveFinalizerStep ==
  ASSUME RotationInv, RemoveFinalizer
  PROVE  RotationInv'
  <1>1. pc = "removeFinalizer" /\ UNCHANGED <<since, conf, lastGen, cache>>
    BY DEF RemoveFinalizer, vault
  <1>2. CASE Rejected /\ Fail
    BY <1>1, <1>2, FailStep DEF Rejected
  <1>3. CASE ~(Rejected /\ Fail)
    <2>1. /\ api' = NoConfig /\ cacheCurrent' = FALSE /\ current' = FALSE
          /\ UNCHANGED <<inst, password, queued, timer>>
          /\ \/ pc' = "rotation" /\ UNCHANGED issue
             \/ pc' = "status" /\ issue' = TRUE
      BY <1>3 DEF RemoveFinalizer, Store
    <2>2. issue' \in BOOLEAN /\ (issue' => pc' = "status")
      <3>1. issue = FALSE
        BY <1>1 DEF RotationInv, Ages, Typed, Resting
      <3>2. QED
        BY <2>1, <3>1
    <2>3. Typed'
      BY <1>1, <2>1, <2>2, NoConfigIs DEF RotationInv, Ages, Typed, IsConfig
    <2>4. Ages'
      BY <1>1, <2>1, <2>2, <2>3, NoConfigIs
      DEF RotationInv, Ages, Resting, RecordedIsReal, CopiesAreReal, IsReal
    <2>5. CacheOrder' /\ CopyOrder'
      BY <1>1, <2>1, NoConfigIs, Known
      DEF RotationInv, CacheOrder, CopyOrder, Behind, SameSpec
    <2>6. inst.meta.deleting
      BY <1>1 DEF RotationInv, Ages, Resting
    <2>7. Written' /\ RotationKnown'
      BY <1>1, <2>1, <2>6, NoConfigIs DEF Written, InVault, RotationKnown
    <2>8. CopyFollows' /\ NextRotationDue'
      BY <2>1, NoConfigIs DEF CopyFollows, NextRotationDue, Periodic, Live
    <2>9. QED
      BY <2>4, <2>5, <2>7, <2>8 DEF RotationInv
  <1>4. QED
    BY <1>2, <1>3

(* What is due, and for how long nothing is. *)
LEMMA Due ==
  ASSUME NEW obj, IsConfig(obj)
  PROVE  /\ RotationDue(obj) => obj.rotation.enable
         /\ ~RotationDue(obj) /\ obj.rotation.enable /\ obj.rotation.period # 0
              => /\ obj.last # Never
                 /\ Remainder(obj) \in 1..MaxAge
                 /\ Remainder(obj) = obj.rotation.period - obj.last
  <1>1. obj.last \in 0..Never /\ obj.rotation.period \in 0..MaxAge
    BY DEF IsConfig
  <1> DEFINE a == obj.last  p == obj.rotation.period
  <1>2. ASSUME ~(100 * a > 95 * p), p # 0 PROVE p - a \in 1..MaxAge
    <2> HIDE DEF a, p
    <2>1. QED
      BY <1>1, <1>2, DatabaseConstants DEF a, p, Never
  <1>3. QED
    BY <1>2 DEF RotationDue, PeriodOver, Remainder

(* The rotation, when it is due, is on the copy only; when it is not, the  *)
(* next one is scheduled.                                                  *)
LEMMA RotateStep ==
  ASSUME RotationInv, Rotate
  PROVE  RotationInv'
  <1>1. /\ pc = "rotation" /\ ~issue /\ IsConfig(inst)
        /\ UNCHANGED <<api, lastGen, cache, cacheCurrent>>
    BY DEF Rotate, kube, informer, RotationInv, Ages, Resting, Typed
  <1>2. UNCHANGED conf
    BY DEF Rotate, vault
  <1>3. CASE ~RotationDue(inst) /\ UNCHANGED since
             /\ Done(IF inst.rotation.enable /\ inst.rotation.period # 0
                     THEN Remainder(inst) ELSE 0)
    <2> DEFINE after == IF inst.rotation.enable /\ inst.rotation.period # 0
                        THEN Remainder(inst) ELSE 0
    <2>1. /\ Idle /\ queued' = queued
          /\ timer' = (IF after = 0 \/ (timer # 0 /\ timer <= after)
                       THEN timer ELSE after)
      BY <1>3 DEF Done
    <2>2. after \in 0..MaxAge
      BY <1>1, <1>3, Due, DatabaseConstants
    <2>3. timer \in 0..MaxAge /\ queued \in BOOLEAN
      BY DEF RotationInv, Ages, Typed
    <2>4. timer' \in 0..MaxAge /\ queued' \in BOOLEAN
      <3> HIDE DEF after
      <3>1. QED
        BY <2>1, <2>2, <2>3
    <2>5. ASSUME Periodic', cache.meta.gen = api.meta.gen, ~queued'
          PROVE  api.last # Never /\ timer' # 0 /\ timer' <= api.rotation.period - api.last
      <3>1. Live /\ api.rotation.enable /\ api.rotation.period # 0 /\ ~queued
        BY <1>1, <2>1, <2>5 DEF Periodic, Live
      <3>2. inst.rotation = api.rotation /\ inst.last = api.last
        BY <1>1, <2>5, <3>1 DEF RotationInv, CopyFollows
      <3>3. /\ api.last # Never /\ after \in 1..MaxAge
            /\ after = api.rotation.period - api.last
        BY <1>1, <1>3, <3>1, <3>2, Due
      <3> HIDE DEF after
      <3>4. QED
        BY <2>1, <2>3, <3>3
    <2>6. NextRotationDue'
      BY <1>1, <2>5 DEF NextRotationDue
    <2>7. StoreInv'
      BY <1>1, <1>2, <1>3, StoreNothing
    <2>8. QED
      BY <1>1, <1>2, <1>3, <2>1, <2>4, <2>6, <2>7, CycleEnds
  <1>4. CASE since' = 0 /\ pc' = "record" /\ inst' = [inst EXCEPT !.last = 0]
             /\ UNCHANGED <<current, password, issue, queued, timer>>
    <2>1. 0 \in 0..Never /\ 0 # Never
      BY DatabaseConstants DEF Never
    <2>2. /\ IsConfig(inst') /\ inst'.rotation = inst.rotation
          /\ inst'.last = 0 /\ inst'.meta = inst.meta
      BY <1>1, <1>4, <2>1, ConfigRotated
    <2>3. Typed'
      BY <1>1, <1>2, <1>4, <2>1, <2>2 DEF RotationInv, Ages, Typed, IsConfig
    <2>4. Ages'
      BY <1>1, <1>4, <2>1, <2>2, <2>3
      DEF RotationInv, Ages, Resting, CopiesAreReal, RecordedIsReal, IsReal, Typed, IsConfig
    <2>5. CacheOrder' /\ CopyOrder'
      BY <1>1, <1>2, <1>4, <2>2
      DEF RotationInv, CacheOrder, CopyOrder, Behind, SameSpec
    <2>6. Written' /\ RotationKnown'
      BY <1>1, <1>2, <1>4, <2>2
      DEF RotationInv, Written, InVault, RotationKnown, Outdone
    <2>7. CopyFollows' /\ NextRotationDue'
      BY <1>4 DEF CopyFollows, NextRotationDue
    <2>8. QED
      BY <2>4, <2>5, <2>6, <2>7 DEF RotationInv
  <1>5. CASE Fail /\ since' \in {since, 0}
    BY <1>1, <1>2, <1>5, FailStep
  <1>6. QED
    BY <1>3, <1>4, <1>5 DEF Rotate, vault

(* A rotation of this cycle is recorded, and the next is a period ahead;   *)
(* or the record fails, and the cycle is repeated.                         *)
LEMMA RecordStep ==
  ASSUME RotationInv, Record
  PROVE  RotationInv'
  <1>1. /\ pc = "record" /\ UNCHANGED <<since, conf, lastGen, cache>> /\ ~issue
        /\ IsConfig(inst) /\ inst.last = 0 /\ current \in BOOLEAN
    BY DEF Record, vault, RotationInv, Ages, Resting, Typed
  <1>2. Store(inst) => StoreInv'
    BY <1>1, StoreCopy DEF Store
  <1>3. CASE Store(inst) /\ Done(inst.rotation.period)
    <2> DEFINE after == inst.rotation.period
    <2>1. /\ Idle /\ queued' = queued
          /\ timer' = (IF after = 0 \/ (timer # 0 /\ timer <= after)
                       THEN timer ELSE after)
      BY <1>3 DEF Done
    <2>2. after \in 0..MaxAge /\ timer \in 0..MaxAge /\ queued \in BOOLEAN
      BY <1>1 DEF IsConfig, RotationInv, Ages, Typed
    <2>3. timer' \in 0..MaxAge /\ (after # 0 => timer' # 0 /\ timer' <= after - 0)
      <3> HIDE DEF after
      <3>1. QED
        BY <2>1, <2>2
    <2>4. NextRotationDue'
      <3>1. Never # 0
        BY DatabaseConstants DEF Never
      <3>2. QED
        BY <1>1, <1>3, <2>3, <3>1 DEF NextRotationDue, Periodic, Store
    <2>5. QED
      BY <1>1, <1>2, <1>3, <2>1, <2>2, <2>3, <2>4, CycleEnds
  <1>4. CASE Store(inst) /\ pc' = "status" /\ issue' = TRUE /\ current' = FALSE
             /\ UNCHANGED <<inst, password, queued, timer>>
    <2>1. StoreInv' /\ api' = inst
      BY <1>2, <1>4 DEF Store
    <2>2. Typed'
      BY <1>1, <1>4, <2>1 DEF RotationInv, Ages, Typed, StoreInv, IsConfig
    <2>3. Ages'
      BY <1>1, <1>4, <2>1, <2>2
      DEF RotationInv, Ages, Resting, CopiesAreReal, IsReal, StoreInv
    <2>4. CopyOrder'
      BY <1>1, <1>4, <2>1, Known DEF RotationInv, CopyOrder, Behind, SameSpec
    <2>5. Written' /\ RotationKnown' /\ CopyFollows' /\ NextRotationDue'
      BY <1>4, <2>1 DEF Written, RotationKnown, CopyFollows, NextRotationDue, StoreInv
    <2>6. QED
      BY <2>1, <2>3, <2>4, <2>5 DEF RotationInv, StoreInv
  <1>5. CASE Rejected /\ Fail
    BY <1>1, <1>5, FailStep DEF Rejected
  <1>6. QED
    BY <1>3, <1>4, <1>5 DEF Record

(* After a restart the informer lists anew and every resource is queued.   *)
LEMMA CrashStep ==
  ASSUME RotationInv, Crash
  PROVE  RotationInv'
  <1>1. /\ Idle /\ queued' = Exists(api.meta) /\ timer' = 0
        /\ cache' = api /\ cacheCurrent' = TRUE
        /\ UNCHANGED <<since, conf, api, lastGen>>
    BY DEF Crash, vault, kube
  <1>2. queued' \in BOOLEAN /\ timer' \in 0..MaxAge
    BY <1>1, DatabaseConstants DEF Exists
  <1>3. StoreInv'
    <2>1. IsConfig(api') /\ IsConfig(cache') /\ RecordedIsReal' /\ IsReal(cache)'
      BY <1>1 DEF RotationInv, Ages, Typed, RecordedIsReal, IsReal, IsConfig
    <2>2. CacheOrder'
      BY <1>1, Known DEF RotationInv, CacheOrder, Behind, SameSpec
    <2>3. QED
      BY <1>1, <2>1, <2>2 DEF StoreInv, Outdone
  <1>4. NextRotationDue'
    BY <1>1 DEF NextRotationDue, Periodic, Live
  <1>5. QED
    BY <1>1, <1>2, <1>3, <1>4, CycleEnds

-----------------------------------------------------------------------------
(* The invariant holds in every state of every behaviour.                  *)
THEOREM RotationInvariant == Spec => []RotationInv
  <1>1. Init => RotationInv
    BY RotationInit
  <1>2. RotationInv /\ [Next]_vars => RotationInv'
    <2>1. SUFFICES ASSUME RotationInv, [Next]_vars PROVE RotationInv'
      OBVIOUS
    <2>2. CASE Create \/ Edit \/ Delete
      BY <2>1, <2>2, UserSteps
    <2>3. CASE ChangePassword
      BY <2>1, <2>3, ChangePasswordStep
    <2>4. CASE Watch
      BY <2>1, <2>4, WatchStep
    <2>5. CASE Tick
      BY <2>1, <2>5, TickStep
    <2>6. CASE Take \/ Prepare \/ Write
      BY <2>1, <2>6, TakeStep, PrepareStep, WriteStep
    <2>7. CASE Status \/ AddFinalizer
      BY <2>1, <2>7, StatusStep, AddFinalizerStep
    <2>8. CASE Cleanup \/ RemoveFinalizer
      BY <2>1, <2>8, CleanupStep, RemoveFinalizerStep
    <2>9. CASE Rotate \/ Record
      BY <2>1, <2>9, RotateStep, RecordStep
    <2>10. CASE Crash
      BY <2>1, <2>10, CrashStep
    <2>11. CASE UNCHANGED vars
      <3>1. /\ UNCHANGED <<since, conf, api, lastGen, cache, cacheCurrent, timer, queued>>
            /\ UNCHANGED <<pc, inst, current, password, issue>>
        BY <2>11 DEF vars, vault, kube, informer, worker
      <3>2. Typed'
        BY <2>1, <3>1 DEF RotationInv, Ages, Typed, IsConfig
      <3>3. Ages' /\ CacheOrder' /\ CopyOrder'
        BY <2>1, <3>1, <3>2
        DEF RotationInv, Ages, Resting, RecordedIsReal, CopiesAreReal, IsReal,
            CacheOrder, CopyOrder, Behind, SameSpec
      <3>4. Written' /\ RotationKnown' /\ CopyFollows' /\ NextRotationDue'
        BY <2>1, <3>1 DEF RotationInv, Written, InVault, RotationKnown, Outdone,
                          CopyFollows, NextRotationDue, Periodic, Live
      <3>5. QED
        BY <3>3, <3>4 DEF RotationInv
    <2>12. QED
      BY <2>1, <2>2, <2>3, <2>4, <2>5, <2>6, <2>7, <2>8, <2>9, <2>10, <2>11
      DEF Next, Step
  <1>3. QED
    BY <1>1, <1>2, PTL DEF Spec

(* A rotation that the status records took place in Vault, and not before  *)
(* the time recorded: rotateRootPassword writes the time into the copy     *)
(* only after Vault has answered.                                          *)
THEOREM RotationsAreReal == Spec => []RecordedIsReal
  <1>1. RotationInv => RecordedIsReal
    BY DEF RotationInv, Ages
  <1>2. QED
    BY <1>1, RotationInvariant, PTL

(* Whatever events, failures and restarts there were, between two cycles,  *)
(* once the informer has seen the last edit, the next rotation of a        *)
(* periodic resource is ahead, and not later than a period after the       *)
(* recorded one: a cycle with an older copy than the stored one fails at   *)
(* its status update and is repeated.                                      *)
THEOREM NextIsScheduled == Spec => []NextRotationDue
  <1>1. RotationInv => NextRotationDue
    BY DEF RotationInv
  <1>2. QED
    BY <1>1, RotationInvariant, PTL

(* Only users' requests, the cycle's write and its cleanup change what     *)
(* Vault has.                                                              *)
LEMMA WhoWrites ==
  ASSUME lastGen \in Nat, Next, lastGen' = lastGen
  PROVE  conf' = conf \/ Write \/ Cleanup
  <1>1. ~(Create \/ Edit \/ Delete \/ ChangePassword)
    <2>1. ~Bump
      BY DEF Bump
    <2>2. QED
      BY <2>1 DEF Create, Edit, Delete, Request, ChangePassword
  <1>2. CASE Watch \/ Tick \/ Take \/ Prepare \/ Crash
    BY <1>2 DEF Watch, Tick, Take, Prepare, Crash, vault
  <1>3. CASE Status \/ AddFinalizer \/ RemoveFinalizer \/ Rotate \/ Record
    BY <1>3 DEF Status, AddFinalizer, RemoveFinalizer, Rotate, Record, vault
  <1>4. QED
    BY <1>1, <1>2, <1>3 DEF Next, Step

(* While a rotation is recorded no step of the operator replaces in Vault  *)
(* the password that only Vault knows, where there is no                   *)
(* databaseSpecificConfig.  A copy with the record retrieves no password;  *)
(* one without it is of a generation that Vault has, and retrieves with    *)
(* the password the username, so that IsEquivalentToDesiredState finds     *)
(* nothing to write.                                                       *)
THEOREM PasswordIsKept == Spec => ConnectionKept
  <1> DEFINE Kept == /\ ~db.specific /\ api.last # Never
                     /\ conf.gen # 0 /\ conf.good /\ lastGen' = lastGen
                     => conf'.gen = 0 \/ conf'.good
  <1>1. RotationInv /\ [Next]_vars => [Kept]_vars
    <2>1. SUFFICES ASSUME RotationInv, Next, ~db.specific, api.last # Never,
                          conf.gen # 0, conf.good = TRUE, lastGen' = lastGen
                   PROVE  conf'.gen = 0 \/ conf'.good
      OBVIOUS
    <2>2. CASE Write
      <3>1. pc = "write"
        BY <2>2 DEF Write
      <3>2. CASE password = "none"
        <4>1. conf' = conf \/ conf' = [gen |-> inst.meta.gen, good |-> conf.good]
          BY <2>2, <3>2 DEF Write
        <4>2. QED
          BY <2>1, <4>1
      <3>3. CASE password # "none"
        <4>1. inst.last = Never /\ ~inst.meta.deleting
          BY <2>1, <3>1, <3>3, Known DEF RotationInv, Ages, Resting, RotationKnown
        <4>2. inst.meta.gen <= conf.gen /\ conf.gen <= inst.meta.gen
          BY <2>1, <3>1, <4>1 DEF RotationInv, RotationKnown, Outdone, CopyOrder
        <4>3. conf.gen = inst.meta.gen
          BY <2>1, <4>2, Known
        <4>4. Equivalent
          BY <2>1, <3>3, <4>3 DEF Equivalent
        <4>5. conf' = conf
          BY <2>2, <4>4 DEF Write
        <4>6. QED
          BY <2>1, <4>5
      <3>4. QED
        BY <3>2, <3>3
    <2>3. CASE Cleanup
      <3>1. conf' = conf \/ conf' = [gen |-> 0, good |-> FALSE]
        BY <2>3 DEF Cleanup
      <3>2. QED
        BY <2>1, <3>1
    <2>4. CASE conf' = conf
      BY <2>1, <2>4
    <2>5. QED
      BY <2>1, <2>2, <2>3, <2>4, Known, WhoWrites
  <1>2. QED
    BY <1>1, RotationInvariant, PTL DEF Spec, ConnectionKept
=============================================================================
