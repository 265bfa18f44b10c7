------------------------- MODULE VaultSecretProofs -------------------------
(***************************************************************************)
(* Proofs about VaultSecret, for all periods, leases, thresholds, ages and *)
(* bounds: types; that a K8s Secret that is missing or not what was        *)
(* written is always attended to; that the next update is always in time;  *)
(* and that the status is never later than the Secret.  Each is an         *)
(* invariant about states in the middle of everything, where the caches    *)
(* are behind, events are on their way and a cycle runs on old copies.     *)
(***************************************************************************)
EXTENDS VaultSecret, TLAPS, FiniteSetTheorems, WellFoundedInduction

(* The conjuncts of TypeOK one by one. *)
Typed ==
    /\ api \in VaultSecrets /\ cache \in VaultSecrets /\ inst \in VaultSecrets
    /\ secret \in Secrets /\ seen \in Secrets
    /\ cacheCurrent \in BOOLEAN /\ seenCurrent \in BOOLEAN /\ wake \in BOOLEAN
    /\ queued \in BOOLEAN /\ instCurrent \in BOOLEAN /\ issue \in BOOLEAN
    /\ foreign \in BOOLEAN
    /\ lastGen \in 0..MaxGen /\ timer \in 0..MaxAge
    /\ read \in [age : 0..MaxAge, leases : SUBSET Leases]
    /\ pc \in PCs
    /\ faults \in 0..MaxFaults /\ tampers \in 0..MaxTampers

(* What holds of every copy of the VaultSecret, however old.               *)
Sound(obj) ==
    /\ ~Exists(obj.meta) => obj = NoVaultSecret
    /\ obj.meta.uid <= obj.meta.gen /\ obj.meta.gen <= lastGen
    /\ obj.since # Never => obj.leases # {}

Copies ==
    /\ Sound(api) /\ Sound(cache) /\ Sound(inst)
    /\ cacheCurrent => cache = api
    /\ instCurrent => pc # "idle" /\ inst.meta = api.meta
    /\ pc = "idle" => inst = NoVaultSecret /\ read = NoRead
    /\ pc # "idle" => Exists(inst.meta)
    /\ pc = "put" => read.leases # {}
    /\ Exists(cache.meta) /\ cache.meta.gen = api.meta.gen =>
         cache.meta.uid = api.meta.uid /\ cache.meta.deleting = api.meta.deleting

(* Owners, copies and the stored version succeed one another in the order  *)
(* of their incarnations.                                                  *)
Before(uid, obj) == Exists(obj.meta) => uid <= obj.meta.uid

Order ==
    /\ secret.owner <= lastGen /\ seen.owner <= lastGen
    /\ Before(secret.owner, inst) /\ Before(seen.owner, inst)
    /\ Before(secret.owner, cache) /\ Before(seen.owner, cache)
    /\ Before(secret.owner, api) /\ Before(seen.owner, api)
    /\ Before(inst.meta.uid, cache) /\ Before(inst.meta.uid, api)
    /\ Before(cache.meta.uid, api)
    /\ Owned(secret) => seen.owner <= secret.owner

(* What the informer of the K8s Secret has yet to tell.                    *)
Spoiled(s) == s = NoSecret \/ ~s.intact

Watched ==
    /\ seenCurrent => seen = secret /\ ~wake
    /\ ~foreign => /\ secret = NoSecret \/ Owned(secret)
                   /\ seen = NoSecret \/ Owned(seen)
                   /\ ~Spoiled(seen) /\ Spoiled(secret) => wake

(* Somebody will look at a VaultSecret whose K8s Secret is not right.      *)
Attended ==
    Live(api) /\ ~foreign /\ ~(Mine(secret) /\ secret.intact)
      => \/ queued \/ wake \/ timer = 1 \/ cache.meta.gen # api.meta.gen
         \/ pc \in {"read", "put"} /\ inst.meta.uid = api.meta.uid
         \/ pc = "status" /\ issue

NoLaterThan(t, obj) ==
    IF obj.refresh # 0 THEN t <= obj.refresh - obj.since
    ELSE \A l \in obj.leases : t <= Scaled(l) - obj.since

InTime == timer = 1 \/ (timer > 1 /\ NoLaterThan(timer, api))

(* The next update of a synced VaultSecret is never forgotten.             *)
Timely ==
    Live(api) /\ api.since # Never
      => queued \/ pc # "idle" \/ cache.meta.gen # api.meta.gen \/ InTime

(* The status in obj says that the Secret is no younger than it is, but    *)
(* for n ticks that came in the middle of something.                       *)
NotOlder(s, obj, n) ==
    Owned(s) /\ s.owner = obj.meta.uid /\ obj.since # Never
      => s.age <= obj.since + n

(* No copy of the status is later than the Secret's data.                  *)
Honest ==
    /\ NotOlder(secret, api, faults) /\ NotOlder(secret, cache, faults)
    /\ NotOlder(secret, inst, faults)
    /\ read.age <= faults

-----------------------------------------------------------------------------
(* No object, and durations.                                               *)
LEMMA AbsentFacts ==
    /\ Absent \in Object /\ ~Exists(Absent)
    /\ Absent.gen = 0 /\ Absent.uid = 0
    /\ ~Absent.deleting /\ ~Absent.finalizer /\ ~Absent.held
  BY DEF Absent, Object, Exists, CondTypes

LEMMA ConstantTypes ==
    /\ MaxAge \in Nat /\ MaxAge > 0 /\ Never \in Nat /\ Never = MaxAge + 1
    /\ Periods \subseteq 0..MaxAge /\ Leases \subseteq 0..MaxAge
    /\ RefreshThreshold \in Nat /\ RefreshThreshold <= 100
    /\ MaxGen \in Nat /\ MaxFaults \in Nat /\ MaxTampers \in Nat
  BY VaultSecretConstants DEF Never

LEMMA Products ==
  ASSUME NEW k \in Nat, NEW f \in Nat, NEW m \in Nat, f <= m
  PROVE  f * k \in Nat /\ f * k <= m * k
  <1>1. PICK d \in Nat : m = f + d
    <2>1. m - f \in Nat /\ m = f + (m - f)
      OBVIOUS
    <2>2. QED
      BY <2>1
  <1>2. f * k \in Nat /\ d * k \in Nat /\ m * k = f * k + d * k
    BY <1>1
  <1>3. QED
    BY <1>2

LEMMA Hundredths ==
  ASSUME NEW a \in Nat, NEW b \in Nat, a <= b
  PROVE  a \div 100 \in Nat /\ a \div 100 <= b \div 100
         /\ (a * 100) \div 100 = a
  OBVIOUS

(* A share of a lease is no longer than the lease, and no longer than that *)
(* of a longer lease.                                                      *)
LEMMA ScaledFacts ==
  ASSUME NEW l \in Nat, NEW m \in Nat, l <= m
  PROVE  Scaled(l) \in Nat /\ Scaled(l) <= l /\ Scaled(l) <= Scaled(m)
  <1>1. /\ l * RefreshThreshold \in Nat /\ m * RefreshThreshold \in Nat
        /\ l * RefreshThreshold <= m * RefreshThreshold
    BY ConstantTypes, Products
  <1>2. l * RefreshThreshold <= l * 100
    <2>1. RefreshThreshold * l <= 100 * l
      BY ConstantTypes, Products
    <2>2. QED
      BY <2>1, ConstantTypes
  <1>3. l * 100 \in Nat
    OBVIOUS
  <1>4. QED
    BY <1>1, <1>2, <1>3, Hundredths DEF Scaled

LEMMA LeaseFacts ==
  ASSUME NEW leases \in SUBSET Leases, NEW l \in leases
  PROVE  l \in Nat /\ l <= MaxAge
  <1>1. l \in Leases
    OBVIOUS
  <1>2. l \in 0..MaxAge
    BY <1>1, ConstantTypes
  <1>3. QED
    BY <1>2, ConstantTypes

(* Leases are numbers: some is the shortest. *)
LEMMA Shortest ==
  ASSUME NEW leases \in SUBSET Leases, leases # {}
  PROVE  LET least == CHOOSE l \in leases : \A m \in leases : l <= m
         IN  least \in leases /\ \A m \in leases : least <= m
  <1>1. leases \subseteq Nat
    BY ConstantTypes
  <1>2. PICK l \in leases : \A m \in leases : ~(<<m, l>> \in OpToRel(<, Nat))
    BY <1>1, NatLessThanWellFounded, WFMin
  <1>3. \A m \in leases : l <= m
    <2>1. SUFFICES ASSUME NEW m \in leases PROVE ~(m < l)
      BY <1>1
    <2>2. ~(<<m, l>> \in OpToRel(<, Nat))
      BY <1>2
    <2>3. QED
      BY <1>1, <2>2 DEF OpToRel
  <1>4. \E x \in leases : \A m \in leases : x <= m
    BY <1>3
  <1>5. QED
    BY <1>4

-----------------------------------------------------------------------------
(* Copies of the VaultSecret. *)

LEMMA NoVaultSecretFacts ==
    /\ NoVaultSecret \in VaultSecrets /\ NoVaultSecret.meta = Absent
    /\ NoVaultSecret.meta.uid = 0 /\ NoVaultSecret.meta.gen = 0
    /\ ~Exists(NoVaultSecret.meta) /\ ~NoVaultSecret.meta.deleting
    /\ NoVaultSecret.since = Never /\ NoVaultSecret.leases = {}
    /\ NoVaultSecret.refresh = 0
  <1>1. Never \in 0..Never
    BY ConstantTypes
  <1>2. /\ NoVaultSecret.meta = Absent /\ NoVaultSecret.since = Never
        /\ NoVaultSecret.leases = {} /\ NoVaultSecret.refresh = 0
        /\ NoVaultSecret.next = FALSE
    BY DEF NoVaultSecret
  <1>3. NoVaultSecret \in VaultSecrets
    BY <1>1, AbsentFacts DEF NoVaultSecret, VaultSecrets
  <1>4. QED
    BY <1>2, <1>3, AbsentFacts

LEMMA SecretFields ==
  ASSUME NEW obj \in VaultSecrets
  PROVE  /\ obj.meta \in Object /\ obj.meta.uid \in Nat /\ obj.meta.gen \in Nat
         /\ obj.meta.deleting \in BOOLEAN /\ obj.meta.finalizer \in BOOLEAN
         /\ obj.since \in 0..Never /\ obj.refresh \in 0..MaxAge
         /\ obj.leases \in SUBSET Leases
         /\ obj.since # Never => obj.since \in 0..MaxAge
  <1>1. obj.refresh \in 0..MaxAge
    <2>1. obj.refresh \in Periods \union {0}
      BY DEF VaultSecrets
    <2>2. Periods \subseteq 0..MaxAge /\ 0 \in 0..MaxAge
      BY ConstantTypes
    <2>3. QED
      BY <2>1, <2>2
  <1>2. obj.since \in 0..Never /\ obj.meta \in Object /\ obj.leases \in SUBSET Leases
    BY DEF VaultSecrets
  <1>3. obj.since # Never => obj.since \in 0..MaxAge
    BY <1>2, ConstantTypes
  <1>4. QED
    BY <1>1, <1>2, <1>3 DEF Object

(* An update of the meta data, and of nextVaultSecretUpdate.               *)
LEMMA MetaUpdate ==
  ASSUME NEW obj \in VaultSecrets, NEW m \in Object
  PROVE  /\ [obj EXCEPT !.meta = m] \in VaultSecrets
         /\ [obj EXCEPT !.meta = m].meta = m
         /\ [obj EXCEPT !.meta = m].since = obj.since
         /\ [obj EXCEPT !.meta = m].leases = obj.leases
         /\ [obj EXCEPT !.meta = m].refresh = obj.refresh
  BY DEF VaultSecrets

LEMMA WithNextFacts ==
  ASSUME NEW obj \in VaultSecrets
  PROVE  /\ WithNext(obj) \in VaultSecrets
         /\ WithNext(obj).meta = obj.meta /\ WithNext(obj).since = obj.since
         /\ WithNext(obj).leases = obj.leases
         /\ WithNext(obj).refresh = obj.refresh
  <1>1. Calculable(obj) \in BOOLEAN
    BY DEF Calculable
  <1>2. QED
    BY <1>1 DEF WithNext, VaultSecrets

(* The next update is due within the period, or the share of each lease.  *)
LEMMA DurationFacts ==
  ASSUME NEW obj \in VaultSecrets, Calculable(obj)
  PROVE  /\ Duration(obj) \in 0..MaxAge
         /\ obj.refresh # 0 => Duration(obj) = obj.refresh
         /\ obj.refresh = 0 => \A l \in obj.leases : Duration(obj) <= Scaled(l)
  <1>1. obj.refresh \in 0..MaxAge /\ obj.leases \in SUBSET Leases
    BY SecretFields
  <1>2. CASE obj.refresh # 0
    BY <1>1, <1>2 DEF Duration
  <1>3. CASE obj.refresh = 0
    <2> DEFINE least == CHOOSE l \in obj.leases : \A m \in obj.leases : l <= m
    <2>1. obj.leases # {}
      BY <1>3 DEF Calculable
    <2>2. least \in obj.leases /\ \A m \in obj.leases : least <= m
      BY <1>1, <2>1, Shortest
    <2>3. Duration(obj) = Scaled(least)
      BY <1>3 DEF Duration
    <2> HIDE DEF least
    <2>4. \A m \in obj.leases : m \in Nat /\ m <= MaxAge
      BY <1>1, LeaseFacts
    <2>5. Scaled(least) \in Nat /\ Scaled(least) <= least
      BY <2>2, <2>4, ScaledFacts
    <2>6. \A m \in obj.leases : Scaled(least) <= Scaled(m)
      BY <2>2, <2>4, ScaledFacts
    <2>7. Scaled(least) <= MaxAge
      BY <2>2, <2>4, <2>5, ConstantTypes
    <2>8. QED
      BY <1>3, <2>3, <2>5, <2>6, <2>7, ConstantTypes
  <1>4. QED
    BY <1>1, <1>2, <1>3

LEMMA RequeueFacts ==
  ASSUME inst \in VaultSecrets
  PROVE  /\ RequeueAfter \in 0..MaxAge
         /\ issue => RequeueAfter = 1
         /\ inst.since # Never /\ inst.leases # {} =>
              \/ RequeueAfter = 1
              \/ RequeueAfter > 1 /\ NoLaterThan(RequeueAfter, inst)
  <1>1. 0 \in 0..MaxAge /\ 1 \in 0..MaxAge
    BY ConstantTypes
  <1>2. CASE issue
    BY <1>1, <1>2 DEF RequeueAfter, Backoff
  <1>3. CASE ~issue /\ ~Calculable(inst)
    BY <1>1, <1>3 DEF RequeueAfter, Calculable
  <1>4. CASE ~issue /\ Calculable(inst) /\ ~(inst.since < Duration(inst))
    BY <1>1, <1>4 DEF RequeueAfter
  <1>5. CASE ~issue /\ Calculable(inst) /\ inst.since < Duration(inst)
    <2>1. RequeueAfter = Duration(inst) - inst.since
      BY <1>5 DEF RequeueAfter
    <2>2. Duration(inst) \in 0..MaxAge /\ inst.since \in 0..Never
      BY <1>5, DurationFacts, SecretFields
    <2>3. Duration(inst) - inst.since \in 1..MaxAge
      BY <1>5, <2>2, ConstantTypes
    <2>4. NoLaterThan(RequeueAfter, inst)
      <3>1. CASE inst.refresh # 0
        BY <1>5, <2>1, <3>1, DurationFacts, SecretFields, ConstantTypes
           DEF NoLaterThan
      <3>2. CASE inst.refresh = 0
        <4>1. \A l \in inst.leases : Duration(inst) <= Scaled(l) /\ Scaled(l) \in Nat
          <5>1. \A l \in inst.leases : l \in Nat
            BY SecretFields, LeaseFacts
          <5>2. QED
            BY <1>5, <3>2, <5>1, DurationFacts, ScaledFacts
        <4>2. \A l \in inst.leases : Duration(inst) - inst.since <= Scaled(l) - inst.since
          BY <2>2, <4>1, ConstantTypes
        <4>3. QED
          BY <2>1, <3>2, <4>2 DEF NoLaterThan
      <3>3. QED
        BY <3>1, <3>2
    <2>5. QED
      BY <1>5, <2>1, <2>3, <2>4, ConstantTypes
  <1>6. QED
    BY <1>2, <1>3, <1>4, <1>5

(* The queue keeps the earlier of two times. *)
LEMMA EarlierFacts ==
  ASSUME NEW t \in 0..MaxAge, NEW u \in 0..MaxAge
  PROVE  /\ Earlier(t, u) \in 0..MaxAge
         /\ t = 1 \/ u = 1 => Earlier(t, u) = 1
         /\ u > 0 => Earlier(t, u) > 0 /\ Earlier(t, u) <= u
         /\ u = 0 => Earlier(t, u) = t
  BY ConstantTypes DEF Earlier

-----------------------------------------------------------------------------
(* What the calls of a cycle come to: each is one of a few effects, on     *)
(* which all the invariants below are proved.                              *)

ApiKept == api' = api /\ cacheCurrent' = cacheCurrent
ApiStored(obj) == instCurrent /\ api' = obj /\ cacheCurrent' = FALSE

SecretKept == secret' = secret /\ seenCurrent' = seenCurrent /\ wake' = wake

SecretWritten(s) ==
    /\ secret' = s /\ seenCurrent' = FALSE
    /\ wake' \in BOOLEAN /\ (wake' <=> wake \/ SecretEvent(secret, s))

(* The version that the worker stores: its copy, perhaps with a finalizer. *)
LikeInst(obj) ==
    /\ obj \in VaultSecrets
    /\ obj.meta.uid = inst.meta.uid /\ obj.meta.gen = inst.meta.gen
    /\ obj.meta.deleting = inst.meta.deleting
    /\ obj.since = inst.since /\ obj.leases = inst.leases
    /\ obj.refresh = inst.refresh

(* What no call changes. *)
Kept ==
    /\ cache' = cache /\ lastGen' = lastGen /\ queued' = queued /\ seen' = seen
    /\ foreign' = foreign /\ tampers' = tampers
    /\ \/ faults' = faults
       \/ faults < MaxFaults /\ faults' = faults + 1

WorkerKept ==
    inst' = inst /\ instCurrent' = instCurrent /\ timer' = timer

ReadDone ==
    /\ pc = "read" /\ pc' = "put" /\ ApiKept /\ SecretKept
    /\ WorkerKept /\ issue' = issue
    /\ \E leases \in SUBSET Leases :
         leases # {} /\ read' = [age |-> 0, leases |-> leases]

Failed ==
    /\ pc \in {"read", "put", "delete", "removeFinalizer"}
    /\ pc' = "status" /\ issue' = TRUE /\ read' = NoRead /\ ApiKept /\ WorkerKept
    /\ \/ SecretKept
       \/ pc = "put" /\ SecretWritten(Rendered)
       \/ pc = "delete" /\ SecretWritten(NoSecret)

PutDone ==
    /\ pc = "put" /\ pc' = "status" /\ ApiKept /\ SecretWritten(Rendered)
    /\ inst' = Synced /\ instCurrent' = instCurrent /\ timer' = timer
    /\ issue' = issue /\ read' = read

Deleted ==
    /\ pc = "delete" /\ pc' = "removeFinalizer"
    /\ ApiKept /\ SecretWritten(NoSecret)
    /\ WorkerKept /\ issue' = issue /\ read' = read

Recorded ==
    /\ pc = "status" /\ ~issue /\ pc' = "addFinalizer"
    /\ ApiStored(inst) /\ SecretKept
    /\ WorkerKept /\ issue' = issue /\ read' = read

Ended(requeueAfter) ==
    /\ pc' = "idle" /\ inst' = NoVaultSecret /\ instCurrent' = FALSE
    /\ issue' = FALSE /\ read' = NoRead /\ SecretKept
    /\ timer' = Earlier(timer, requeueAfter)

Finished ==
    /\ pc \in {"status", "addFinalizer"}
    /\ \/ ApiKept /\ Ended(1)
       \/ \E obj : /\ LikeInst(obj) /\ ApiStored(obj)
                   /\ Ended(1) \/ Ended(RequeueAfter)

Removed ==
    /\ pc = "removeFinalizer" /\ ApiStored(NoVaultSecret)
    /\ \/ Ended(0)
       \/ /\ pc' = "status" /\ issue' = TRUE /\ instCurrent' = FALSE
          /\ inst' = inst /\ read' = read /\ timer' = timer /\ SecretKept

Call ==
    /\ Kept
    /\ \/ ReadDone \/ Failed \/ PutDone \/ Deleted
       \/ Recorded \/ Finished \/ Removed

LEMMA SecretChanged ==
  ASSUME NEW s, ChangeSecret(s)
  PROVE  SecretWritten(s) /\ seen' = seen
  <1>1. wake' = (wake \/ SecretEvent(secret, s))
    BY DEF ChangeSecret
  <1>2. wake' \in BOOLEAN /\ (wake' <=> wake \/ SecretEvent(secret, s))
    BY <1>1, Zenon
  <1>3. QED
    BY <1>2 DEF ChangeSecret, SecretWritten

LEMMA FaultKinds ==
  ASSUME NoFault \/ Fault
  PROVE  faults' = faults \/ (faults < MaxFaults /\ faults' = faults + 1)
  BY DEF NoFault, Fault

LEMMA CallEffect ==
  ASSUME inst \in VaultSecrets,
         Read \/ Put \/ Delete \/ Status \/ AddFinalizer \/ RemoveFinalizer
  PROVE  Call
  <1>1. CASE Read
    <2>1. Kept /\ ApiKept /\ SecretKept /\ pc = "read"
      BY <1>1, FaultKinds
         DEF Read, Kept, ApiKept, SecretKept, kube, informer, secrets,
             secretInformer, Fail, work
    <2>2. CASE Fault /\ Fail
      BY <2>1, <2>2 DEF Call, Failed, Fail, WorkerKept, work
    <2>3. ASSUME NEW leases \in SUBSET Leases,
                 Cardinality(leases) \in 1..Definitions,
                 read' = [age |-> 0, leases |-> leases], pc' = "put",
                 UNCHANGED <<inst, instCurrent, issue, work>>
          PROVE  ReadDone
      <3>1. leases # {}
        BY <2>3, FS_EmptySet
      <3>2. QED
        BY <2>1, <2>3, <3>1 DEF ReadDone, WorkerKept, work
    <2>4. QED
      BY <1>1, <2>1, <2>2, <2>3 DEF Read, Call
  <1>2. CASE Put
    <2>1. /\ pc = "put" /\ ApiKept
          /\ cache' = cache /\ lastGen' = lastGen /\ foreign' = foreign
          /\ tampers' = tampers
      BY <1>2 DEF Put, ApiKept, kube, informer
    <2>2. CASE ChangeSecret(Rendered)
      <3>1. SecretWritten(Rendered) /\ seen' = seen
        BY <2>2, SecretChanged
      <3>2. CASE Fault /\ Fail
        <4>1. Kept
          BY <2>1, <3>1, <3>2, FaultKinds DEF Kept, Fail, work
        <4>2. Failed
          BY <2>1, <3>1, <3>2 DEF Failed, Fail, WorkerKept, work
        <4>3. QED
          BY <4>1, <4>2 DEF Call
      <3>3. CASE /\ NoFault /\ pc' = "status" /\ inst' = Synced
                 /\ UNCHANGED <<instCurrent, issue, read, work>>
        <4>1. Kept
          BY <2>1, <3>1, <3>3, FaultKinds DEF Kept, work
        <4>2. PutDone
          BY <2>1, <3>1, <3>3 DEF PutDone, work
        <4>3. QED
          BY <4>1, <4>2 DEF Call
      <3>4. CASE UNCHANGED <<secret, secretInformer>> /\ Fault /\ Fail
        BY <3>2, <3>4
      <3>5. QED
        BY <1>2, <3>2, <3>3, <3>4 DEF Put
    <2>3. CASE Fault /\ Fail /\ UNCHANGED <<secret, secretInformer>>
      <3>1. Kept /\ SecretKept
        BY <2>1, <2>3, FaultKinds DEF Kept, SecretKept, Fail, work, secretInformer
      <3>2. Failed
        BY <2>1, <2>3, <3>1 DEF Failed, Fail, WorkerKept, work
      <3>3. QED
        BY <3>1, <3>2 DEF Call
    <2>4. QED
      BY <1>2, <2>2, <2>3 DEF Put
  <1>3. CASE Delete
    <2>1. /\ pc = "delete" /\ ApiKept
          /\ cache' = cache /\ lastGen' = lastGen /\ foreign' = foreign
          /\ tampers' = tampers
      BY <1>3 DEF Delete, ApiKept, kube, informer
    <2>2. CASE ChangeSecret(NoSecret) /\ NoFault /\ Goto("removeFinalizer")
      <3>1. SecretWritten(NoSecret) /\ seen' = seen
        BY <2>2, SecretChanged
      <3>2. Kept
        BY <2>1, <2>2, <3>1, FaultKinds DEF Kept, Goto, work
      <3>3. Deleted
        BY <2>1, <2>2, <3>1 DEF Deleted, Goto, WorkerKept, work
      <3>4. QED
        BY <3>2, <3>3 DEF Call
    <2>3. CASE ChangeSecret(NoSecret) /\ Fault /\ Fail
      <3>1. SecretWritten(NoSecret) /\ seen' = seen
        BY <2>3, SecretChanged
      <3>2. Kept
        BY <2>1, <2>3, <3>1, FaultKinds DEF Kept, Fail, work
      <3>3. Failed
        BY <2>1, <2>3, <3>1 DEF Failed, Fail, WorkerKept, work
      <3>4. QED
        BY <3>2, <3>3 DEF Call
    <2>4. CASE Fault /\ Fail /\ UNCHANGED <<secret, secretInformer>>
      <3>1. Kept /\ SecretKept
        BY <2>1, <2>4, FaultKinds DEF Kept, SecretKept, Fail, work, secretInformer
      <3>2. Failed
        BY <2>1, <2>4, <3>1 DEF Failed, Fail, WorkerKept, work
      <3>3. QED
        BY <3>1, <3>2 DEF Call
    <2>5. QED
      BY <1>3, <2>2, <2>3, <2>4 DEF Delete
  <1>4. ASSUME Status \/ AddFinalizer \/ RemoveFinalizer
        PROVE  /\ foreign' = foreign /\ tampers' = tampers
               /\ SecretKept /\ seen' = seen
    BY <1>4 DEF Status, AddFinalizer, RemoveFinalizer, SecretKept, secrets,
                secretInformer
  <1>5. ASSUME NEW r, Done(r), SecretKept
        PROVE  Ended(r) /\ queued' = queued
    BY <1>5 DEF Done, Ended
  <1>6. ASSUME NEW obj, StoreByWorker(obj)
        PROVE  ApiStored(obj) /\ cache' = cache /\ lastGen' = lastGen
    BY <1>6 DEF StoreByWorker, ApiStored
  <1>7. ASSUME Rejected
        PROVE  /\ ApiKept /\ cache' = cache /\ lastGen' = lastGen
               /\ NoFault \/ Fault
    BY <1>7 DEF Rejected, ApiKept, informer
  <1>8. CASE Status
    <2>1. pc = "status"
      BY <1>8 DEF Status
    <2>2. CASE StoreByWorker(inst) /\ NoFault /\ ~issue /\ Goto("addFinalizer")
      <3>1. Kept
        BY <1>4, <1>6, <1>8, <2>2, FaultKinds DEF Kept, Goto, work
      <3>2. Recorded
        BY <1>4, <1>6, <1>8, <2>1, <2>2 DEF Recorded, Goto, WorkerKept, work
      <3>3. QED
        BY <3>1, <3>2 DEF Call
    <2>3. LikeInst(inst)
      BY DEF LikeInst
    <2>4. CASE /\ StoreByWorker(inst) /\ (NoFault \/ Fault)
               /\ Done(RequeueAfter) \/ Done(Backoff)
      <3>1. Ended(RequeueAfter) \/ Ended(1)
        BY <1>4, <1>5, <1>8, <2>4 DEF Backoff
      <3>2. Kept
        BY <1>4, <1>5, <1>6, <1>8, <2>4, FaultKinds DEF Kept
      <3>3. Finished
        BY <1>6, <2>1, <2>3, <2>4, <3>1 DEF Finished
      <3>4. QED
        BY <3>2, <3>3 DEF Call
    <2>5. CASE Rejected /\ Done(Backoff)
      <3>1. Ended(1)
        BY <1>4, <1>5, <1>8, <2>5 DEF Backoff
      <3>2. Kept
        BY <1>4, <1>5, <1>7, <1>8, <2>5, FaultKinds DEF Kept
      <3>3. Finished
        BY <1>7, <2>1, <2>5, <3>1 DEF Finished
      <3>4. QED
        BY <3>2, <3>3 DEF Call
    <2>6. QED
      BY <1>8, <2>2, <2>4, <2>5 DEF Status
  <1>9. CASE AddFinalizer
    <2> DEFINE obj == [inst EXCEPT !.meta = WithFinalizer(inst.meta)]
    <2>1. pc = "addFinalizer"
      BY <1>9 DEF AddFinalizer
    <2>2. LikeInst(obj)
      <3>1. inst.meta \in Object
        BY SecretFields
      <3>2. /\ WithFinalizer(inst.meta) \in Object
            /\ WithFinalizer(inst.meta).uid = inst.meta.uid
            /\ WithFinalizer(inst.meta).gen = inst.meta.gen
            /\ WithFinalizer(inst.meta).deleting = inst.meta.deleting
        BY <3>1 DEF WithFinalizer, Object
      <3>3. /\ obj \in VaultSecrets /\ obj.meta = WithFinalizer(inst.meta)
            /\ obj.since = inst.since /\ obj.leases = inst.leases
            /\ obj.refresh = inst.refresh
        BY <3>2, MetaUpdate
      <3>4. QED
        BY <3>2, <3>3 DEF LikeInst
    <2>3. \/ /\ StoreByWorker(obj) /\ (NoFault \/ Fault)
             /\ Done(RequeueAfter) \/ Done(Backoff)
          \/ Rejected /\ Done(Backoff)
      BY <1>9 DEF AddFinalizer
    <2> HIDE DEF obj
    <2>4. CASE /\ StoreByWorker(obj) /\ (NoFault \/ Fault)
               /\ Done(RequeueAfter) \/ Done(Backoff)
      <3>1. Ended(RequeueAfter) \/ Ended(1)
        BY <1>4, <1>5, <1>9, <2>4 DEF Backoff
      <3>2. Kept
        BY <1>4, <1>5, <1>6, <1>9, <2>4, FaultKinds DEF Kept
      <3>3. ApiStored(obj)
        BY <1>6, <2>4
      <3>4. Finished
        BY <2>1, <2>2, <3>1, <3>3 DEF Finished
      <3>5. QED
        BY <3>2, <3>4 DEF Call
    <2>5. CASE Rejected /\ Done(Backoff)
      <3>1. Ended(1)
        BY <1>4, <1>5, <1>9, <2>5 DEF Backoff
      <3>2. Kept
        BY <1>4, <1>5, <1>7, <1>9, <2>5, FaultKinds DEF Kept
      <3>3. Finished
        BY <1>7, <2>1, <2>5, <3>1 DEF Finished
      <3>4. QED
        BY <3>2, <3>3 DEF Call
    <2>6. QED
      BY <2>3, <2>4, <2>5
  <1>10. CASE RemoveFinalizer
    <2>1. pc = "removeFinalizer"
      BY <1>10 DEF RemoveFinalizer
    <2>2. CASE StoreByWorker(NoVaultSecret) /\ NoFault /\ Done(0)
      <3>1. Ended(0)
        BY <1>4, <1>5, <1>10, <2>2
      <3>2. Kept
        BY <1>4, <1>5, <1>6, <1>10, <2>2, FaultKinds DEF Kept
      <3>3. Removed
        BY <1>6, <2>1, <2>2, <3>1 DEF Removed
      <3>4. QED
        BY <3>2, <3>3 DEF Call
    <2>3. CASE /\ StoreByWorker(NoVaultSecret)
               /\ Fault /\ pc' = "status" /\ issue' = TRUE /\ instCurrent' = FALSE
               /\ UNCHANGED <<inst, read, work>>
      <3>1. Kept
        BY <1>4, <1>6, <1>10, <2>3, FaultKinds DEF Kept, work
      <3>2. Removed
        BY <1>4, <1>6, <1>10, <2>1, <2>3 DEF Removed, work
      <3>3. QED
        BY <3>1, <3>2 DEF Call
    <2>4. CASE Rejected /\ Fail
      <3>1. Kept
        BY <1>4, <1>7, <1>10, <2>4, FaultKinds DEF Kept, Fail, work
      <3>2. Failed
        BY <1>4, <1>7, <1>10, <2>1, <2>4 DEF Failed, Fail, WorkerKept, work
      <3>3. QED
        BY <3>1, <3>2 DEF Call
    <2>5. QED
      BY <1>10, <2>2, <2>3, <2>4 DEF RemoveFinalizer
  <1>11. QED
    BY <1>1, <1>2, <1>3, <1>8, <1>9, <1>10
-----------------------------------------------------------------------------
(* The effects of the other steps. *)

(* A user stores a new incarnation, a newer generation, or removes it. *)
Stored ==
    /\ api' \in VaultSecrets /\ cacheCurrent' = FALSE /\ instCurrent' = FALSE
    /\ lastGen' \in 0..MaxGen
    /\ \/ api' = NoVaultSecret /\ lastGen' = lastGen
       \/ /\ lastGen' = lastGen + 1 /\ api'.meta.gen = lastGen'
          /\ \/ api'.meta.uid = lastGen' /\ api'.since = Never
             \/ /\ Exists(api.meta) /\ api'.meta.uid = api.meta.uid
                /\ api'.since = api.since /\ api'.leases = api.leases
    /\ cache' = cache /\ queued' = queued /\ timer' = timer
    /\ secret' = secret /\ seen' = seen /\ seenCurrent' = seenCurrent
    /\ wake' = wake /\ foreign' = foreign
    /\ pc' = pc /\ inst' = inst /\ issue' = issue /\ read' = read
    /\ faults' = faults /\ tampers' = tampers

LEMMA UserEffect ==
  ASSUME Typed, UserCreate \/ UserEdit \/ UserDelete
  PROVE  Stored
  <1>1. /\ api \in VaultSecrets /\ api.meta \in Object
        /\ lastGen \in Nat /\ NextGen \in Nat /\ NextGen # 0 /\ lastGen \in 0..MaxGen
    BY SecretFields, ConstantTypes DEF Typed, NextGen
  <1>2. Bump => lastGen' = lastGen + 1 /\ lastGen' = NextGen /\ lastGen' \in 0..MaxGen
    BY <1>1, ConstantTypes DEF Bump, NextGen
  <1>3. ASSUME NEW obj, StoreByOther(obj)
        PROVE  /\ api' = obj /\ cacheCurrent' = FALSE /\ instCurrent' = FALSE
               /\ cache' = cache /\ queued' = queued /\ timer' = timer
               /\ secret' = secret /\ seen' = seen /\ seenCurrent' = seenCurrent
               /\ wake' = wake /\ foreign' = foreign
               /\ pc' = pc /\ inst' = inst /\ issue' = issue /\ read' = read
               /\ faults' = faults /\ tampers' = tampers
    BY <1>3 DEF StoreByOther, secrets, secretInformer, work, bounds
  <1>4. CASE UserCreate
    <2>1. PICK r \in Periods :
            StoreByOther([NoVaultSecret EXCEPT !.meta = Created(NextGen),
                                               !.refresh = r])
      BY <1>4 DEF UserCreate
    <2> DEFINE new == [NoVaultSecret EXCEPT !.meta = Created(NextGen),
                                            !.refresh = r]
    <2>2. /\ Created(NextGen) \in Object /\ Created(NextGen).uid = NextGen
          /\ Created(NextGen).gen = NextGen
      BY <1>1 DEF Created, Absent, Object, Exists, CondTypes
    <2>3. /\ new \in VaultSecrets /\ new.meta = Created(NextGen)
          /\ new.since = NoVaultSecret.since
      <3>1. NoVaultSecret \in VaultSecrets /\ r \in Periods
        BY <2>1, NoVaultSecretFacts
      <3>2. QED
        BY <2>2, <3>1 DEF VaultSecrets
    <2>4. StoreByOther(new) /\ Bump
      BY <1>4, <2>1 DEF UserCreate
    <2> HIDE DEF new
    <2>5. /\ new.meta.gen = NextGen /\ new.meta.uid = NextGen /\ new.since = Never
      BY <2>2, <2>3, NoVaultSecretFacts
    <2>6. api' = new /\ lastGen' = NextGen
      BY <1>2, <1>3, <2>4
    <2>7. QED
      BY <1>2, <1>3, <2>3, <2>4, <2>5, <2>6 DEF Stored
  <1>5. CASE UserEdit
    <2>1. PICK r \in Periods :
            StoreByOther([api EXCEPT !.meta = Edited(api.meta, NextGen),
                                     !.refresh = r])
      BY <1>5 DEF UserEdit
    <2> DEFINE new == [api EXCEPT !.meta = Edited(api.meta, NextGen), !.refresh = r]
    <2>2. LET m == Edited(api.meta, NextGen)
          IN  m \in Object /\ m.uid = api.meta.uid /\ m.gen = NextGen
      BY <1>1 DEF Edited, Object
    <2>3. /\ new \in VaultSecrets /\ new.meta = Edited(api.meta, NextGen)
          /\ new.since = api.since /\ new.leases = api.leases
      <3>1. r \in Periods
        BY <2>1
      <3>2. QED
        BY <1>1, <2>2, <3>1 DEF VaultSecrets
    <2>4. StoreByOther(new) /\ Bump /\ Exists(api.meta)
      BY <1>5, <2>1 DEF UserEdit
    <2> HIDE DEF new
    <2>5. new.meta.gen = NextGen /\ new.meta.uid = api.meta.uid
      BY <2>2, <2>3
    <2>6. api' = new /\ lastGen' = NextGen
      BY <1>2, <1>3, <2>4
    <2>7. QED
      BY <1>2, <1>3, <2>3, <2>4, <2>5, <2>6 DEF Stored
  <1>6. CASE UserDelete
    <2>1. CASE lastGen' = lastGen /\ StoreByOther(NoVaultSecret)
      <3>1. api' = NoVaultSecret
        BY <1>3, <2>1
      <3>2. QED
        BY <1>1, <1>3, <2>1, <3>1, NoVaultSecretFacts DEF Stored
    <2> DEFINE new == [api EXCEPT !.meta = MarkedDeleted(api.meta, NextGen, FALSE)]
    <2>2. CASE Bump /\ StoreByOther(new)
      <3>1. LET m == MarkedDeleted(api.meta, NextGen, FALSE)
            IN  m \in Object /\ m.uid = api.meta.uid /\ m.gen = NextGen
        BY <1>1 DEF MarkedDeleted, Object
      <3>2. /\ new \in VaultSecrets
            /\ new.meta = MarkedDeleted(api.meta, NextGen, FALSE)
            /\ new.since = api.since /\ new.leases = api.leases
        BY <1>1, <3>1, MetaUpdate
      <3>3. Exists(api.meta)
        BY <1>6 DEF UserDelete, Live
      <3> HIDE DEF new
      <3>4. new.meta.gen = NextGen /\ new.meta.uid = api.meta.uid
        BY <3>1, <3>2
      <3>5. api' = new /\ lastGen' = NextGen
        BY <1>2, <1>3, <2>2
      <3>6. QED
        BY <1>2, <1>3, <2>2, <3>2, <3>3, <3>4, <3>5 DEF Stored
    <2>3. QED
      BY <1>6, <2>1, <2>2 DEF UserDelete
  <1>7. QED
    BY <1>4, <1>5, <1>6

(* The K8s Secret is changed by others: spoiled, removed, or taken.        *)
Meddled ==
    /\ SecretWritten(secret')
    /\ \/ /\ Owned(secret) /\ secret' = [secret EXCEPT !.intact = FALSE]
          /\ foreign' = foreign
       \/ secret # NoSecret /\ secret' = NoSecret /\ foreign' = foreign
       \/ secret' = ForeignSecret /\ foreign' = TRUE
    /\ tampers' \in 0..MaxTampers
    /\ api' = api /\ lastGen' = lastGen /\ cache' = cache
    /\ cacheCurrent' = cacheCurrent /\ queued' = queued /\ timer' = timer
    /\ seen' = seen /\ pc' = pc /\ inst' = inst /\ instCurrent' = instCurrent
    /\ issue' = issue /\ read' = read /\ faults' = faults

LEMMA MeddledEffect ==
  ASSUME Typed, Tamper \/ CollectSecret
  PROVE  Meddled
  <1>1. ASSUME NEW s, StoreSecret(s)
        PROVE  /\ SecretWritten(s) /\ secret' = s
               /\ api' = api /\ lastGen' = lastGen /\ cache' = cache
               /\ cacheCurrent' = cacheCurrent /\ queued' = queued /\ timer' = timer
               /\ seen' = seen /\ pc' = pc /\ inst' = inst
               /\ instCurrent' = instCurrent
               /\ issue' = issue /\ read' = read /\ faults' = faults
    <2>1. SecretWritten(s) /\ seen' = seen
      BY <1>1, SecretChanged DEF StoreSecret
    <2>2. QED
      BY <1>1, <2>1 DEF StoreSecret, SecretWritten, kube, informer, work, worker
  <1>2. CASE CollectSecret
    <2>1. secret # NoSecret /\ tampers' \in 0..MaxTampers
      BY <1>2 DEF CollectSecret, Owned, NoSecret, Typed
    <2>2. QED
      BY <1>1, <1>2, <2>1 DEF CollectSecret, Meddled
  <1>3. CASE Tamper
    <2>1. tampers' \in 0..MaxTampers
      BY <1>3, ConstantTypes DEF Tamper, Typed
    <2>2. QED
      BY <1>1, <1>3, <2>1 DEF Tamper, Meddled
  <1>4. QED
    BY <1>2, <1>3
(* A cycle begins on the cached version, or there is nothing to do.        *)
Begun ==
    /\ Exists(cache.meta) /\ inst' \in VaultSecrets /\ inst'.meta = cache.meta
    /\ inst'.since = cache.since /\ inst'.leases = cache.leases
    /\ inst'.refresh = cache.refresh
    /\ instCurrent' = cacheCurrent /\ read' = NoRead /\ issue' \in BOOLEAN
    /\ pc' \in {"read", "status", "delete"}
    /\ ~cache.meta.deleting => pc' # "delete"
    /\ pc' = "status" /\ ~issue' => seen.owner = cache.meta.uid /\ ~Spoiled(seen)

Taken ==
    /\ pc = "idle" /\ queued /\ queued' = FALSE /\ timer' = timer
    /\ \/ /\ ~Live(cache) /\ pc' = pc /\ inst' = inst /\ instCurrent' = instCurrent
          /\ issue' = issue /\ read' = read
       \/ Begun
    /\ api' = api /\ lastGen' = lastGen /\ cache' = cache
    /\ cacheCurrent' = cacheCurrent
    /\ secret' = secret /\ seen' = seen /\ seenCurrent' = seenCurrent
    /\ wake' = wake /\ foreign' = foreign
    /\ faults' = faults /\ tampers' = tampers

LEMMA TakeEffect ==
  ASSUME Typed, Take
  PROVE  Taken
  <1> DEFINE begin == IF Exists(cache.meta) THEN Begin(cache) ELSE "idle"
  <1>1. /\ pc = "idle" /\ queued /\ queued' = FALSE /\ timer' = timer
        /\ IF begin = "idle" THEN UNCHANGED worker
           ELSE /\ pc' = IF begin = "notOwned" THEN "status" ELSE begin
                /\ inst' = IF begin = "status" THEN WithNext(cache) ELSE cache
                /\ instCurrent' = cacheCurrent
                /\ issue' = (begin = "notOwned")
                /\ read' = NoRead
        /\ api' = api /\ lastGen' = lastGen /\ cache' = cache
        /\ cacheCurrent' = cacheCurrent
        /\ secret' = secret /\ seen' = seen /\ seenCurrent' = seenCurrent
        /\ wake' = wake /\ foreign' = foreign
        /\ faults' = faults /\ tampers' = tampers
    BY DEF Take, kube, informer, secrets, secretInformer, bounds
  <1>2. /\ cache \in VaultSecrets /\ cache.meta.deleting \in BOOLEAN
        /\ cache.meta.finalizer \in BOOLEAN
    BY SecretFields DEF Typed
  <1>3. CASE begin = "idle"
    <2>1. ~Live(cache)
      <3>1. CASE Exists(cache.meta) /\ ~cache.meta.deleting
        <4>1. Begin(cache) \in {"read", "status", "notOwned"}
          BY <3>1 DEF Begin
        <4>2. QED
          BY <1>3, <3>1, <4>1
      <3>2. QED
        BY <3>1 DEF Live
    <2>2. UNCHANGED worker
      BY <1>1, <1>3
    <2> HIDE DEF begin
    <2>3. QED
      BY <1>1, <2>1, <2>2 DEF Taken, worker
  <1>4. CASE begin # "idle"
    <2>1. Exists(cache.meta) /\ begin = Begin(cache)
      BY <1>4
    <2>2. /\ begin \in {"delete", "read", "status", "notOwned"}
          /\ ~cache.meta.deleting => begin # "delete"
      BY <1>4, <2>1 DEF Begin
    <2>3. ASSUME begin = "status"
          PROVE  seen.owner = cache.meta.uid /\ ~Spoiled(seen)
      BY <2>1, <2>3 DEF Begin, ShouldSync, Spoiled
    <2> HIDE DEF begin
    <2>4. issue' \in BOOLEAN /\ (issue' <=> begin = "notOwned")
      <3>1. issue' = (begin = "notOwned")
        BY <1>1, <1>4
      <3>2. QED
        BY <3>1, Zenon
    <2>5. /\ inst' \in VaultSecrets /\ inst'.meta = cache.meta
          /\ inst'.since = cache.since /\ inst'.leases = cache.leases
          /\ inst'.refresh = cache.refresh
      <3>1. inst' = cache \/ inst' = WithNext(cache)
        BY <1>1, <1>4
      <3>2. QED
        BY <1>2, <3>1, WithNextFacts
    <2>6. /\ pc' \in {"read", "status", "delete"}
          /\ ~cache.meta.deleting => pc' # "delete"
          /\ pc' = "status" /\ ~issue' => begin = "status"
      BY <1>1, <1>4, <2>2, <2>4
    <2>7. Begun
      <3>1. instCurrent' = cacheCurrent /\ read' = NoRead
        BY <1>1, <1>4
      <3>2. QED
        BY <2>1, <2>3, <2>4, <2>5, <2>6, <3>1 DEF Begun
    <2>8. QED
      BY <1>1, <2>7 DEF Taken
  <1>5. QED
    BY <1>3, <1>4

(* The informers deliver. *)
Delivered ==
    /\ \/ /\ cache' = NoVaultSecret /\ cacheCurrent' \in BOOLEAN
          /\ cacheCurrent' <=> ~Exists(api.meta)
       \/ cache' = api /\ cacheCurrent' = TRUE
    /\ queued' \in BOOLEAN /\ (queued => queued')
    /\ cache'.meta.gen # cache.meta.gen /\ Exists(api.meta) => queued'

LEMMA WatchEffect ==
  ASSUME Typed, Watch
  PROVE  /\ Delivered
         /\ api' = api /\ lastGen' = lastGen /\ timer' = timer
         /\ secret' = secret /\ seen' = seen /\ seenCurrent' = seenCurrent
         /\ wake' = wake /\ foreign' = foreign
         /\ pc' = pc /\ inst' = inst /\ instCurrent' = instCurrent
         /\ issue' = issue /\ read' = read
         /\ faults' = faults /\ tampers' = tampers
  <1> DEFINE replaced == Exists(cache.meta) /\ cache.meta.uid # api.meta.uid
  <1>1. /\ cache' = IF replaced THEN NoVaultSecret ELSE api
        /\ cacheCurrent' = (replaced => ~Exists(api.meta))
        /\ queued' = (queued \/ replaced \/ cache.meta.gen # api.meta.gen)
    BY DEF Watch
  <1> HIDE DEF replaced
  <1>2. /\ cacheCurrent' \in BOOLEAN /\ (cacheCurrent' <=> (replaced => ~Exists(api.meta)))
    BY <1>1, Zenon
  <1>3. /\ queued' \in BOOLEAN
        /\ queued' <=> queued \/ replaced \/ cache.meta.gen # api.meta.gen
    BY <1>1, Zenon
  <1>4. Delivered
    <2>1. CASE replaced
      BY <1>1, <1>2, <1>3, <2>1 DEF Delivered
    <2>2. CASE ~replaced
      <3>1. cacheCurrent' = TRUE
        BY <1>2, <2>2
      <3>2. QED
        BY <1>1, <1>3, <2>2, <3>1 DEF Delivered
    <2>3. QED
      BY <2>1, <2>2
  <1>5. QED
    BY <1>4 DEF Watch, kube, secrets, secretInformer, worker, bounds
-----------------------------------------------------------------------------
(* Types, and how the copies stand to the stored version. *)

Base == Typed /\ Copies

LEMMA SecretTypes ==
    /\ NoSecret \in Secrets /\ ForeignSecret \in Secrets
    /\ ~Owned(NoSecret) /\ ~Owned(ForeignSecret) /\ ForeignSecret # NoSecret
    /\ NoRead.age = 0 /\ NoRead \in [age : 0..MaxAge, leases : SUBSET Leases]
    /\ \A s \in Secrets : s.owner \in Nat /\ s.age \in 0..MaxAge
  <1>1. 0 \in 0..MaxAge
    BY ConstantTypes
  <1>2. NoSecret.owner = 0 /\ NoSecret.intact = FALSE /\ NoSecret \in Secrets
    BY <1>1 DEF NoSecret, Secrets
  <1>3. ForeignSecret.owner = 0 /\ ForeignSecret.intact = TRUE /\ ForeignSecret \in Secrets
    BY <1>2 DEF ForeignSecret, NoSecret, Secrets
  <1>4. NoRead.age = 0 /\ NoRead \in [age : 0..MaxAge, leases : SUBSET Leases]
    BY <1>1 DEF NoRead
  <1>5. QED
    BY <1>2, <1>3, <1>4 DEF Owned, Secrets

LEMMA RenderedFacts ==
  ASSUME Typed
  PROVE  /\ Rendered \in Secrets /\ Rendered.owner = inst.meta.uid
         /\ Rendered.age = read.age /\ Rendered.intact = TRUE
         /\ Exists(inst.meta) => Owned(Rendered) /\ ~Spoiled(Rendered)
  <1>1. inst.meta.uid \in Nat /\ inst.meta.gen \in Nat /\ read.age \in 0..MaxAge
    BY SecretFields DEF Typed
  <1>2. /\ Rendered \in Secrets /\ Rendered.owner = inst.meta.uid
        /\ Rendered.age = read.age /\ Rendered.intact = TRUE
    BY <1>1 DEF Rendered, Secrets
  <1>3. QED
    BY <1>2, SecretTypes DEF Exists, Owned, Spoiled

LEMMA SyncedFacts ==
  ASSUME Typed
  PROVE  /\ Synced \in VaultSecrets /\ Synced.meta = inst.meta
         /\ Synced.since = 0 /\ Synced.leases = read.leases
         /\ Synced.refresh = inst.refresh
  <1> DEFINE obj == [inst EXCEPT !.since = 0, !.leases = read.leases]
  <1>1. /\ inst \in VaultSecrets /\ 0 \in 0..Never /\ read.leases \in SUBSET Leases
    BY ConstantTypes DEF Typed
  <1>2. /\ obj \in VaultSecrets /\ obj.meta = inst.meta /\ obj.since = 0
        /\ obj.leases = read.leases /\ obj.refresh = inst.refresh
    BY <1>1 DEF VaultSecrets
  <1>3. Synced = WithNext(obj)
    BY DEF Synced
  <1> HIDE DEF obj
  <1>4. QED
    BY <1>2, <1>3, WithNextFacts

LEMMA InitBase == Init => Base
  <1> SUFFICES ASSUME Init PROVE Base
    OBVIOUS
  <1>1. /\ api = NoVaultSecret /\ cache = NoVaultSecret /\ inst = NoVaultSecret
        /\ cacheCurrent = TRUE /\ lastGen = 0 /\ secret = NoSecret
        /\ seen = NoSecret /\ seenCurrent = TRUE /\ wake = FALSE
        /\ foreign = FALSE /\ queued = FALSE /\ timer = 0 /\ pc = "idle"
        /\ instCurrent = FALSE /\ issue = FALSE /\ read = NoRead
        /\ faults = 0 /\ tampers = 0
    BY DEF Init
  <1>2. /\ 0 \in 0..MaxGen /\ 0 \in 0..MaxAge /\ 0 \in 0..MaxFaults
        /\ 0 \in 0..MaxTampers /\ "idle" \in PCs
    BY ConstantTypes DEF PCs
  <1>3. Typed
    BY <1>1, <1>2, NoVaultSecretFacts, SecretTypes DEF Typed
  <1>4. Copies
    BY <1>1, NoVaultSecretFacts DEF Copies, Sound
  <1>5. QED
    BY <1>3, <1>4 DEF Base

LEMMA StoredBase ==
  ASSUME Base, Stored
  PROVE  Base'
  <1>1. Typed /\ Copies
    BY DEF Base
  <1>2. /\ lastGen \in Nat /\ lastGen' \in Nat /\ lastGen <= lastGen'
    BY <1>1, ConstantTypes DEF Stored, Typed
  <1>3. Typed'
    BY <1>1 DEF Stored, Typed
  <1>4. /\ cache.meta.gen \in Nat /\ inst.meta.gen \in Nat /\ api.meta.gen \in Nat
        /\ cache.meta.uid \in Nat /\ inst.meta.uid \in Nat /\ api.meta.uid \in Nat
        /\ api'.meta.uid \in Nat /\ api'.meta.gen \in Nat
    BY <1>1, <1>3, SecretFields DEF Typed
  <1>5. /\ cache' = cache /\ inst' = inst /\ pc' = pc /\ read' = read
        /\ cacheCurrent' = FALSE /\ instCurrent' = FALSE
    BY DEF Stored
  <1>6. Sound(cache)' /\ Sound(inst)'
    BY <1>1, <1>2, <1>4, <1>5 DEF Copies, Sound
  <1>7. Sound(api)'
    <2>1. CASE api' = NoVaultSecret
      BY <1>2, <2>1, NoVaultSecretFacts DEF Sound
    <2>2. CASE /\ lastGen' = lastGen + 1 /\ api'.meta.gen = lastGen'
               /\ api'.meta.uid = lastGen' /\ api'.since = Never
      BY <1>2, <2>2 DEF Sound, Exists
    <2>3. CASE /\ lastGen' = lastGen + 1 /\ api'.meta.gen = lastGen'
               /\ Exists(api.meta) /\ api'.meta.uid = api.meta.uid
               /\ api'.since = api.since /\ api'.leases = api.leases
      BY <1>1, <1>2, <1>4, <2>3 DEF Copies, Sound, Exists
    <2>4. QED
      BY <2>1, <2>2, <2>3 DEF Stored
  <1>8. ~(Exists(cache.meta) /\ cache.meta.gen = api'.meta.gen)
    <2>1. SUFFICES ASSUME Exists(cache.meta), cache.meta.gen = api'.meta.gen
                   PROVE FALSE
      OBVIOUS
    <2>2. cache.meta.gen # 0 /\ cache.meta.gen <= lastGen
      BY <1>1, <1>4, <2>1 DEF Copies, Sound, Exists
    <2>3. CASE api' = NoVaultSecret
      BY <2>1, <2>2, <2>3, NoVaultSecretFacts
    <2>4. CASE lastGen' = lastGen + 1 /\ api'.meta.gen = lastGen'
      BY <1>2, <1>4, <2>1, <2>2, <2>4
    <2>5. QED
      BY <2>3, <2>4 DEF Stored
  <1>9. Copies'
    BY <1>1, <1>5, <1>6, <1>7, <1>8 DEF Copies
  <1>10. QED
    BY <1>3, <1>9 DEF Base

LEMMA MeddledBase ==
  ASSUME Base, Meddled
  PROVE  Base'
  <1>1. secret' \in Secrets
    BY SecretTypes DEF Base, Typed, Meddled, Secrets
  <1>2. /\ seenCurrent' \in BOOLEAN /\ wake' \in BOOLEAN /\ foreign' \in BOOLEAN
    BY DEF Meddled, SecretWritten, Base, Typed
  <1>3. Typed'
    BY <1>1, <1>2 DEF Base, Typed, Meddled
  <1>4. Copies'
    BY DEF Base, Copies, Sound, Meddled
  <1>5. QED
    BY <1>3, <1>4 DEF Base
LEMMA TakenBase ==
  ASSUME Base, Taken
  PROVE  Base'
  <1>1. Typed /\ Copies
    BY DEF Base
  <1>2. CASE Begun
    <2>1. Typed'
      <3>1. pc' \in PCs
        BY <1>2 DEF Begun, PCs
      <3>2. QED
        BY <1>1, <1>2, <3>1, SecretTypes DEF Taken, Begun, Typed
    <2>2. Sound(api)' /\ Sound(cache)'
      BY <1>1 DEF Copies, Sound, Taken
    <2>3. Sound(inst)'
      BY <1>1, <1>2 DEF Copies, Sound, Taken, Begun
    <2>4. instCurrent' => pc' # "idle" /\ inst'.meta = api'.meta
      BY <1>1, <1>2 DEF Copies, Taken, Begun
    <2>5. Copies'
      BY <1>1, <1>2, <2>2, <2>3, <2>4 DEF Copies, Taken, Begun
    <2>6. QED
      BY <2>1, <2>5 DEF Base
  <1>3. CASE /\ ~Live(cache) /\ pc' = pc /\ inst' = inst /\ instCurrent' = instCurrent
             /\ issue' = issue /\ read' = read
    <2>1. Typed'
      BY <1>1, <1>3 DEF Taken, Typed
    <2>2. Copies'
      BY <1>1, <1>3 DEF Taken, Copies, Sound
    <2>3. QED
      BY <2>1, <2>2 DEF Base
  <1>4. QED
    BY <1>2, <1>3 DEF Taken

LEMMA WatchBase ==
  ASSUME Base, Watch
  PROVE  Base'
  <1>1. Typed /\ Copies
    BY DEF Base
  <1>2. /\ Delivered
        /\ api' = api /\ lastGen' = lastGen /\ timer' = timer
        /\ secret' = secret /\ seen' = seen /\ seenCurrent' = seenCurrent
        /\ wake' = wake /\ foreign' = foreign
        /\ pc' = pc /\ inst' = inst /\ instCurrent' = instCurrent
        /\ issue' = issue /\ read' = read
        /\ faults' = faults /\ tampers' = tampers
    BY <1>1, WatchEffect
  <1>3. cache' \in {NoVaultSecret, api} /\ cacheCurrent' \in BOOLEAN /\ queued' \in BOOLEAN
    BY <1>2 DEF Delivered
  <1>4. Typed'
    BY <1>1, <1>2, <1>3, NoVaultSecretFacts DEF Typed
  <1>5. cacheCurrent' => cache' = api'
    BY <1>1, <1>2 DEF Delivered, Copies, Sound
  <1>6. Sound(api)' /\ Sound(inst)'
    BY <1>1, <1>2 DEF Copies, Sound
  <1>7. Sound(cache)'
    <2>1. lastGen \in Nat
      BY <1>1, ConstantTypes DEF Typed
    <2>2. Sound(NoVaultSecret) /\ Sound(api)
      BY <1>1, <2>1, NoVaultSecretFacts DEF Copies, Sound
    <2>3. QED
      BY <1>2, <1>3, <2>2 DEF Sound
  <1>8. Exists(cache'.meta) => cache' = api
    BY <1>3, NoVaultSecretFacts
  <1>9. Copies'
    BY <1>1, <1>2, <1>5, <1>6, <1>7, <1>8 DEF Copies
  <1>10. QED
    BY <1>4, <1>9 DEF Base

LEMMA WatchSecretEffect ==
  ASSUME WatchSecret
  PROVE  /\ seen' = secret /\ seenCurrent' = TRUE /\ wake' = FALSE
         /\ queued' \in BOOLEAN /\ (queued' <=> queued \/ wake)
         /\ api' = api /\ lastGen' = lastGen /\ cache' = cache
         /\ cacheCurrent' = cacheCurrent /\ secret' = secret /\ foreign' = foreign
         /\ timer' = timer /\ pc' = pc /\ inst' = inst
         /\ instCurrent' = instCurrent /\ issue' = issue /\ read' = read
         /\ faults' = faults /\ tampers' = tampers
  <1>1. queued' = (queued \/ wake)
    BY DEF WatchSecret
  <1>2. queued' \in BOOLEAN /\ (queued' <=> queued \/ wake)
    BY <1>1, Zenon
  <1>3. QED
    BY <1>2 DEF WatchSecret, kube, informer, secrets, worker, bounds

LEMMA WatchSecretBase ==
  ASSUME Base, WatchSecret
  PROVE  Base'
  <1>1. Typed'
    BY WatchSecretEffect DEF Base, Typed
  <1>2. Copies'
    BY WatchSecretEffect DEF Base, Copies, Sound
  <1>3. QED
    BY <1>1, <1>2 DEF Base

LEMMA CrashEffect ==
  ASSUME Crash
  PROVE  /\ queued' = FALSE /\ timer' = 0 /\ cache' = NoVaultSecret
         /\ cacheCurrent' \in BOOLEAN /\ (cacheCurrent' <=> ~Exists(api.meta))
         /\ seen' = secret /\ seenCurrent' = TRUE /\ wake' = FALSE
         /\ pc' = "idle" /\ inst' = NoVaultSecret /\ instCurrent' = FALSE
         /\ issue' = FALSE /\ read' = NoRead
         /\ api' = api /\ lastGen' = lastGen /\ secret' = secret
         /\ foreign' = foreign /\ tampers' = tampers
         /\ faults < MaxFaults /\ faults' = faults + 1
  <1>1. cacheCurrent' = ~Exists(api.meta)
    BY DEF Crash
  <1>2. cacheCurrent' \in BOOLEAN /\ (cacheCurrent' <=> ~Exists(api.meta))
    BY <1>1, Zenon
  <1>3. QED
    BY <1>2 DEF Crash, Fault, kube, secrets

LEMMA CrashBase ==
  ASSUME Base, Crash
  PROVE  Base'
  <1>1. Typed /\ Copies /\ lastGen \in Nat
    BY ConstantTypes DEF Base, Typed
  <1>2. Typed'
    <2>1. faults' \in 0..MaxFaults
      BY <1>1, CrashEffect, ConstantTypes DEF Typed
    <2>2. 0 \in 0..MaxAge /\ "idle" \in PCs
      BY ConstantTypes DEF PCs
    <2>3. QED
      BY <1>1, <2>1, <2>2, CrashEffect, NoVaultSecretFacts, SecretTypes DEF Typed
  <1>3. Sound(api)' /\ Sound(cache)' /\ Sound(inst)'
    BY <1>1, CrashEffect, NoVaultSecretFacts DEF Copies, Sound
  <1>4. cacheCurrent' => cache' = api'
    BY <1>1, CrashEffect DEF Copies, Sound
  <1>5. Copies'
    BY <1>3, <1>4, CrashEffect, NoVaultSecretFacts DEF Copies
  <1>6. QED
    BY <1>2, <1>5 DEF Base

LEMMA Ages ==
  /\ \A a \in 0..MaxAge : Older(a) \in 0..MaxAge
  /\ \A a \in 0..MaxAge : Older(a) <= a + 1
  /\ \A a \in 0..MaxAge, b \in 0..MaxAge, n \in Nat :
       a <= b + n => Older(a) <= Older(b) + n
  BY ConstantTypes DEF Older

LEMMA AgedFacts ==
  ASSUME NEW obj \in VaultSecrets
  PROVE  /\ Aged(obj) \in VaultSecrets /\ Aged(obj).meta = obj.meta
         /\ Aged(obj).leases = obj.leases /\ Aged(obj).refresh = obj.refresh
         /\ Aged(obj).since = Never <=> obj.since = Never
         /\ obj.since # Never => Aged(obj).since = Older(obj.since)
         /\ obj.since = Never => Aged(obj) = obj
  <1> DEFINE new == IF obj.since = Never THEN Never ELSE Older(obj.since)
  <1>1. obj.since # Never => obj.since \in 0..MaxAge
    BY SecretFields
  <1>2. obj.since # Never => Older(obj.since) \in 0..MaxAge
    BY <1>1, Ages
  <1>3. new \in 0..Never /\ (new = Never <=> obj.since = Never)
    BY <1>2, ConstantTypes
  <1>4. Aged(obj) = [obj EXCEPT !.since = new]
    BY DEF Aged
  <1> HIDE DEF new
  <1>5. /\ [obj EXCEPT !.since = new] \in VaultSecrets
        /\ [obj EXCEPT !.since = new].meta = obj.meta
        /\ [obj EXCEPT !.since = new].leases = obj.leases
        /\ [obj EXCEPT !.since = new].refresh = obj.refresh
        /\ [obj EXCEPT !.since = new].since = new
        /\ new = obj.since => [obj EXCEPT !.since = new] = obj
    BY <1>3 DEF VaultSecrets
  <1>6. obj.since # Never => new = Older(obj.since)
    BY DEF new
  <1>7. obj.since = Never => new = obj.since
    BY DEF new
  <1>8. QED
    BY <1>3, <1>4, <1>5, <1>6, <1>7

LEMMA AgedSecretFacts ==
  ASSUME NEW s \in Secrets
  PROVE  /\ AgedSecret(s) \in Secrets /\ AgedSecret(s).owner = s.owner
         /\ AgedSecret(s).intact = s.intact
         /\ AgedSecret(s) = NoSecret <=> s = NoSecret
         /\ AgedSecret(s).age = s.age \/ AgedSecret(s).age = Older(s.age)
  <1>1. s.age \in 0..MaxAge /\ Older(s.age) \in 0..MaxAge
    BY SecretTypes, Ages
  <1>2. CASE s.gen = 0
    BY <1>2 DEF AgedSecret
  <1>3. CASE s.gen # 0
    <2>1. AgedSecret(s) = [s EXCEPT !.age = Older(s.age)]
      BY <1>3 DEF AgedSecret
    <2>2. /\ AgedSecret(s) \in Secrets /\ AgedSecret(s).owner = s.owner
          /\ AgedSecret(s).intact = s.intact /\ AgedSecret(s).gen = s.gen
          /\ AgedSecret(s).age = Older(s.age)
      BY <1>1, <2>1 DEF Secrets
    <2>3. NoSecret.gen = 0
      BY DEF NoSecret
    <2>4. QED
      BY <1>3, <2>2, <2>3
  <1>4. QED
    BY <1>2, <1>3

LEMMA TickEffect ==
  ASSUME Base, Tick
  PROVE  /\ \/ Quiet /\ faults' = faults
            \/ ~Quiet /\ faults < MaxFaults /\ faults' = faults + 1
         /\ api' = Aged(api) /\ cache' = Aged(cache) /\ inst' = Aged(inst)
         /\ secret' = AgedSecret(secret) /\ seen' = AgedSecret(seen)
         /\ read'.age = read.age \/ read'.age = Older(read.age)
         /\ read'.age \in 0..MaxAge /\ read'.leases = read.leases
         /\ read' \in [age : 0..MaxAge, leases : SUBSET Leases]
         /\ read = NoRead => read' = NoRead
         /\ timer > 0 => timer' = timer - 1
         /\ timer' \in 0..MaxAge
         /\ queued' \in BOOLEAN /\ (queued' <=> queued \/ timer = 1)
         /\ lastGen' = lastGen /\ cacheCurrent' = cacheCurrent
         /\ seenCurrent' = seenCurrent /\ wake' = wake /\ foreign' = foreign
         /\ pc' = pc /\ instCurrent' = instCurrent /\ issue' = issue
         /\ tampers' = tampers
  <1>1. queued' = (queued \/ timer = 1)
    BY DEF Tick
  <1>2. queued' \in BOOLEAN /\ (queued' <=> queued \/ timer = 1)
    BY <1>1, Zenon
  <1>3. /\ timer > 0 => timer' = timer - 1
        /\ timer' \in 0..MaxAge
    BY ConstantTypes DEF Tick, Base, Typed
  <1>4. /\ read'.age = read.age \/ read'.age = Older(read.age)
        /\ read'.age \in 0..MaxAge /\ read'.leases = read.leases
        /\ read' \in [age : 0..MaxAge, leases : SUBSET Leases]
        /\ read = NoRead => read' = NoRead
    <2>1. read \in [age : 0..MaxAge, leases : SUBSET Leases]
      BY DEF Base, Typed
    <2>2. read' = IF read = NoRead THEN read ELSE [read EXCEPT !.age = Older(read.age)]
      BY DEF Tick
    <2>3. Older(read.age) \in 0..MaxAge
      BY <2>1, Ages
    <2>4. QED
      BY <2>1, <2>2, <2>3
  <1>5. \/ Quiet /\ faults' = faults
        \/ ~Quiet /\ faults < MaxFaults /\ faults' = faults + 1
    BY DEF Tick, NoFault, Fault
  <1>6. QED
    BY <1>2, <1>3, <1>4, <1>5 DEF Tick

(* Aging changes none of what Sound and the orders are about. *)
LEMMA TickKeeps ==
  ASSUME Base, Tick
  PROVE  /\ api'.meta = api.meta /\ cache'.meta = cache.meta
         /\ inst'.meta = inst.meta
         /\ api'.since = Never <=> api.since = Never
         /\ cache'.since = Never <=> cache.since = Never
         /\ inst'.since = Never <=> inst.since = Never
         /\ secret'.owner = secret.owner /\ seen'.owner = seen.owner
         /\ secret'.intact = secret.intact /\ seen'.intact = seen.intact
         /\ secret' = NoSecret <=> secret = NoSecret
         /\ seen' = NoSecret <=> seen = NoSecret
  <1>1. /\ api \in VaultSecrets /\ cache \in VaultSecrets /\ inst \in VaultSecrets
        /\ secret \in Secrets /\ seen \in Secrets
    BY DEF Base, Typed
  <1>2. /\ api' = Aged(api) /\ cache' = Aged(cache) /\ inst' = Aged(inst)
        /\ secret' = AgedSecret(secret) /\ seen' = AgedSecret(seen)
    BY TickEffect
  <1>3. /\ Aged(api).meta = api.meta /\ Aged(cache).meta = cache.meta
        /\ Aged(inst).meta = inst.meta
        /\ Aged(api).since = Never <=> api.since = Never
        /\ Aged(cache).since = Never <=> cache.since = Never
        /\ Aged(inst).since = Never <=> inst.since = Never
    BY <1>1, AgedFacts
  <1>4. /\ AgedSecret(secret).owner = secret.owner
        /\ AgedSecret(seen).owner = seen.owner
        /\ AgedSecret(secret).intact = secret.intact
        /\ AgedSecret(seen).intact = seen.intact
        /\ AgedSecret(secret) = NoSecret <=> secret = NoSecret
        /\ AgedSecret(seen) = NoSecret <=> seen = NoSecret
    BY <1>1, AgedSecretFacts
  <1>5. QED
    BY <1>2, <1>3, <1>4

LEMMA TickBase ==
  ASSUME Base, Tick
  PROVE  Base'
  <1>1. Typed /\ Copies
    BY DEF Base
  <1>2. /\ api' \in VaultSecrets /\ cache' \in VaultSecrets /\ inst' \in VaultSecrets
        /\ api'.leases = api.leases /\ cache'.leases = cache.leases
        /\ inst'.leases = inst.leases
    BY <1>1, TickEffect, AgedFacts DEF Typed
  <1>3. secret' \in Secrets /\ seen' \in Secrets
    BY <1>1, TickEffect, AgedSecretFacts DEF Typed
  <1>4. faults' \in 0..MaxFaults
    BY <1>1, TickEffect, ConstantTypes DEF Typed
  <1>5. Typed'
    BY <1>1, <1>2, <1>3, <1>4, TickEffect DEF Typed
  <1>6. ASSUME NEW obj \in VaultSecrets, obj = NoVaultSecret
        PROVE  Aged(obj) = NoVaultSecret
    BY <1>6, AgedFacts, NoVaultSecretFacts
  <1>7. Sound(api)' /\ Sound(cache)' /\ Sound(inst)'
    BY <1>1, <1>2, <1>6, TickEffect, TickKeeps DEF Typed, Copies, Sound
  <1>8. pc' = "idle" => inst' = NoVaultSecret /\ read' = NoRead
    BY <1>1, <1>6, TickEffect DEF Typed, Copies
  <1>9. cacheCurrent' => cache' = api'
    BY <1>1, TickEffect DEF Copies
  <1>10. pc' = "put" => read'.leases # {}
    BY <1>1, TickEffect DEF Copies
  <1>11. Copies'
    BY <1>1, <1>7, <1>8, <1>9, <1>10, TickEffect, TickKeeps DEF Copies
  <1>12. QED
    BY <1>5, <1>11 DEF Base

(* What a call leaves of the worker's copy. *)
LEMMA CallBase ==
  ASSUME Base, Call
  PROVE  Base'
  <1>1. /\ Typed /\ Copies /\ Kept /\ inst \in VaultSecrets /\ lastGen \in Nat
        /\ cache' = cache /\ lastGen' = lastGen
    BY ConstantTypes DEF Base, Typed, Call, Kept
  <1>2. /\ cache' \in VaultSecrets /\ lastGen' \in 0..MaxGen
        /\ queued' \in BOOLEAN /\ seen' \in Secrets /\ foreign' \in BOOLEAN
        /\ tampers' \in 0..MaxTampers /\ faults' \in 0..MaxFaults
    BY <1>1, ConstantTypes DEF Kept, Typed
  <1>3. ASSUME SecretKept \/ SecretWritten(NoSecret) \/ SecretWritten(Rendered)
        PROVE  secret' \in Secrets /\ seenCurrent' \in BOOLEAN /\ wake' \in BOOLEAN
    <2>1. NoSecret \in Secrets /\ Rendered \in Secrets
      BY <1>1, SecretTypes, RenderedFacts
    <2>2. QED
      BY <1>1, <1>3, <2>1 DEF SecretKept, SecretWritten, Typed
  <1>4. ASSUME api' \in VaultSecrets, inst' \in VaultSecrets,
               cacheCurrent' \in BOOLEAN, instCurrent' \in BOOLEAN,
               issue' \in BOOLEAN, pc' \in PCs, timer' \in 0..MaxAge,
               read' \in [age : 0..MaxAge, leases : SUBSET Leases],
               SecretKept \/ SecretWritten(NoSecret) \/ SecretWritten(Rendered)
        PROVE  Typed'
    BY <1>2, <1>3, <1>4 DEF Typed
  <1>5. Sound(cache)'
    BY <1>1 DEF Copies, Sound
  <1>6. \A obj : obj = NoVaultSecret => Sound(obj)
    BY <1>1, NoVaultSecretFacts DEF Sound
  <1>7. ASSUME ApiKept
        PROVE  /\ api' \in VaultSecrets /\ cacheCurrent' \in BOOLEAN
               /\ Sound(api)' /\ api'.meta = api.meta
               /\ cacheCurrent' => cache' = api'
               /\ Exists(cache'.meta) /\ cache'.meta.gen = api'.meta.gen =>
                    /\ cache'.meta.uid = api'.meta.uid
                    /\ cache'.meta.deleting = api'.meta.deleting
    BY <1>1, <1>7 DEF ApiKept, Typed, Copies, Sound
  <1>8. ASSUME WorkerKept
        PROVE  /\ inst' \in VaultSecrets /\ instCurrent' \in BOOLEAN
               /\ timer' \in 0..MaxAge /\ Sound(inst)'
               /\ inst'.meta = inst.meta
    BY <1>1, <1>8 DEF WorkerKept, Typed, Copies, Sound
  <1>9. /\ pc # "idle" => Exists(inst.meta)
        /\ instCurrent => inst.meta = api.meta
    BY <1>1 DEF Copies
  <1>10. {"idle", "read", "put", "status", "addFinalizer", "delete",
          "removeFinalizer"} = PCs
    BY DEF PCs
  <1>11. read \in [age : 0..MaxAge, leases : SUBSET Leases] /\ issue \in BOOLEAN
    BY <1>1 DEF Typed
  <1>12. CASE ReadDone
    <2>1. ApiKept /\ WorkerKept /\ SecretKept /\ pc = "read" /\ pc' = "put"
      BY <1>12 DEF ReadDone
    <2>2. /\ read' \in [age : 0..MaxAge, leases : SUBSET Leases]
          /\ read'.leases # {}
      <3>1. PICK leases \in SUBSET Leases :
              leases # {} /\ read' = [age |-> 0, leases |-> leases]
        BY <1>12 DEF ReadDone
      <3>2. 0 \in 0..MaxAge
        BY ConstantTypes
      <3>3. QED
        BY <3>1, <3>2
    <2>3. Typed'
      <3>1. issue' \in BOOLEAN /\ pc' \in PCs
        BY <1>10, <1>11, <1>12 DEF ReadDone
      <3>2. QED
        BY <1>4, <1>7, <1>8, <2>1, <2>2, <3>1
    <2>4. instCurrent' => inst'.meta = api'.meta
      BY <1>9, <2>1 DEF WorkerKept, ApiKept
    <2>5. Copies'
      BY <1>5, <1>7, <1>8, <1>9, <2>1, <2>2, <2>4 DEF Copies
    <2>6. QED
      BY <2>3, <2>5 DEF Base
  <1>13. CASE Failed
    <2>1. /\ ApiKept /\ WorkerKept /\ pc # "idle" /\ pc' = "status"
          /\ issue' = TRUE /\ read' = NoRead
          /\ SecretKept \/ SecretWritten(NoSecret) \/ SecretWritten(Rendered)
      BY <1>13 DEF Failed
    <2>2. Typed'
      BY <1>4, <1>7, <1>8, <1>10, <2>1, SecretTypes
    <2>3. instCurrent' => inst'.meta = api'.meta
      BY <1>9, <2>1 DEF WorkerKept, ApiKept
    <2>4. Copies'
      BY <1>5, <1>7, <1>8, <1>9, <2>1, <2>3 DEF Copies
    <2>5. QED
      BY <2>2, <2>4 DEF Base
  <1>14. CASE PutDone
    <2>1. /\ ApiKept /\ pc = "put" /\ pc' = "status" /\ SecretWritten(Rendered)
          /\ inst' = Synced /\ instCurrent' = instCurrent /\ timer' = timer
          /\ issue' = issue /\ read' = read
      BY <1>14 DEF PutDone
    <2>2. /\ inst' \in VaultSecrets /\ inst'.meta = inst.meta
          /\ inst'.leases = read.leases
      BY <1>1, <2>1, SyncedFacts
    <2>3. Typed'
      <3>1. timer' \in 0..MaxAge /\ instCurrent' \in BOOLEAN
        BY <1>1, <2>1 DEF Typed
      <3>2. QED
        BY <1>4, <1>7, <1>10, <1>11, <2>1, <2>2, <3>1
    <2>4. Sound(inst)'
      <3>1. read.leases # {}
        BY <1>1, <2>1 DEF Copies
      <3>2. QED
        BY <1>1, <1>9, <2>1, <2>2, <3>1 DEF Copies, Sound
    <2>5. instCurrent' => inst'.meta = api'.meta
      BY <1>9, <2>1, <2>2 DEF ApiKept
    <2>6. Copies'
      BY <1>5, <1>7, <1>9, <2>1, <2>2, <2>4, <2>5 DEF Copies
    <2>7. QED
      BY <2>3, <2>6 DEF Base
  <1>15. CASE Deleted
    <2>1. /\ ApiKept /\ WorkerKept /\ pc = "delete" /\ pc' = "removeFinalizer"
          /\ SecretWritten(NoSecret) /\ issue' = issue /\ read' = read
      BY <1>15 DEF Deleted
    <2>2. Typed'
      BY <1>4, <1>7, <1>8, <1>10, <1>11, <2>1
    <2>3. instCurrent' => inst'.meta = api'.meta
      BY <1>9, <2>1 DEF WorkerKept, ApiKept
    <2>4. Copies'
      BY <1>5, <1>7, <1>8, <1>9, <2>1, <2>3 DEF Copies
    <2>5. QED
      BY <2>2, <2>4 DEF Base
  <1>16. ASSUME NEW obj, obj \in VaultSecrets, ApiStored(obj), Sound(obj),
                obj = NoVaultSecret \/ LikeInst(obj)
         PROVE  /\ api' \in VaultSecrets /\ cacheCurrent' \in BOOLEAN
                /\ Sound(api)' /\ cacheCurrent' = FALSE
                /\ Exists(cache'.meta) /\ cache'.meta.gen = api'.meta.gen =>
                     /\ cache'.meta.uid = api'.meta.uid
                     /\ cache'.meta.deleting = api'.meta.deleting
    <2>1. api' = obj /\ cacheCurrent' = FALSE /\ inst.meta = api.meta
      BY <1>9, <1>16 DEF ApiStored
    <2>2. Sound(api)'
      BY <1>1, <1>16, <2>1 DEF Sound
    <2>3. CASE obj = NoVaultSecret
      <3>1. api'.meta.gen = 0
        BY <2>1, <2>3, NoVaultSecretFacts
      <3>2. Exists(cache.meta) => cache.meta.gen # 0
        BY <1>1, SecretFields DEF Typed, Copies, Sound, Exists
      <3>3. QED
        BY <1>1, <1>16, <2>1, <2>2, <3>1, <3>2
    <2>4. CASE LikeInst(obj)
      <3>1. /\ api'.meta.uid = api.meta.uid /\ api'.meta.gen = api.meta.gen
            /\ api'.meta.deleting = api.meta.deleting
        BY <2>1, <2>4 DEF LikeInst
      <3>2. QED
        BY <1>1, <1>16, <2>1, <2>2, <3>1 DEF Copies
    <2>5. QED
      BY <1>16, <2>3, <2>4
  <1>17. ASSUME NEW obj, LikeInst(obj), pc # "idle"
         PROVE  obj \in VaultSecrets /\ Sound(obj)
    <2>1. /\ Exists(inst.meta) /\ inst.meta.uid <= inst.meta.gen
          /\ inst.meta.gen <= lastGen
          /\ inst.since # Never => inst.leases # {}
      BY <1>1, <1>17 DEF Copies, Sound
    <2>2. QED
      BY <1>17, <2>1 DEF LikeInst, Sound, Exists
  <1>18. CASE Recorded
    <2>1. /\ ApiStored(inst) /\ SecretKept /\ WorkerKept
          /\ pc = "status" /\ pc' = "addFinalizer" /\ issue' = issue /\ read' = read
      BY <1>18 DEF Recorded
    <2>2. LikeInst(inst)
      BY <1>1 DEF LikeInst
    <2>3. Sound(inst)
      BY <1>17, <2>1, <2>2
    <2>4. /\ api' \in VaultSecrets /\ cacheCurrent' \in BOOLEAN
          /\ Sound(api)' /\ cacheCurrent' = FALSE
          /\ Exists(cache'.meta) /\ cache'.meta.gen = api'.meta.gen =>
               /\ cache'.meta.uid = api'.meta.uid
               /\ cache'.meta.deleting = api'.meta.deleting
      BY <1>1, <1>16, <2>1, <2>2, <2>3
    <2>5. Typed'
      BY <1>4, <1>8, <1>10, <1>11, <2>1, <2>4
    <2>6. inst'.meta = api'.meta
      BY <2>1 DEF ApiStored, WorkerKept
    <2>7. Copies'
      BY <1>5, <1>8, <1>9, <2>1, <2>4, <2>6 DEF Copies
    <2>8. QED
      BY <2>5, <2>7 DEF Base
  <1>19. ASSUME NEW r \in 0..MaxAge, Ended(r), api' \in VaultSecrets,
                cacheCurrent' \in BOOLEAN, Sound(api)',
                cacheCurrent' => cache' = api',
                Exists(cache'.meta) /\ cache'.meta.gen = api'.meta.gen =>
                  /\ cache'.meta.uid = api'.meta.uid
                  /\ cache'.meta.deleting = api'.meta.deleting
         PROVE  Base'
    <2>1. /\ pc' = "idle" /\ inst' = NoVaultSecret /\ instCurrent' = FALSE
          /\ issue' = FALSE /\ read' = NoRead /\ SecretKept
          /\ timer' = Earlier(timer, r)
      BY <1>19 DEF Ended
    <2>2. timer' \in 0..MaxAge
      BY <1>1, <2>1, EarlierFacts DEF Typed
    <2>3. Typed'
      BY <1>4, <1>10, <1>19, <2>1, <2>2, NoVaultSecretFacts, SecretTypes
    <2>4. Sound(inst)'
      BY <1>1, <2>1, NoVaultSecretFacts DEF Sound
    <2>5. Copies'
      BY <1>5, <1>19, <2>1, <2>4 DEF Copies
    <2>6. QED
      BY <2>3, <2>5 DEF Base
  <1>20. 0 \in 0..MaxAge /\ 1 \in 0..MaxAge /\ RequeueAfter \in 0..MaxAge
    BY <1>1, ConstantTypes, RequeueFacts
  <1>21. CASE Finished
    <2>1. CASE ApiKept /\ Ended(1)
      BY <1>7, <1>19, <1>20, <2>1
    <2>2. CASE \E obj : /\ LikeInst(obj) /\ ApiStored(obj)
                        /\ Ended(1) \/ Ended(RequeueAfter)
      <3>1. PICK obj : /\ LikeInst(obj) /\ ApiStored(obj)
                       /\ Ended(1) \/ Ended(RequeueAfter)
        BY <2>2
      <3>2. obj \in VaultSecrets /\ Sound(obj)
        BY <1>17, <1>21, <3>1 DEF Finished
      <3>3. QED
        BY <1>16, <1>19, <1>20, <3>1, <3>2
    <2>3. QED
      BY <1>21, <2>1, <2>2 DEF Finished
  <1>22. CASE Removed
    <2>1. ApiStored(NoVaultSecret) /\ pc = "removeFinalizer"
      BY <1>22 DEF Removed
    <2>2. NoVaultSecret \in VaultSecrets /\ Sound(NoVaultSecret)
      BY <1>6, NoVaultSecretFacts
    <2>3. CASE Ended(0)
      BY <1>16, <1>19, <1>20, <2>1, <2>2, <2>3
    <2>4. CASE /\ pc' = "status" /\ issue' = TRUE /\ instCurrent' = FALSE
               /\ inst' = inst /\ read' = read /\ timer' = timer /\ SecretKept
      <3>1. /\ api' \in VaultSecrets /\ cacheCurrent' \in BOOLEAN
            /\ Sound(api)' /\ cacheCurrent' = FALSE
            /\ Exists(cache'.meta) /\ cache'.meta.gen = api'.meta.gen =>
                 /\ cache'.meta.uid = api'.meta.uid
                 /\ cache'.meta.deleting = api'.meta.deleting
        BY <1>16, <2>1, <2>2
      <3>2. timer' \in 0..MaxAge /\ inst' \in VaultSecrets
        BY <1>1, <2>4 DEF Typed
      <3>3. Typed'
        BY <1>4, <1>10, <1>11, <2>4, <3>1, <3>2
      <3>4. Sound(inst)' /\ Exists(inst'.meta)
        BY <1>1, <2>1, <2>4 DEF Copies, Sound
      <3>5. Copies'
        BY <1>5, <2>4, <3>1, <3>4 DEF Copies
      <3>6. QED
        BY <3>3, <3>5 DEF Base
    <2>5. QED
      BY <1>22, <2>3, <2>4 DEF Removed
  <1>23. QED
    BY <1>12, <1>13, <1>14, <1>15, <1>18, <1>21, <1>22 DEF Call

LEMMA StutterEffect ==
  ASSUME UNCHANGED vars
  PROVE  /\ api' = api /\ lastGen' = lastGen /\ cache' = cache
         /\ cacheCurrent' = cacheCurrent /\ secret' = secret
         /\ foreign' = foreign /\ seen' = seen /\ seenCurrent' = seenCurrent
         /\ wake' = wake /\ queued' = queued /\ timer' = timer /\ pc' = pc
         /\ inst' = inst /\ instCurrent' = instCurrent /\ issue' = issue
         /\ read' = read /\ faults' = faults /\ tampers' = tampers
  BY DEF vars, kube, informer, secrets, secretInformer, work, worker, bounds

(* Every step is one of these effects. *)
LEMMA Effects ==
  ASSUME Base, [Next]_vars
  PROVE  \/ Stored \/ Meddled \/ Taken \/ Call
         \/ Watch \/ WatchSecret \/ Tick \/ Crash \/ UNCHANGED vars
  <1>1. Typed /\ inst \in VaultSecrets
    BY DEF Base, Typed
  <1>2. CASE UserCreate \/ UserEdit \/ UserDelete
    BY <1>1, <1>2, UserEffect
  <1>3. CASE Tamper \/ CollectSecret
    BY <1>1, <1>3, MeddledEffect
  <1>4. CASE Step
    <2>1. CASE Take
      BY <1>1, <2>1, TakeEffect
    <2>2. CASE Read \/ Put \/ Delete \/ Status \/ AddFinalizer \/ RemoveFinalizer
      BY <1>1, <2>2, CallEffect
    <2>3. QED
      BY <1>4, <2>1, <2>2 DEF Step
  <1>5. QED
    BY <1>2, <1>3, <1>4 DEF Next

LEMMA NextBase == Base /\ [Next]_vars => Base'
  <1> SUFFICES ASSUME Base, [Next]_vars PROVE Base'
    OBVIOUS
  <1>1. CASE UNCHANGED vars
    <2>1. Typed'
      BY <1>1, StutterEffect DEF Base, Typed
    <2>2. Copies'
      BY <1>1, StutterEffect DEF Base, Copies, Sound
    <2>3. QED
      BY <2>1, <2>2 DEF Base
  <1>2. QED
    BY <1>1, Effects, StoredBase, MeddledBase, TakenBase, CallBase, WatchBase,
       WatchSecretBase, TickBase, CrashBase

(* In every reachable state the copies of the VaultSecret are versions     *)
(* that it had, and a copy that counts as the stored version is it.        *)
THEOREM BaseInvariant == Spec => []Base
  <1>1. Init => Base
    BY InitBase
  <1>2. Base /\ [Next]_vars => Base'
    BY NextBase
  <1>3. QED
    BY <1>1, <1>2, PTL DEF Spec

(* The variables have their types, and the worker has a copy exactly while *)
(* a cycle runs.                                                           *)
THEOREM VaultSecretTyped == Spec => []TypeOK
  <1>1. Base => TypeOK
    <2> SUFFICES ASSUME Base PROVE TypeOK
      OBVIOUS
    <2>1. pc = "idle" <=> inst = NoVaultSecret
      BY NoVaultSecretFacts DEF Base, Copies
    <2>2. QED
      BY <2>1 DEF Base, Typed, TypeOK
  <1>2. QED
    BY <1>1, BaseInvariant, PTL
-----------------------------------------------------------------------------
(* A K8s Secret that is not right is attended to. *)

LEMMA InitAttended == Init => Order /\ Watched /\ Attended
  <1> SUFFICES ASSUME Init PROVE Order /\ Watched /\ Attended
    OBVIOUS
  <1>1. /\ api = NoVaultSecret /\ cache = NoVaultSecret /\ inst = NoVaultSecret
        /\ lastGen = 0 /\ secret = NoSecret /\ seen = NoSecret /\ wake = FALSE
        /\ NoSecret.owner = 0 /\ seenCurrent = TRUE
    BY DEF Init, NoSecret
  <1>2. Order
    BY <1>1, NoVaultSecretFacts, SecretTypes DEF Order, Before
  <1>3. Watched
    BY <1>1 DEF Watched, Spoiled
  <1>4. Attended
    BY <1>1, NoVaultSecretFacts DEF Attended, Live
  <1>5. QED
    BY <1>2, <1>3, <1>4

(* The numbers that are compared. *)
LEMMA Numbers ==
  ASSUME Typed
  PROVE  /\ api.meta.uid \in Nat /\ cache.meta.uid \in Nat
         /\ inst.meta.uid \in Nat /\ api.meta.gen \in Nat
         /\ cache.meta.gen \in Nat /\ inst.meta.gen \in Nat
         /\ secret.owner \in Nat /\ seen.owner \in Nat /\ lastGen \in Nat
         /\ api.meta.deleting \in BOOLEAN /\ cache.meta.deleting \in BOOLEAN
  BY SecretFields, SecretTypes, ConstantTypes DEF Typed

(* Whoever replaces the Secret keeps the order of the incarnations. *)
LEMMA SecretOrder ==
  ASSUME Base, Order, NEW s, SecretWritten(s), seen' = seen,
         s.owner = 0 \/ s.owner = inst.meta.uid \/ s.owner = secret.owner,
         s.owner = 0 \/ pc # "idle" \/ s.owner = secret.owner,
         api'.meta.uid = api.meta.uid, cache'.meta = cache.meta,
         inst'.meta = inst.meta, lastGen' = lastGen
  PROVE  Order'
  <1>1. Typed /\ Copies
    BY DEF Base
  <1>2. secret' = s
    BY DEF SecretWritten
  <1>3. CASE s.owner = 0
    BY <1>1, <1>2, <1>3, Numbers DEF Order, Before, Owned, Exists
  <1>4. CASE s.owner = secret.owner
    BY <1>1, <1>2, <1>4, Numbers DEF Order, Before, Owned, Exists
  <1>5. CASE pc # "idle" /\ s.owner = inst.meta.uid
    <2>1. Exists(inst.meta) /\ inst.meta.uid <= lastGen
      BY <1>1, <1>5, Numbers DEF Copies, Sound
    <2>2. QED
      BY <1>1, <1>2, <1>5, <2>1, Numbers DEF Order, Before, Owned, Exists
  <1>6. QED
    BY <1>3, <1>4, <1>5

(* The informer's last word on the Secret is right, or an event follows. *)
LEMMA SecretWatched ==
  ASSUME Watched, NEW s, SecretWritten(s), seen' = seen,
         foreign' = TRUE \/ (foreign' = foreign /\ (s = NoSecret \/ Owned(s)))
  PROVE  Watched'
  <1>1. /\ secret' = s /\ seenCurrent' = FALSE
        /\ wake' <=> wake \/ SecretEvent(secret, s)
    BY DEF SecretWritten
  <1>2. SUFFICES ASSUME ~foreign'
                 PROVE  /\ s = NoSecret \/ Owned(s)
                        /\ seen = NoSecret \/ Owned(seen)
                        /\ ~Spoiled(seen) /\ Spoiled(s) => wake'
    BY <1>1 DEF Watched, Spoiled, Owned
  <1>3. ~foreign /\ (s = NoSecret \/ Owned(s))
    BY <1>2
  <1>4. ASSUME ~Spoiled(seen), Spoiled(s)
        PROVE  wake'
    <2>1. CASE Spoiled(secret)
      BY <1>1, <1>3, <1>4, <2>1 DEF Watched
    <2>2. CASE ~Spoiled(secret)
      <3>1. secret # NoSecret /\ Owned(secret)
        BY <1>3, <2>2 DEF Watched, Spoiled
      <3>2. SecretEvent(secret, s)
        BY <1>3, <1>4, <3>1 DEF SecretEvent, Spoiled
      <3>3. QED
        BY <1>1, <3>2
    <2>3. QED
      BY <2>1, <2>2
  <1>5. QED
    BY <1>3, <1>4 DEF Watched

(* Steps that leave both Secrets alone. *)
LEMMA SecretUntouched ==
  ASSUME Watched, secret' = secret, seen' = seen, seenCurrent' = seenCurrent,
         wake' = wake, foreign' = foreign
  PROVE  Watched'
  BY DEF Watched, Spoiled, Owned

LEMMA StoredOrder ==
  ASSUME Base, Order, Watched, Stored
  PROVE  Order' /\ Watched'
  <1>1. Watched'
    BY SecretUntouched DEF Stored
  <1>2. /\ secret' = secret /\ seen' = seen /\ cache' = cache /\ inst' = inst
        /\ Typed /\ Copies /\ Base'
    BY StoredBase DEF Stored, Base
  <1>3. lastGen \in Nat /\ lastGen' \in Nat /\ lastGen <= lastGen'
    BY <1>2, Numbers DEF Stored
  <1>4. /\ secret.owner <= lastGen' /\ seen.owner <= lastGen'
        /\ inst.meta.uid <= lastGen' /\ cache.meta.uid <= lastGen'
    BY <1>2, <1>3, Numbers DEF Order, Copies, Sound
  <1>5. ASSUME NEW uid \in Nat, Before(uid, api), uid <= lastGen'
        PROVE  Before(uid, api')
    <2>1. CASE api' = NoVaultSecret
      BY <2>1, NoVaultSecretFacts DEF Before
    <2>2. CASE api'.meta.uid = lastGen'
      BY <1>5, <2>2 DEF Before
    <2>3. CASE Exists(api.meta) /\ api'.meta.uid = api.meta.uid
      BY <1>5, <2>3 DEF Before, Exists
    <2>4. QED
      BY <2>1, <2>2, <2>3 DEF Stored
  <1>6. /\ Before(secret.owner, api') /\ Before(seen.owner, api')
        /\ Before(inst.meta.uid, api') /\ Before(cache.meta.uid, api')
    BY <1>2, <1>4, <1>5, Numbers DEF Order
  <1>7. Order'
    BY <1>2, <1>4, <1>6 DEF Order, Before, Owned
  <1>8. QED
    BY <1>1, <1>7

LEMMA MeddledOrder ==
  ASSUME Base, Order, Watched, Meddled
  PROVE  Order' /\ Watched'
  <1> DEFINE s == secret'
  <1>1. /\ SecretWritten(s) /\ seen' = seen /\ api' = api /\ cache' = cache
        /\ inst' = inst /\ lastGen' = lastGen
    BY DEF Meddled
  <1>2. s.owner = 0 \/ s.owner = secret.owner
    BY SecretTypes DEF Meddled, Owned, Base, Typed, Secrets
  <1>3. foreign' = TRUE \/ (foreign' = foreign /\ (s = NoSecret \/ Owned(s)))
    BY DEF Meddled, Owned, Base, Typed, Secrets
  <1> HIDE DEF s
  <1>4. Order'
    BY <1>1, <1>2, SecretOrder
  <1>5. Watched'
    BY <1>1, <1>3, SecretWatched
  <1>6. QED
    BY <1>4, <1>5

LEMMA TakenOrder ==
  ASSUME Base, Order, Watched, Taken
  PROVE  Order' /\ Watched'
  <1>1. Watched'
    BY SecretUntouched DEF Taken
  <1>2. /\ secret' = secret /\ seen' = seen /\ cache' = cache /\ api' = api
        /\ lastGen' = lastGen /\ Typed
    BY DEF Taken, Base
  <1>3. inst' = inst \/ inst'.meta = cache.meta
    BY DEF Taken, Begun
  <1>4. Order'
    BY <1>2, <1>3, Numbers DEF Order, Before, Owned, Exists
  <1>5. QED
    BY <1>1, <1>4

LEMMA WatchOrder ==
  ASSUME Base, Order, Watched, Watch
  PROVE  Order' /\ Watched'
  <1>1. Typed
    BY DEF Base
  <1>2. /\ Delivered /\ api' = api /\ lastGen' = lastGen
        /\ secret' = secret /\ seen' = seen /\ seenCurrent' = seenCurrent
        /\ wake' = wake /\ foreign' = foreign /\ inst' = inst
    BY <1>1, WatchEffect
  <1>3. Watched'
    BY <1>2, SecretUntouched
  <1>4. cache' = NoVaultSecret \/ cache' = api
    BY <1>2 DEF Delivered
  <1>5. Order'
    BY <1>1, <1>2, <1>4, Numbers, NoVaultSecretFacts DEF Order, Before, Owned
  <1>6. QED
    BY <1>3, <1>5

LEMMA WatchSecretOrder ==
  ASSUME Base, Order, Watched, WatchSecret
  PROVE  Order' /\ Watched'
  <1>1. /\ seen' = secret /\ wake' = FALSE /\ secret' = secret
        /\ foreign' = foreign /\ api' = api /\ cache' = cache /\ inst' = inst
        /\ lastGen' = lastGen
    BY WatchSecretEffect
  <1>2. Order'
    BY <1>1, Numbers DEF Base, Order, Before, Owned
  <1>3. Watched'
    BY <1>1 DEF Watched, Spoiled, Owned
  <1>4. QED
    BY <1>2, <1>3

LEMMA TickOrder ==
  ASSUME Base, Order, Watched, Tick
  PROVE  Order' /\ Watched'
  <1>1. Order'
    BY TickEffect, TickKeeps DEF Order, Before, Owned
  <1>2. Watched'
    <2>1. seenCurrent' => seen' = secret' /\ ~wake'
      BY TickEffect DEF Watched
    <2>2. QED
      BY <2>1, TickEffect, TickKeeps DEF Watched, Spoiled, Owned
  <1>3. QED
    BY <1>1, <1>2

LEMMA CrashOrder ==
  ASSUME Base, Order, Watched, Crash
  PROVE  Order' /\ Watched'
  <1>1. /\ cache' = NoVaultSecret /\ inst' = NoVaultSecret
        /\ seen' = secret /\ wake' = FALSE
        /\ api' = api /\ lastGen' = lastGen /\ secret' = secret
        /\ foreign' = foreign
    BY CrashEffect
  <1>2. Order'
    BY <1>1, Numbers, NoVaultSecretFacts DEF Base, Order, Before, Owned
  <1>3. Watched'
    BY <1>1 DEF Watched, Spoiled, Owned
  <1>4. QED
    BY <1>2, <1>3

(* The calls that store a version, or end the cycle, keep the Secret. *)
LEMMA CallOrder ==
  ASSUME Base, Order, Watched, Call
  PROVE  Order' /\ Watched'
  <1>1. /\ Typed /\ Copies /\ cache' = cache /\ lastGen' = lastGen
        /\ seen' = seen /\ foreign' = foreign
    BY DEF Base, Call, Kept
  <1>2. pc # "idle" => Exists(inst.meta)
    BY <1>1 DEF Copies
  <1>3. Rendered.owner = inst.meta.uid /\ NoSecret.owner = 0
    BY <1>1, RenderedFacts DEF NoSecret
  <1>4. ASSUME NEW s, s = NoSecret \/ (s = Rendered /\ pc # "idle"),
               SecretWritten(s),
               ApiKept, inst'.meta = inst.meta
        PROVE  Order' /\ Watched'
    <2>1. Order'
      BY <1>1, <1>3, <1>4, SecretOrder DEF ApiKept
    <2>2. s = NoSecret \/ Owned(s)
      BY <1>1, <1>2, <1>4, RenderedFacts
    <2>3. Watched'
      BY <1>1, <1>4, <2>2, SecretWatched
    <2>4. QED
      BY <2>1, <2>3
  <1>5. ASSUME SecretKept,
               api'.meta.uid = api.meta.uid \/ api' = NoVaultSecret,
               inst'.meta = inst.meta \/ inst' = NoVaultSecret
        PROVE  Order' /\ Watched'
    <2>1. secret' = secret /\ seenCurrent' = seenCurrent /\ wake' = wake
      BY <1>5 DEF SecretKept
    <2>2. Order'
      BY <1>1, <1>5, <2>1, Numbers, NoVaultSecretFacts
         DEF Order, Before, Owned, Exists
    <2>3. QED
      BY <1>1, <2>1, <2>2, SecretUntouched
  <1>6. CASE ReadDone
    BY <1>5, <1>6 DEF ReadDone, ApiKept, WorkerKept
  <1>7. CASE Failed
    BY <1>4, <1>5, <1>7 DEF Failed, ApiKept, WorkerKept
  <1>8. CASE PutDone
    <2>1. inst'.meta = inst.meta
      BY <1>1, <1>8, SyncedFacts DEF PutDone
    <2>2. QED
      BY <1>4, <1>8, <2>1 DEF PutDone
  <1>9. CASE Deleted
    BY <1>4, <1>9 DEF Deleted, WorkerKept
  <1>10. instCurrent => inst.meta = api.meta
    BY <1>1 DEF Copies
  <1>11. CASE Recorded
    BY <1>5, <1>10, <1>11 DEF Recorded, ApiStored, WorkerKept
  <1>12. CASE Finished
    <2>1. CASE ApiKept /\ Ended(1)
      BY <1>5, <2>1 DEF ApiKept, Ended
    <2>2. CASE \E obj : /\ LikeInst(obj) /\ ApiStored(obj)
                        /\ Ended(1) \/ Ended(RequeueAfter)
      <3>1. /\ api'.meta.uid = api.meta.uid /\ inst' = NoVaultSecret
            /\ SecretKept
        BY <1>10, <2>2 DEF LikeInst, ApiStored, Ended
      <3>2. QED
        BY <1>5, <3>1
    <2>3. QED
      BY <1>12, <2>1, <2>2 DEF Finished
  <1>13. CASE Removed
    BY <1>5, <1>13 DEF Removed, ApiStored, Ended
  <1>14. QED
    BY <1>6, <1>7, <1>8, <1>9, <1>11, <1>12, <1>13 DEF Call

(* The reasons to look at the VaultSecret that outlast a cycle.            *)
Reason ==
    queued \/ wake \/ timer = 1 \/ cache.meta.gen # api.meta.gen

Good == Mine(secret) /\ secret.intact

(* What the informer has seen last, of this incarnation's Secret, is so,   *)
(* or an event of it is on its way.                                        *)
LEMMA SeenFollows ==
  ASSUME Base, Order, Watched, Live(api), ~foreign,
         seen.owner = api.meta.uid, ~Spoiled(seen)
  PROVE  Good \/ wake
  <1>1. SUFFICES ASSUME ~Spoiled(secret) PROVE Good
    BY DEF Watched
  <1>2. secret # NoSecret /\ secret.intact /\ Owned(secret)
    BY <1>1 DEF Spoiled, Watched
  <1>3. seen.owner <= secret.owner /\ secret.owner <= api.meta.uid
    BY <1>2 DEF Order, Before, Live
  <1>4. secret.owner = api.meta.uid
    BY <1>3, Numbers DEF Base
  <1>5. QED
    BY <1>2, <1>4 DEF Good, Mine

LEMMA StoredAttended ==
  ASSUME Base, Stored
  PROVE  Attended'
  <1>1. Typed /\ Copies /\ cache' = cache
    BY DEF Base, Stored
  <1>2. CASE api' = NoVaultSecret
    BY <1>2, NoVaultSecretFacts DEF Attended, Live
  <1>3. CASE api'.meta.gen = lastGen + 1
    <2>1. cache.meta.gen <= lastGen
      BY <1>1 DEF Copies, Sound
    <2>2. cache'.meta.gen # api'.meta.gen
      BY <1>1, <1>3, <2>1, Numbers
    <2>3. QED
      BY <2>2 DEF Attended
  <1>4. QED
    BY <1>2, <1>3 DEF Stored

LEMMA MeddledAttended ==
  ASSUME Base, Watched, Attended, Meddled
  PROVE  Attended'
  <1>1. /\ api' = api /\ cache' = cache /\ queued' = queued /\ timer' = timer
        /\ pc' = pc /\ inst' = inst /\ issue' = issue
        /\ wake' <=> wake \/ SecretEvent(secret, secret')
    BY DEF Meddled, SecretWritten
  <1>2. SUFFICES ASSUME Live(api), ~foreign', ~wake' PROVE Attended'
    BY <1>1 DEF Attended, Live
  <1>3. foreign' = foreign
    BY <1>2 DEF Meddled
  <1>4. secret # NoSecret => Owned(secret)
    BY <1>2, <1>3 DEF Watched
  <1>5. secret \in Secrets
    BY DEF Base, Typed
  <1>6. CASE Owned(secret) /\ secret' = [secret EXCEPT !.intact = FALSE]
    <2>1. Owned(secret') /\ ~secret'.intact
      BY <1>5, <1>6 DEF Owned, Secrets
    <2>2. secret # NoSecret
      BY <1>6, SecretTypes
    <2>3. SecretEvent(secret, secret')
      BY <2>1, <2>2 DEF SecretEvent
    <2>4. QED
      BY <1>1, <1>2, <2>3
  <1>7. CASE secret # NoSecret /\ secret' = NoSecret
    <2>1. SecretEvent(secret, secret')
      BY <1>4, <1>7 DEF SecretEvent
    <2>2. QED
      BY <1>1, <1>2, <2>1
  <1>8. QED
    BY <1>2, <1>6, <1>7 DEF Meddled

LEMMA TakenAttended ==
  ASSUME Base, Order, Watched, Taken
  PROVE  Attended'
  <1>1. /\ Typed /\ Copies
        /\ api' = api /\ cache' = cache /\ wake' = wake /\ secret' = secret
        /\ foreign' = foreign
    BY DEF Base, Taken
  <1>2. SUFFICES ASSUME Live(api), ~foreign, ~Good, ~wake,
                        cache.meta.gen = api.meta.gen
                 PROVE  Attended'
    BY <1>1 DEF Attended, Live, Good, Mine
  <1>3. Exists(cache.meta)
    <2>1. SUFFICES ASSUME ~Exists(cache.meta) PROVE FALSE
      OBVIOUS
    <2>2. cache.meta.gen = 0
      BY <1>1, <2>1, NoVaultSecretFacts DEF Copies, Sound
    <2>3. api.meta.uid # 0 /\ api.meta.uid <= api.meta.gen
      BY <1>1, <1>2 DEF Live, Exists, Copies, Sound
    <2>4. QED
      BY <1>1, <1>2, <2>2, <2>3, Numbers
  <1>4. /\ cache.meta.uid = api.meta.uid /\ cache.meta.deleting = api.meta.deleting
    BY <1>1, <1>2, <1>3 DEF Copies
  <1>5. Live(cache)
    BY <1>2, <1>3, <1>4 DEF Live
  <1>6. Begun
    BY <1>5 DEF Taken
  <1>7. pc' \in {"read", "status"} /\ inst'.meta.uid = api.meta.uid
    BY <1>4, <1>5, <1>6 DEF Begun, Live
  <1>8. pc' = "status" => issue'
    BY <1>2, <1>4, <1>6, SeenFollows DEF Begun
  <1>9. QED
    BY <1>1, <1>7, <1>8 DEF Attended

LEMMA WatchAttended ==
  ASSUME Base, Attended, Watch
  PROVE  Attended'
  <1>1. Typed /\ Copies
    BY DEF Base
  <1>2. /\ Delivered /\ api' = api /\ timer' = timer
        /\ secret' = secret /\ wake' = wake /\ foreign' = foreign
        /\ pc' = pc /\ inst' = inst /\ issue' = issue
    BY <1>1, WatchEffect
  <1>3. SUFFICES ASSUME Live(api), cache.meta.gen # api.meta.gen PROVE Attended'
    BY <1>2 DEF Attended, Live, Mine, Delivered
  <1>4. CASE cache' = NoVaultSecret
    <2>1. api.meta.uid # 0 /\ api.meta.uid <= api.meta.gen
      BY <1>1, <1>3 DEF Live, Exists, Copies, Sound
    <2>2. cache'.meta.gen # api'.meta.gen
      BY <1>1, <1>2, <1>4, <2>1, Numbers, NoVaultSecretFacts
    <2>3. QED
      BY <2>2 DEF Attended
  <1>5. CASE cache' = api
    <2>1. queued'
      BY <1>2, <1>3, <1>5 DEF Delivered, Live
    <2>2. QED
      BY <2>1 DEF Attended
  <1>6. QED
    BY <1>2, <1>4, <1>5 DEF Delivered

LEMMA WatchSecretAttended ==
  ASSUME Attended, WatchSecret
  PROVE  Attended'
  BY WatchSecretEffect DEF Attended, Live, Mine

LEMMA TickAttended ==
  ASSUME Base, Attended, Tick
  PROVE  Attended'
  <1>1. /\ queued' <=> queued \/ timer = 1
        /\ wake' = wake /\ foreign' = foreign /\ pc' = pc /\ issue' = issue
    BY TickEffect
  <1>2. QED
    BY <1>1, TickKeeps DEF Attended, Live, Mine

LEMMA CrashAttended ==
  ASSUME Base, Crash
  PROVE  Attended'
  <1>1. Typed /\ Copies
    BY DEF Base
  <1>2. api' = api /\ cache' = NoVaultSecret
    BY CrashEffect
  <1>3. SUFFICES ASSUME Live(api) PROVE cache'.meta.gen # api'.meta.gen
    BY <1>2 DEF Attended, Live
  <1>4. api.meta.uid # 0 /\ api.meta.uid <= api.meta.gen
    BY <1>1, <1>3 DEF Live, Exists, Copies, Sound
  <1>5. QED
    BY <1>1, <1>2, <1>4, Numbers, NoVaultSecretFacts

(* The Secret that a cycle writes is right for its incarnation; before, it *)
(* was not right for a newer one.                                          *)
LEMMA CallAttended ==
  ASSUME Base, Order, Watched, Attended, Call
  PROVE  Attended'
  <1>1. /\ Typed /\ Copies /\ cache' = cache /\ queued' = queued
        /\ foreign' = foreign
    BY DEF Base, Call, Kept
  <1>2. instCurrent => inst.meta = api.meta
    BY <1>1 DEF Copies
  <1>3. timer \in 0..MaxAge /\ 0 \in 0..MaxAge /\ 1 \in 0..MaxAge
        /\ RequeueAfter \in 0..MaxAge
    BY <1>1, ConstantTypes, RequeueFacts DEF Typed
  <1>4. CASE ReadDone
    BY <1>1, <1>4
       DEF ReadDone, ApiKept, SecretKept, WorkerKept, Attended, Live, Mine
  <1>5. CASE Failed
    BY <1>5 DEF Failed, Attended
  <1>6. CASE PutDone
    <2>1. /\ pc = "put" /\ api' = api /\ timer' = timer
          /\ secret' = Rendered /\ (wake => wake')
      BY <1>6 DEF PutDone, ApiKept, SecretWritten
    <2>2. CASE inst.meta.uid = api.meta.uid
      <3>1. Mine(secret)' /\ secret'.intact
        BY <1>1, <2>1, <2>2, RenderedFacts DEF Mine
      <3>2. QED
        BY <3>1 DEF Attended
    <2>3. CASE inst.meta.uid # api.meta.uid /\ Live(api)
      <3>1. Exists(inst.meta)
        BY <1>1, <2>1 DEF Copies
      <3>2. secret.owner <= inst.meta.uid /\ inst.meta.uid <= api.meta.uid
        BY <2>3, <3>1 DEF Order, Before, Live
      <3>3. ~Mine(secret)
        BY <1>1, <2>3, <3>2, Numbers DEF Mine
      <3>4. ~foreign => Reason
        BY <2>1, <2>3, <3>3 DEF Attended, Reason
      <3>5. QED
        BY <1>1, <2>1, <3>4 DEF Attended, Reason
    <2>4. QED
      BY <2>1, <2>2, <2>3 DEF Attended, Live
  <1>7. CASE Deleted
    <2>1. /\ pc = "delete" /\ api' = api /\ timer' = timer
          /\ secret' = NoSecret /\ (wake' <=> wake \/ SecretEvent(secret, NoSecret))
      BY <1>7 DEF Deleted, ApiKept, WorkerKept, SecretWritten
    <2>2. SUFFICES ASSUME Live(api), ~foreign PROVE Attended'
      BY <1>1, <2>1 DEF Attended, Live
    <2>3. CASE secret = NoSecret
      <3>1. ~Good
        BY <2>3 DEF Good, NoSecret
      <3>2. Reason
        BY <2>1, <2>2, <3>1 DEF Attended, Reason, Good
      <3>3. QED
        BY <1>1, <2>1, <3>2 DEF Attended, Reason
    <2>4. CASE secret # NoSecret
      <3>1. SecretEvent(secret, NoSecret)
        BY <2>2, <2>4 DEF Watched, SecretEvent
      <3>2. QED
        BY <2>1, <3>1 DEF Attended
    <2>5. QED
      BY <2>3, <2>4
  <1>8. CASE Recorded
    <2>1. /\ pc = "status" /\ ~issue /\ api'.meta = api.meta /\ timer' = timer
          /\ secret' = secret /\ wake' = wake
      BY <1>2, <1>8 DEF Recorded, ApiStored, SecretKept, WorkerKept
    <2>2. Live(api) /\ ~foreign /\ ~Good => Reason
      BY <2>1 DEF Attended, Reason, Good
    <2>3. QED
      BY <1>1, <2>1, <2>2 DEF Attended, Live, Mine, Reason, Good
  <1>9. ASSUME NEW r \in 0..MaxAge, Ended(r), pc \in {"status", "addFinalizer"},
               r = 1 \/ ~issue, api'.meta.uid = api.meta.uid,
               api'.meta.gen = api.meta.gen, api'.meta.deleting = api.meta.deleting
        PROVE  Attended'
    <2>1. /\ secret' = secret /\ wake' = wake /\ timer' = Earlier(timer, r)
      BY <1>9 DEF Ended, SecretKept
    <2>2. timer = 1 \/ r = 1 => timer' = 1
      BY <1>3, <2>1, EarlierFacts
    <2>3. CASE r = 1
      BY <2>2, <2>3 DEF Attended
    <2>4. CASE ~issue
      <3>1. Live(api) /\ ~foreign /\ ~Good => Reason
        BY <1>9, <2>4 DEF Attended, Reason, Good
      <3>2. QED
        BY <1>1, <1>9, <2>1, <2>2, <3>1
           DEF Attended, Live, Exists, Mine, Reason, Good
    <2>5. QED
      BY <1>9, <2>3, <2>4
  <1>10. CASE Finished
    <2>1. CASE ApiKept /\ Ended(1)
      BY <1>3, <1>9, <1>10, <2>1 DEF Finished, ApiKept
    <2>2. CASE \E obj : /\ LikeInst(obj) /\ ApiStored(obj)
                        /\ Ended(1) \/ Ended(RequeueAfter)
      <3>1. /\ api'.meta.uid = api.meta.uid /\ api'.meta.gen = api.meta.gen
            /\ api'.meta.deleting = api.meta.deleting
            /\ Ended(1) \/ Ended(RequeueAfter)
        BY <1>2, <2>2 DEF LikeInst, ApiStored
      <3>2. issue => RequeueAfter = 1
        BY <1>1, RequeueFacts DEF Typed
      <3>3. pc \in {"status", "addFinalizer"}
        BY <1>10 DEF Finished
      <3>4. QED
        BY <1>3, <1>9, <3>1, <3>2, <3>3
    <2>3. QED
      BY <1>10, <2>1, <2>2 DEF Finished
  <1>11. CASE Removed
    <2>1. api' = NoVaultSecret
      BY <1>11 DEF Removed, ApiStored
    <2>2. QED
      BY <2>1, NoVaultSecretFacts DEF Attended, Live
  <1>12. QED
    BY <1>4, <1>5, <1>6, <1>7, <1>8, <1>10, <1>11 DEF Call

(* Nobody forgets a K8s Secret that is not right: at every moment, in the  *)
(* middle of cycles and with the caches behind, the VaultSecret is queued, *)
(* an event or a timer will queue it, or a cycle that will write the       *)
(* Secret or try again is under way.                                       *)
THEOREM AttendedInvariant == Spec => [](Order /\ Watched /\ Attended)
  <1> DEFINE Inv == Base /\ Order /\ Watched /\ Attended
  <1>1. Init => Inv
    BY InitBase, InitAttended
  <1>2. Inv /\ [Next]_vars => Inv'
    <2> SUFFICES ASSUME Base, Order, Watched, Attended, [Next]_vars PROVE Inv'
      OBVIOUS
    <2>1. Base'
      BY NextBase
    <2>2. CASE UNCHANGED vars
      <3>1. Order'
        BY <2>2, StutterEffect DEF Order, Before, Owned
      <3>2. Watched'
        BY <2>2, StutterEffect, SecretUntouched
      <3>3. Attended'
        BY <2>2, StutterEffect DEF Attended, Live, Mine
      <3>4. QED
        BY <2>1, <3>1, <3>2, <3>3
    <2>3. CASE Stored \/ Meddled \/ Taken \/ Call
      BY <2>1, <2>3, StoredOrder, StoredAttended, MeddledOrder, MeddledAttended,
         TakenOrder, TakenAttended, CallOrder, CallAttended
    <2>4. CASE Watch \/ WatchSecret \/ Tick \/ Crash
      BY <2>1, <2>4, WatchOrder, WatchAttended, WatchSecretOrder,
         WatchSecretAttended, TickOrder, TickAttended, CrashOrder, CrashAttended
    <2>5. QED
      BY <2>2, <2>3, <2>4, Effects
  <1> HIDE DEF Inv
  <1>3. Spec => []Inv
    BY <1>1, <1>2, PTL DEF Spec
  <1>4. Inv => Order /\ Watched /\ Attended
    BY DEF Inv
  <1>5. QED
    BY <1>3, <1>4, PTL

(* When the program rests, a VaultSecret has its K8s Secret with the data  *)
(* that were written, or the retry of a failed cycle is due: Attended,     *)
(* when nothing is queued, under way or unseen.                            *)
THEOREM HealsAtOnceHolds == Spec => []HealsAtOnce
  <1>1. Base /\ Order /\ Watched /\ Attended => HealsAtOnce
    <2> SUFFICES ASSUME Base, Order, Watched, Attended, Quiet, Live(api), ~foreign
                 PROVE  (Mine(secret) /\ secret.intact) \/ timer = 1
      BY DEF HealsAtOnce
    <2>1. pc = "idle" /\ ~queued /\ cache = api /\ ~wake
      BY DEF Quiet, Base, Copies, Watched
    <2>2. QED
      BY <2>1 DEF Attended
  <1>2. QED
    BY <1>1, BaseInvariant, AttendedInvariant, PTL
-----------------------------------------------------------------------------
(* The next update is never forgotten. *)

(* Waiting shortens the time and makes the last update older alike.        *)
LEMMA Waiting ==
  ASSUME NEW t \in Nat, NEW u \in Nat, NEW d \in Nat, NEW a \in Nat,
         u = t - 1, a <= MaxAge, d <= MaxAge, t > 1, t <= d - a
  PROVE  u >= 1 /\ u <= d - Older(a)
  BY ConstantTypes DEF Older

(* Leases as durations. *)
LEMMA ScaledLease ==
  ASSUME NEW obj \in VaultSecrets, NEW l \in obj.leases
  PROVE  Scaled(l) \in Nat /\ Scaled(l) <= MaxAge
  <1>1. l \in Nat /\ l <= MaxAge
    BY SecretFields, LeaseFacts
  <1>2. Scaled(l) \in Nat /\ Scaled(l) <= l
    BY <1>1, ScaledFacts
  <1>3. QED
    BY <1>1, <1>2, ConstantTypes

LEMMA InitTimely == Init => Timely
  BY NoVaultSecretFacts DEF Init, Timely, Live

LEMMA StoredTimely ==
  ASSUME Base, Stored
  PROVE  Timely'
  <1>1. Typed /\ Copies /\ cache' = cache
    BY DEF Base, Stored
  <1>2. CASE api' = NoVaultSecret
    BY <1>2, NoVaultSecretFacts DEF Timely, Live
  <1>3. CASE api'.meta.gen = lastGen + 1
    <2>1. cache.meta.gen <= lastGen
      BY <1>1 DEF Copies, Sound
    <2>2. cache'.meta.gen # api'.meta.gen
      BY <1>1, <1>3, <2>1, Numbers
    <2>3. QED
      BY <2>2 DEF Timely
  <1>4. QED
    BY <1>2, <1>3 DEF Stored

LEMMA TakenTimely ==
  ASSUME Base, Taken
  PROVE  Timely'
  <1>1. Typed /\ Copies /\ api' = api /\ cache' = cache
    BY DEF Base, Taken
  <1>2. CASE Begun
    BY <1>2 DEF Begun, Timely
  <1>3. CASE ~Live(cache)
    <2>1. SUFFICES ASSUME Live(api), cache.meta.gen = api.meta.gen PROVE FALSE
      BY <1>1 DEF Timely, Live
    <2>2. Exists(cache.meta)
      <3>1. ~Exists(cache.meta) => cache.meta.gen = 0
        BY <1>1, NoVaultSecretFacts DEF Copies, Sound
      <3>2. api.meta.uid # 0 /\ api.meta.uid <= api.meta.gen
        BY <1>1, <2>1 DEF Live, Exists, Copies, Sound
      <3>3. QED
        BY <1>1, <2>1, <3>1, <3>2, Numbers
    <2>3. QED
      BY <1>1, <1>3, <2>1, <2>2 DEF Copies, Live
  <1>4. QED
    BY <1>2, <1>3 DEF Taken

LEMMA WatchTimely ==
  ASSUME Base, Timely, Watch
  PROVE  Timely'
  <1>1. Typed /\ Copies
    BY DEF Base
  <1>2. Delivered /\ api' = api /\ timer' = timer /\ pc' = pc
    BY <1>1, WatchEffect
  <1>3. SUFFICES ASSUME Live(api), cache.meta.gen # api.meta.gen PROVE Timely'
    BY <1>2 DEF Timely, InTime, NoLaterThan, Live, Delivered
  <1>4. CASE cache' = NoVaultSecret
    <2>1. api.meta.uid # 0 /\ api.meta.uid <= api.meta.gen
      BY <1>1, <1>3 DEF Live, Exists, Copies, Sound
    <2>2. cache'.meta.gen # api'.meta.gen
      BY <1>1, <1>2, <1>4, <2>1, Numbers, NoVaultSecretFacts
    <2>3. QED
      BY <2>2 DEF Timely
  <1>5. CASE cache' = api
    <2>1. queued'
      BY <1>2, <1>3, <1>5 DEF Delivered, Live
    <2>2. QED
      BY <2>1 DEF Timely
  <1>6. QED
    BY <1>2, <1>4, <1>5 DEF Delivered

LEMMA CrashTimely ==
  ASSUME Base, Crash
  PROVE  Timely'
  <1>1. Typed /\ Copies
    BY DEF Base
  <1>2. api' = api /\ cache' = NoVaultSecret
    BY CrashEffect
  <1>3. SUFFICES ASSUME Live(api) PROVE cache'.meta.gen # api'.meta.gen
    BY <1>2 DEF Timely, Live
  <1>4. api.meta.uid # 0 /\ api.meta.uid <= api.meta.gen
    BY <1>1, <1>3 DEF Live, Exists, Copies, Sound
  <1>5. QED
    BY <1>1, <1>2, <1>4, Numbers, NoVaultSecretFacts

LEMMA TickTimely ==
  ASSUME Base, Timely, Tick
  PROVE  Timely'
  <1>1. /\ Typed /\ Copies /\ api \in VaultSecrets
    BY DEF Base, Typed
  <1>2. /\ api' = Aged(api) /\ (timer > 0 => timer' = timer - 1)
        /\ timer' \in 0..MaxAge /\ (queued' <=> queued \/ timer = 1) /\ pc' = pc
    BY TickEffect
  <1>3. /\ api'.meta = api.meta /\ cache'.meta = cache.meta
        /\ api'.since = Never <=> api.since = Never
    BY TickKeeps
  <1>4. SUFFICES ASSUME Live(api), api.since # Never, timer > 1,
                        NoLaterThan(timer, api)
                 PROVE  timer' = 1 \/ (timer' > 1 /\ NoLaterThan(timer', api'))
    BY <1>2, <1>3 DEF Timely, InTime, Live
  <1>5. /\ api'.since = Older(api.since) /\ api'.leases = api.leases
        /\ api'.refresh = api.refresh
    BY <1>1, <1>2, <1>4, AgedFacts
  <1>6. api.since \in Nat /\ api.since <= MaxAge
    BY <1>1, <1>4, SecretFields, ConstantTypes
  <1>7. timer \in Nat /\ timer' \in Nat /\ timer' = timer - 1 /\ timer' >= 1
    BY <1>1, <1>2, <1>4, ConstantTypes DEF Typed
  <1>8. NoLaterThan(timer', api')
    <2>1. CASE api.refresh # 0
      <3>1. /\ api.refresh \in Nat /\ api.refresh <= MaxAge
            /\ timer <= api.refresh - api.since
        BY <1>1, <1>4, <2>1, SecretFields, ConstantTypes DEF NoLaterThan
      <3>2. timer' <= api.refresh - Older(api.since)
        BY <1>4, <1>6, <1>7, <3>1, Waiting
      <3>3. QED
        BY <1>5, <2>1, <3>2 DEF NoLaterThan
    <2>2. CASE api.refresh = 0
      <3>1. ASSUME NEW l \in api.leases
            PROVE  timer' <= Scaled(l) - Older(api.since)
        <4>1. /\ Scaled(l) \in Nat /\ Scaled(l) <= MaxAge
              /\ timer <= Scaled(l) - api.since
          BY <1>1, <1>4, <2>2, <3>1, ScaledLease DEF NoLaterThan
        <4>2. QED
          BY <1>4, <1>6, <1>7, <4>1, Waiting
      <3>2. QED
        BY <1>5, <2>2, <3>1 DEF NoLaterThan
    <2>3. QED
      BY <2>1, <2>2
  <1>9. QED
    BY <1>7, <1>8

(* An earlier time is in time too, for the version that was stored.        *)
LEMMA Sooner ==
  ASSUME NEW t \in Nat, NEW r \in Nat, t <= r, inst \in VaultSecrets,
         inst.since # Never, NoLaterThan(r, inst),
         NEW obj, obj.since = inst.since, obj.leases = inst.leases,
         obj.refresh = inst.refresh
  PROVE  NoLaterThan(t, obj)
  <1>1. inst.since \in Nat
    BY SecretFields, ConstantTypes
  <1>2. ASSUME NEW d \in Nat, NEW a \in Nat, r <= d - a
        PROVE  t <= d - a
    BY <1>2
  <1>3. CASE inst.refresh # 0
    <2>1. inst.refresh \in Nat /\ r <= inst.refresh - inst.since
      BY <1>3, SecretFields, ConstantTypes DEF NoLaterThan
    <2>2. t <= inst.refresh - inst.since
      BY <1>1, <1>2, <2>1
    <2>3. QED
      BY <1>3, <2>2 DEF NoLaterThan
  <1>4. CASE inst.refresh = 0
    <2>1. ASSUME NEW l \in inst.leases
          PROVE  t <= Scaled(l) - inst.since
      <3>1. Scaled(l) \in Nat /\ r <= Scaled(l) - inst.since
        BY <1>4, <2>1, ScaledLease DEF NoLaterThan
      <3>2. QED
        BY <1>1, <1>2, <3>1
    <2>2. QED
      BY <1>4, <2>1 DEF NoLaterThan
  <1>5. QED
    BY <1>3, <1>4

(* A cycle that ends leaves a timer for the version that it stored.        *)
LEMMA CallTimely ==
  ASSUME Base, Call
  PROVE  Timely'
  <1>1. Typed /\ Copies /\ inst \in VaultSecrets
    BY DEF Base, Typed
  <1>2. timer \in 0..MaxAge /\ 1 \in 0..MaxAge /\ RequeueAfter \in 0..MaxAge
    BY <1>1, ConstantTypes, RequeueFacts DEF Typed
  <1>3. CASE pc' # "idle"
    BY <1>3 DEF Timely
  <1>4. ASSUME Ended(1)
        PROVE  Timely'
    <2>1. timer' = 1
      BY <1>2, <1>4, EarlierFacts DEF Ended
    <2>2. QED
      BY <2>1 DEF Timely, InTime
  <1>5. CASE Finished
    <2>1. CASE \E obj : LikeInst(obj) /\ ApiStored(obj) /\ Ended(RequeueAfter)
      <3>1. /\ api'.since = inst.since /\ api'.leases = inst.leases
            /\ api'.refresh = inst.refresh /\ timer' = Earlier(timer, RequeueAfter)
        BY <2>1 DEF LikeInst, ApiStored, Ended
      <3>2. SUFFICES ASSUME inst.since # Never PROVE InTime'
        BY <3>1 DEF Timely
      <3>3. inst.leases # {}
        BY <1>1, <3>2 DEF Copies, Sound
      <3>4. \/ RequeueAfter = 1
            \/ RequeueAfter > 1 /\ NoLaterThan(RequeueAfter, inst)
        BY <1>1, <3>2, <3>3, RequeueFacts
      <3>5. CASE RequeueAfter = 1
        BY <1>2, <3>1, <3>5, EarlierFacts DEF InTime
      <3>6. CASE RequeueAfter > 1 /\ NoLaterThan(RequeueAfter, inst)
        <4>1. timer' > 0 /\ timer' <= RequeueAfter /\ timer' \in 0..MaxAge
          BY <1>2, <3>1, <3>6, EarlierFacts, ConstantTypes
        <4>2. timer' \in Nat /\ RequeueAfter \in Nat
          BY <1>2, <4>1, ConstantTypes
        <4>3. NoLaterThan(timer', api')
          BY <1>1, <3>1, <3>2, <3>6, <4>1, <4>2, Sooner
        <4>4. QED
          BY <4>1, <4>2, <4>3 DEF InTime
      <3>7. QED
        BY <3>4, <3>5, <3>6
    <2>2. QED
      BY <1>4, <1>5, <2>1 DEF Finished
  <1>6. CASE Removed /\ pc' = "idle"
    <2>1. api' = NoVaultSecret
      BY <1>6 DEF Removed, ApiStored
    <2>2. QED
      BY <2>1, NoVaultSecretFacts DEF Timely, Live
  <1>7. QED
    BY <1>3, <1>5, <1>6 DEF Call, ReadDone, Failed, PutDone, Deleted, Recorded

(* A VaultSecret that was synced is queued, will be queued by an event of  *)
(* its newest generation, has a cycle under way, or waits for a timer that *)
(* is no later than its period, or the share of each of its leases, asks.  *)
THEOREM TimelyInvariant == Spec => []Timely
  <1> DEFINE Inv == Base /\ Timely
  <1>1. Init => Inv
    BY InitBase, InitTimely
  <1>2. Inv /\ [Next]_vars => Inv'
    <2> SUFFICES ASSUME Base, Timely, [Next]_vars PROVE Inv'
      OBVIOUS
    <2>1. Base'
      BY NextBase
    <2>2. CASE UNCHANGED vars
      <3>1. Timely'
        BY <2>2, StutterEffect DEF Timely, InTime, NoLaterThan, Live
      <3>2. QED
        BY <2>1, <3>1
    <2>3. CASE Meddled \/ WatchSecret
      <3>1. /\ api' = api /\ cache' = cache /\ pc' = pc /\ timer' = timer
            /\ queued => queued'
        <4>1. CASE Meddled
          BY <4>1 DEF Meddled
        <4>2. CASE WatchSecret
          BY <4>2, WatchSecretEffect
        <4>3. QED
          BY <2>3, <4>1, <4>2
      <3>2. Timely'
        BY <3>1 DEF Timely, InTime, NoLaterThan, Live
      <3>3. QED
        BY <2>1, <3>2
    <2>4. CASE Stored \/ Taken \/ Call \/ Watch \/ Tick \/ Crash
      BY <2>1, <2>4, StoredTimely, TakenTimely, CallTimely, WatchTimely,
         TickTimely, CrashTimely
    <2>5. QED
      BY <2>2, <2>3, <2>4, Effects
  <1> HIDE DEF Inv
  <1>3. Spec => []Inv
    BY <1>1, <1>2, PTL DEF Spec
  <1>4. Inv => Timely
    BY DEF Inv
  <1>5. QED
    BY <1>3, <1>4, PTL

(* When the program rests, the next update of a VaultSecret is due in time *)
(* for its period or its leases: Timely, when nothing is left to do.       *)
THEOREM DueInTimeHolds == Spec => []DueInTime
  <1>1. Base /\ Timely => DueInTime
    <2> SUFFICES ASSUME Base, Timely, Quiet, Live(api), api.since # Never
                 PROVE  timer = 1 \/ (timer > 1 /\ NoLaterThan(timer, api))
      BY DEF DueInTime, NoLaterThan
    <2>1. pc = "idle" /\ ~queued /\ cache = api
      BY DEF Quiet, Base, Copies
    <2>2. QED
      BY <2>1 DEF Timely, InTime
  <1>2. QED
    BY <1>1, BaseInvariant, TimelyInvariant, PTL
-----------------------------------------------------------------------------
(* The status is never later than the K8s Secret. *)

LEMMA NotOlderLike ==
  ASSUME NEW s \in Secrets, NEW obj \in VaultSecrets, NEW n \in Nat,
         NEW t \in Secrets, NEW new \in VaultSecrets, NEW m \in Nat,
         NotOlder(s, obj, n), n <= m,
         t.age = s.age, t.owner = s.owner,
         new.meta.uid = obj.meta.uid, new.since = obj.since
  PROVE  NotOlder(t, new, m)
  <1>1. s.age \in Nat /\ obj.since \in Nat
    BY SecretTypes, SecretFields, ConstantTypes
  <1>2. s.age <= obj.since + n => s.age <= obj.since + m
    BY <1>1
  <1>3. QED
    BY <1>2 DEF NotOlder, Owned

LEMMA NotOlderFresh ==
  ASSUME NEW s \in Secrets, NEW obj \in VaultSecrets, NEW n \in Nat,
         ~Owned(s) \/ s.age <= n \/ obj.since = Never
  PROVE  NotOlder(s, obj, n)
  <1>1. s.age \in Nat /\ obj.since \in Nat
    BY SecretTypes, SecretFields, ConstantTypes
  <1>2. s.age <= n => s.age <= obj.since + n
    BY <1>1
  <1>3. QED
    BY <1>2 DEF NotOlder

(* Both ages are cut at the same bound. *)
LEMMA NotOlderAged ==
  ASSUME NEW s \in Secrets, NEW obj \in VaultSecrets, NEW n \in Nat,
         NotOlder(s, obj, n)
  PROVE  NotOlder(AgedSecret(s), Aged(obj), n)
  <1>1. /\ AgedSecret(s).owner = s.owner /\ Aged(obj).meta = obj.meta
        /\ AgedSecret(s).age = s.age \/ AgedSecret(s).age = Older(s.age)
        /\ Aged(obj).since = Never <=> obj.since = Never
        /\ obj.since # Never => Aged(obj).since = Older(obj.since)
    BY AgedSecretFacts, AgedFacts
  <1>2. SUFFICES ASSUME Owned(s), s.owner = obj.meta.uid, obj.since # Never
                 PROVE  AgedSecret(s).age <= Older(obj.since) + n
    BY <1>1 DEF NotOlder, Owned
  <1>3. s.age \in 0..MaxAge /\ obj.since \in 0..MaxAge /\ s.age <= obj.since + n
    BY <1>2, SecretTypes, SecretFields DEF NotOlder
  <1>4. Older(s.age) <= Older(obj.since) + n
    BY <1>3, Ages
  <1>5. s.age <= Older(obj.since) + n
    BY <1>3, ConstantTypes DEF Older
  <1>6. QED
    BY <1>1, <1>4, <1>5

LEMMA HonestTypes ==
  ASSUME Base
  PROVE  /\ api \in VaultSecrets /\ cache \in VaultSecrets /\ inst \in VaultSecrets
         /\ secret \in Secrets /\ faults \in Nat /\ read.age \in Nat
  BY ConstantTypes DEF Base, Typed

LEMMA InitHonest == Init => Honest
  <1> SUFFICES ASSUME Init PROVE Honest
    OBVIOUS
  <1>1. /\ api = NoVaultSecret /\ cache = NoVaultSecret /\ inst = NoVaultSecret
        /\ secret = NoSecret /\ faults = 0 /\ read.age = 0
    BY SecretTypes DEF Init
  <1>2. QED
    BY <1>1, SecretTypes DEF Honest, NotOlder

LEMMA StoredHonest ==
  ASSUME Base, Honest, Stored
  PROVE  Honest'
  <1>1. /\ secret' = secret /\ faults' = faults /\ cache' = cache /\ inst' = inst
        /\ read' = read /\ api' \in VaultSecrets
    BY DEF Stored
  <1>2. api'.since = Never \/ (api'.meta.uid = api.meta.uid /\ api'.since = api.since)
    BY NoVaultSecretFacts DEF Stored
  <1>3. NotOlder(secret, api', faults)
    BY <1>2 DEF Honest, NotOlder
  <1>4. QED
    BY <1>1, <1>3 DEF Honest

LEMMA MeddledHonest ==
  ASSUME Base, Honest, Meddled
  PROVE  Honest'
  <1>1. /\ faults' = faults /\ cache' = cache /\ inst' = inst
        /\ read' = read /\ api' = api
    BY DEF Meddled
  <1>2. \/ ~Owned(secret')
        \/ secret'.owner = secret.owner /\ secret'.age = secret.age
    BY SecretTypes, HonestTypes DEF Meddled, Secrets
  <1>3. QED
    BY <1>1, <1>2 DEF Honest, NotOlder, Owned

LEMMA TakenHonest ==
  ASSUME Honest, Base, Taken
  PROVE  Honest'
  <1>1. /\ secret' = secret /\ faults' = faults /\ cache' = cache /\ api' = api
    BY DEF Taken
  <1>2. \/ inst' = inst /\ read' = read
        \/ inst'.meta = cache.meta /\ inst'.since = cache.since /\ read' = NoRead
    BY DEF Taken, Begun
  <1>3. NoRead.age <= faults
    BY SecretTypes, HonestTypes
  <1>4. NotOlder(secret, inst', faults) /\ read'.age <= faults
    BY <1>2, <1>3 DEF Honest, NotOlder
  <1>5. QED
    BY <1>1, <1>4 DEF Honest

LEMMA WatchHonest ==
  ASSUME Honest, Base, Watch
  PROVE  Honest'
  <1>1. /\ Delivered /\ api' = api /\ secret' = secret /\ inst' = inst
        /\ read' = read /\ faults' = faults
    BY WatchEffect DEF Base
  <1>2. cache' = NoVaultSecret \/ cache' = api
    BY <1>1 DEF Delivered
  <1>3. NotOlder(secret, cache', faults)
    BY <1>2, NoVaultSecretFacts DEF Honest, NotOlder
  <1>4. QED
    BY <1>1, <1>3 DEF Honest

LEMMA CrashHonest ==
  ASSUME Honest, Base, Crash
  PROVE  Honest'
  <1>1. /\ cache' = NoVaultSecret /\ inst' = NoVaultSecret /\ read' = NoRead
        /\ api' = api /\ secret' = secret /\ faults' = faults + 1
    BY CrashEffect
  <1>2. faults <= faults + 1 /\ faults + 1 \in Nat
    BY HonestTypes
  <1>3. NotOlder(secret, api, faults + 1)
    BY <1>2, HonestTypes, NotOlderLike DEF Honest
  <1>4. \A n : NotOlder(secret, NoVaultSecret, n)
    BY NoVaultSecretFacts DEF NotOlder
  <1>5. NoRead.age <= faults + 1
    BY <1>2, SecretTypes
  <1>6. QED
    BY <1>1, <1>3, <1>4, <1>5 DEF Honest

LEMMA TickHonest ==
  ASSUME Honest, Base, Tick
  PROVE  Honest'
  <1>1. /\ api' = Aged(api) /\ cache' = Aged(cache) /\ inst' = Aged(inst)
        /\ secret' = AgedSecret(secret)
        /\ read'.age = read.age \/ read'.age = Older(read.age)
        /\ read = NoRead => read' = NoRead
        /\ \/ Quiet /\ faults' = faults
           \/ ~Quiet /\ faults' = faults + 1
    BY TickEffect
  <1>2. /\ api' \in VaultSecrets /\ cache' \in VaultSecrets /\ inst' \in VaultSecrets
        /\ secret' \in Secrets /\ faults' \in Nat /\ faults <= faults'
    <2>1. faults' \in Nat /\ faults <= faults'
      BY <1>1, HonestTypes
    <2>2. QED
      BY <2>1, TickBase, ConstantTypes DEF Base, Typed
  <1>3. /\ NotOlder(AgedSecret(secret), Aged(api), faults)
        /\ NotOlder(AgedSecret(secret), Aged(cache), faults)
        /\ NotOlder(AgedSecret(secret), Aged(inst), faults)
    BY HonestTypes, NotOlderAged DEF Honest
  <1>4. /\ NotOlder(secret', api', faults') /\ NotOlder(secret', cache', faults')
        /\ NotOlder(secret', inst', faults')
    BY <1>1, <1>2, <1>3, HonestTypes, NotOlderLike
  <1>5. read'.age <= faults'
    <2>1. CASE Quiet
      <3>1. read' = NoRead
        BY <1>1, <2>1 DEF Quiet, Base, Copies
      <3>2. QED
        BY <1>2, <3>1, SecretTypes
    <2>2. CASE ~Quiet
      <3>1. read.age \in 0..MaxAge
        BY DEF Base, Typed
      <3>2. Older(read.age) <= read.age + 1 /\ Older(read.age) \in 0..MaxAge
        BY <3>1, Ages
      <3>3. read.age <= faults /\ faults' = faults + 1
        BY <1>1, <2>2 DEF Honest
      <3>4. QED
        BY <1>1, <3>1, <3>2, <3>3, HonestTypes, ConstantTypes
    <2>3. QED
      BY <2>1, <2>2
  <1>6. QED
    BY <1>4, <1>5 DEF Honest

(* A call renders what it has read, and copies inherit from one another.   *)
LEMMA CallHonest ==
  ASSUME Honest, Base, Call
  PROVE  Honest'
  <1>1. /\ Typed /\ Copies /\ cache' = cache /\ cache \in VaultSecrets
        /\ \/ faults' = faults
           \/ faults' = faults + 1
    BY DEF Base, Typed, Call, Kept
  <1>2. /\ api' \in VaultSecrets /\ inst' \in VaultSecrets /\ secret' \in Secrets
        /\ faults \in Nat /\ faults' \in Nat /\ faults <= faults'
    <2>1. faults' \in Nat /\ faults <= faults'
      BY <1>1, HonestTypes
    <2>2. QED
      BY <2>1, CallBase, HonestTypes DEF Base, Typed
  <1>3. read.age \in Nat /\ read.age <= faults'
    BY <1>2, HonestTypes DEF Honest
  <1>4. ASSUME SecretKept,
               \/ api' = api
               \/ api'.since = Never
               \/ api'.meta.uid = inst.meta.uid /\ api'.since = inst.since,
               inst' = inst \/ inst'.since = Never,
               read'.age <= faults'
        PROVE  Honest'
    <2>1. secret' = secret /\ secret \in Secrets
      BY <1>1, <1>4 DEF SecretKept, Typed
    <2>2. /\ NotOlder(secret, api, faults') /\ NotOlder(secret, cache, faults')
          /\ NotOlder(secret, inst, faults')
      BY <1>2, HonestTypes, NotOlderLike DEF Honest
    <2>3. NotOlder(secret', api', faults') /\ NotOlder(secret', inst', faults')
      BY <1>4, <2>1, <2>2 DEF NotOlder
    <2>4. NotOlder(secret', cache', faults')
      BY <1>1, <2>1, <2>2
    <2>5. QED
      BY <1>4, <2>3, <2>4 DEF Honest
  <1>5. ASSUME SecretWritten(NoSecret) \/ SecretWritten(Rendered),
               read'.age <= faults'
        PROVE  Honest'
    <2>1. ~Owned(secret') \/ secret'.age <= faults'
      BY <1>1, <1>3, <1>5, SecretTypes, RenderedFacts DEF SecretWritten
    <2>2. \A obj \in VaultSecrets : NotOlder(secret', obj, faults')
      BY <1>2, <2>1, NotOlderFresh
    <2>3. cache' \in VaultSecrets
      BY <1>1
    <2>4. QED
      BY <1>2, <1>5, <2>2, <2>3 DEF Honest
  <1>6. read' = read \/ read'.age = 0 => read'.age <= faults'
    BY <1>2, <1>3
  <1>7. NoRead.age = 0 /\ NoVaultSecret.since = Never
    BY SecretTypes, NoVaultSecretFacts
  <1>8. CASE ReadDone
    <2>1. read'.age = 0
      BY <1>8 DEF ReadDone
    <2>2. QED
      BY <1>4, <1>6, <1>8, <2>1 DEF ReadDone, ApiKept, WorkerKept
  <1>9. CASE Failed
    BY <1>4, <1>5, <1>6, <1>7, <1>9 DEF Failed, ApiKept, WorkerKept
  <1>10. CASE PutDone \/ Deleted
    BY <1>5, <1>6, <1>10 DEF PutDone, Deleted
  <1>11. CASE Recorded
    BY <1>4, <1>6, <1>11 DEF Recorded, ApiStored, WorkerKept
  <1>12. CASE Finished
    <2>1. SecretKept /\ inst'.since = Never /\ read'.age = 0
      BY <1>7, <1>12 DEF Finished, Ended
    <2>2. \/ api' = api
          \/ api'.meta.uid = inst.meta.uid /\ api'.since = inst.since
      BY <1>12 DEF Finished, ApiKept, ApiStored, LikeInst
    <2>3. QED
      BY <1>4, <1>6, <2>1, <2>2
  <1>13. CASE Removed
    <2>1. api'.since = Never
      BY <1>7, <1>13 DEF Removed, ApiStored
    <2>2. /\ SecretKept /\ (inst' = inst \/ inst'.since = Never)
          /\ read' = read \/ read'.age = 0
      BY <1>7, <1>13 DEF Removed, Ended
    <2>3. QED
      BY <1>4, <1>6, <2>1, <2>2
  <1>14. QED
    BY <1>8, <1>9, <1>10, <1>11, <1>12, <1>13 DEF Call

(* No copy of the status is ever later than the data of the K8s Secret of  *)
(* its incarnation, whatever the cycles, the caches and others do: only    *)
(* ticks in the middle of something, each a fault, set the data back.      *)
THEOREM HonestInvariant == Spec => []Honest
  <1> DEFINE Inv == Base /\ Honest
  <1>1. Init => Inv
    BY InitBase, InitHonest
  <1>2. Inv /\ [Next]_vars => Inv'
    <2> SUFFICES ASSUME Base, Honest, [Next]_vars PROVE Inv'
      OBVIOUS
    <2>1. Base'
      BY NextBase
    <2>2. CASE UNCHANGED vars \/ WatchSecret
      <3>1. /\ api' = api /\ cache' = cache /\ inst' = inst /\ secret' = secret
            /\ read' = read /\ faults' = faults
        <4>1. CASE UNCHANGED vars
          BY <4>1, StutterEffect
        <4>2. CASE WatchSecret
          BY <4>2, WatchSecretEffect
        <4>3. QED
          BY <2>2, <4>1, <4>2
      <3>2. Honest'
        BY <3>1 DEF Honest
      <3>3. QED
        BY <2>1, <3>2
    <2>3. CASE Stored \/ Meddled \/ Taken \/ Call \/ Watch \/ Tick \/ Crash
      BY <2>1, <2>3, StoredHonest, MeddledHonest, TakenHonest, CallHonest,
         WatchHonest, TickHonest, CrashHonest
    <2>4. QED
      BY <2>2, <2>3, Effects
  <1> HIDE DEF Inv
  <1>3. Spec => []Inv
    BY <1>1, <1>2, PTL DEF Spec
  <1>4. Inv => Honest
    BY DEF Inv
  <1>5. QED
    BY <1>3, <1>4, PTL

(* status.lastVaultSecretUpdate is never later than the data, but for as   *)
(* many ticks as came in the middle of something.                          *)
THEOREM ContentNotOlderHolds == Spec => []ContentNotOlder
  <1>1. Base /\ Honest => ContentNotOlder
    <2> SUFFICES ASSUME Base, Honest, Live(api), Mine(secret), api.since # Never
                 PROVE  secret.age <= api.since + faults
      BY DEF ContentNotOlder
    <2>1. Owned(secret) /\ secret.owner = api.meta.uid
      BY DEF Mine, Live, Owned, Exists
    <2>2. QED
      BY <2>1 DEF Honest, NotOlder
  <1>2. QED
    BY <1>1, BaseInvariant, HonestInvariant, PTL
=============================================================================
