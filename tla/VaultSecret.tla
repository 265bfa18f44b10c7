----------------------------- MODULE VaultSecret -----------------------------
(***************************************************************************)
(* The VaultSecret controller: secrets read from Vault are rendered into a *)
(* K8s Secret, again whenever spec.refreshPeriod, or a share of the        *)
(* shortest lease, has passed since status.lastVaultSecretUpdate, and      *)
(* whenever the K8s Secret was deleted or its data do not match its hash.  *)
(* One VaultSecret and the one K8s Secret name that it outputs to.         *)
(*                                                                         *)
(* What Vault holds is left out: the controller never compares it, it only *)
(* reads again in time.  Times are kept as ages, cut at MaxAge, so that    *)
(* time can go on for ever.  Time passes while the program has nothing to  *)
(* do; a tick while there is something to do is a fault of its own, so     *)
(* that promises about time can count the faults that delay them.          *)
(***************************************************************************)
EXTENDS KubeObject, FiniteSets

CONSTANTS Periods,            \* refreshPeriod values, 0 for none
          Leases,             \* lease durations that Vault returns
          RefreshThreshold,   \* percentage of the lease
          Definitions,        \* number of vaultSecretDefinitions
          MaxAge,             \* ages are cut here
          MaxGen,             \* bound: user requests
          MaxFaults,          \* bound: failed calls, delays and restarts
          MaxTampers          \* bound: changes of the K8s Secret by others

ASSUME VaultSecretConstants ==
    /\ MaxAge \in Nat \ {0} /\ Periods \subseteq 0..MaxAge
    /\ Leases \subseteq 0..MaxAge /\ Leases # {}
    /\ RefreshThreshold \in 0..100 /\ Definitions \in Nat \ {0}
    /\ {MaxGen, MaxFaults, MaxTampers} \subseteq Nat

VARIABLES
    api,             \* the VaultSecret in the API server
    lastGen,         \* newest generation given out
    cache,           \* the informer's copy
    cacheCurrent,    \* is it the stored version?
    secret,          \* the K8s Secret in the API server
    seen,            \* the informer's copy of it
    seenCurrent,     \* is it the stored version?
    wake,            \* is an event of the Secret that passes on its way?
    queued,          \* is the VaultSecret in the work queue?
    timer,           \* time until the queue gets it by AddAfter, 0: no timer
    pc,              \* the next call of the worker, "idle" between cycles
    inst,            \* the worker's copy
    instCurrent,     \* is it the stored version?
    issue,           \* ManageOutcome's issue
    read,            \* what was read: its age and the leases it came with
    foreign,         \* history: someone else's Secret had the name
    faults, tampers

kube == <<api, lastGen>>
informer == <<cache, cacheCurrent>>
secrets == <<secret, foreign>>
secretInformer == <<seen, seenCurrent, wake>>
work == <<queued, timer>>
worker == <<pc, inst, instCurrent, issue, read>>
bounds == <<faults, tampers>>
vars == <<kube, informer, secrets, secretInformer, work, worker, bounds>>

Never == MaxAge + 1

(* spec.refreshPeriod; status.lastVaultSecretUpdate as an age; the leases  *)
(* in status.vaultSecretDefinitionsStatus; whether                         *)
(* status.nextVaultSecretUpdate is set.                                    *)
VaultSecrets == [meta : Object, refresh : Periods \union {0}, since : 0..Never,
                 leases : SUBSET Leases, next : BOOLEAN]

NoVaultSecret == [meta |-> Absent, refresh |-> 0, since |-> Never,
                  leases |-> {}, next |-> FALSE]

(* The K8s Secret: the incarnation of the VaultSecret that owns it, the    *)
(* generation it was rendered from, the age of the oldest value in it, and *)
(* whether its hash annotation matches its data.                           *)
Secrets == [owner : Nat, gen : Nat, age : 0..MaxAge, intact : BOOLEAN]

NoSecret == [owner |-> 0, gen |-> 0, age |-> 0, intact |-> FALSE]

ForeignSecret == [NoSecret EXCEPT !.intact = TRUE]

Owned(s) == s.owner # 0

PCs == {"idle", "read", "put", "status", "addFinalizer", "delete",
        "removeFinalizer"}

TypeOK ==
    /\ {api, cache, inst} \subseteq VaultSecrets
    /\ {secret, seen} \subseteq Secrets
    /\ {cacheCurrent, seenCurrent, wake, queued, instCurrent, issue, foreign}
         \subseteq BOOLEAN
    /\ lastGen \in 0..MaxGen
    /\ timer \in 0..MaxAge
    /\ read \in [age : 0..MaxAge, leases : SUBSET Leases]
    /\ pc \in PCs /\ (pc = "idle" <=> inst = NoVaultSecret)
    /\ faults \in 0..MaxFaults /\ tampers \in 0..MaxTampers

NoRead == [age |-> 0, leases |-> {}]

Init ==
    /\ api = NoVaultSecret /\ cache = NoVaultSecret /\ cacheCurrent = TRUE
    /\ lastGen = 0
    /\ secret = NoSecret /\ seen = NoSecret /\ seenCurrent = TRUE /\ wake = FALSE
    /\ foreign = FALSE
    /\ queued = FALSE /\ timer = 0
    /\ pc = "idle" /\ inst = NoVaultSecret /\ instCurrent = FALSE
    /\ issue = FALSE /\ read = NoRead
    /\ faults = 0 /\ tampers = 0

Live(obj) == Exists(obj.meta) /\ ~obj.meta.deleting

Fault == faults < MaxFaults /\ faults' = faults + 1

NoFault == faults' = faults

-----------------------------------------------------------------------------
(* Time.  A timer that runs out puts the object in the queue.              *)
Quiet == pc = "idle" /\ ~queued /\ cacheCurrent /\ seenCurrent

Older(age) == IF age < MaxAge THEN age + 1 ELSE age

Aged(obj) ==
    [obj EXCEPT !.since = IF @ = Never THEN Never ELSE Older(@)]

AgedSecret(s) == IF s.gen = 0 THEN s ELSE [s EXCEPT !.age = Older(@)]

Tick ==
    /\ (Quiet /\ NoFault) \/ (~Quiet /\ Fault)
    /\ api' = Aged(api) /\ cache' = Aged(cache) /\ inst' = Aged(inst)
    /\ secret' = AgedSecret(secret) /\ seen' = AgedSecret(seen)
    /\ read' = IF read = NoRead THEN read ELSE [read EXCEPT !.age = Older(@)]
    /\ timer' = IF timer > 0 THEN timer - 1 ELSE 0
    /\ queued' = (queued \/ timer = 1)
    /\ UNCHANGED <<lastGen, cacheCurrent, seenCurrent, wake, foreign,
                   pc, instCurrent, issue, tampers>>

-----------------------------------------------------------------------------
(* Users and the API server.                                               *)
StoreByOther(obj) ==
    /\ api' = obj /\ cacheCurrent' = FALSE /\ instCurrent' = FALSE
    /\ UNCHANGED <<cache, secrets, secretInformer, work, pc, inst,
                   issue, read, bounds>>

NextGen == lastGen + 1

Bump == lastGen < MaxGen /\ lastGen' = NextGen

UserCreate ==
    /\ ~Exists(api.meta) /\ Bump
    /\ \E r \in Periods :
         StoreByOther([NoVaultSecret EXCEPT !.meta = Created(NextGen),
                                            !.refresh = r])

UserEdit ==
    /\ Exists(api.meta) /\ Bump
    /\ \E r \in Periods :
         StoreByOther([api EXCEPT !.meta = Edited(@, NextGen), !.refresh = r])

UserDelete ==
    /\ Live(api)
    /\ \/ ~api.meta.finalizer /\ lastGen' = lastGen
          /\ StoreByOther(NoVaultSecret)
       \/ /\ api.meta.finalizer /\ Bump
          /\ StoreByOther([api EXCEPT
                             !.meta = MarkedDeleted(@, NextGen, FALSE)])

(* Broken: a deleted K8s Secret is no reason to reconcile. *)
SecretEventUpdatesOnly(old, new) ==
    old # NoSecret /\ Owned(new) /\ ~new.intact

(* k8sSecretPredicate: deletions and changes that break the hash, of owned *)
(* Secrets only; creations never.                                          *)
SecretEvent(old, new) ==
    /\ old # NoSecret
    /\ \/ new = NoSecret /\ Owned(old)
       \/ Owned(new) /\ ~new.intact

(* The informer is told of every version of the Secret in turn. *)
ChangeSecret(s) ==
    /\ secret' = s /\ seenCurrent' = FALSE
    /\ wake' = (wake \/ SecretEvent(secret, s))
    /\ UNCHANGED seen

(* A change of the K8s Secret by others or by the garbage collector. *)
StoreSecret(s) ==
    /\ ChangeSecret(s)
    /\ UNCHANGED <<kube, informer, work, worker, faults>>

Tamper ==
    /\ tampers < MaxTampers /\ tampers' = tampers + 1
    /\ \/ Owned(secret) /\ StoreSecret([secret EXCEPT !.intact = FALSE])
          /\ UNCHANGED foreign
       \/ secret # NoSecret /\ StoreSecret(NoSecret) /\ UNCHANGED foreign
       \/ secret = NoSecret /\ StoreSecret(ForeignSecret) /\ foreign' = TRUE

(* The K8s Secret has an owner reference to its VaultSecret. *)
CollectSecret ==
    /\ Owned(secret) /\ secret.owner # api.meta.uid
    /\ StoreSecret(NoSecret)
    /\ UNCHANGED <<foreign, tampers>>

-----------------------------------------------------------------------------
(* Events.                                                                 *)

(* A deletion or a changed spec, and a changed generation. *)
Watch ==
    /\ ~cacheCurrent
    /\ LET replaced == Exists(cache.meta) /\ cache.meta.uid # api.meta.uid
       IN  /\ cache' = IF replaced THEN NoVaultSecret ELSE api
           /\ cacheCurrent' = (replaced => ~Exists(api.meta))
           /\ queued' = (queued \/ replaced \/ cache.meta.gen # api.meta.gen)
    /\ UNCHANGED <<kube, secrets, secretInformer, timer, worker, bounds>>

WatchSecret ==
    /\ ~seenCurrent
    /\ seen' = secret /\ seenCurrent' = TRUE /\ wake' = FALSE
    /\ queued' = (queued \/ wake)
    /\ UNCHANGED <<kube, informer, secrets, timer, worker, bounds>>

-----------------------------------------------------------------------------
(* The reconcile cycle.                                                    *)
Goto(next) ==
    /\ pc' = next
    /\ UNCHANGED <<inst, instCurrent, issue, read, work>>

Fail ==
    /\ pc' = "status" /\ issue' = TRUE /\ read' = NoRead
    /\ UNCHANGED <<inst, instCurrent, work>>

(* The delaying queue keeps the earlier of two times for one object. *)
Earlier(t, u) == IF t = 0 \/ (u # 0 /\ u < t) THEN u ELSE t

(* End of a cycle; after an error the queue hands the object out again     *)
(* after its back-off, here one tick.                                      *)
Done(requeueAfter) ==
    /\ pc' = "idle" /\ inst' = NoVaultSecret /\ instCurrent' = FALSE
    /\ issue' = FALSE /\ read' = NoRead
    /\ timer' = Earlier(timer, requeueAfter)
    /\ UNCHANGED queued

Backoff == 1

Calculable(obj) == obj.refresh # 0 \/ obj.leases # {}

Scaled(lease) == (lease * RefreshThreshold) \div 100

(* Broken: the longest lease counts. *)
DurationLongest(obj) ==
    IF obj.refresh # 0 THEN obj.refresh
    ELSE Scaled(CHOOSE l \in obj.leases : \A m \in obj.leases : l >= m)

(* The refresh period if set, else a share of the shortest lease. *)
Duration(obj) ==
    IF obj.refresh # 0 THEN obj.refresh
    ELSE Scaled(CHOOSE l \in obj.leases : \A m \in obj.leases : l <= m)

(* The last update is as old as the period asks for. *)
Elapsed(obj) == Calculable(obj) /\ obj.since >= Duration(obj)

(* Broken: with the period over only a Secret that is gone is written. *)
ShouldSyncMissing(obj, s) == s = NoSecret \/ ~s.intact \/ obj.since = Never

(* For a Secret that is missing or owned by obj. *)
ShouldSync(obj, s) ==
    \/ s = NoSecret
    \/ ~s.intact
    \/ obj.since = Never
    \/ Elapsed(obj)

(* What the cycle starts with: nothing to do any more, the cleanup, an     *)
(* error since the Secret is someone else's, a sync, or no sync.           *)
Begin(obj) ==
    CASE obj.meta.deleting /\ ~obj.meta.finalizer -> "idle"
      [] obj.meta.deleting /\ obj.meta.finalizer -> "delete"
      [] OTHER -> IF seen = NoSecret \/ seen.owner = obj.meta.uid
                  THEN IF ShouldSync(obj, seen) THEN "read" ELSE "status"
                  ELSE "notOwned"

(* nextVaultSecretUpdate is set when a duration can be calculated. *)
WithNext(obj) == [obj EXCEPT !.next = Calculable(obj)]

Take ==
    /\ pc = "idle" /\ queued
    /\ queued' = FALSE /\ UNCHANGED timer
    /\ LET begin == IF Exists(cache.meta) THEN Begin(cache) ELSE "idle" IN
       IF begin = "idle" THEN UNCHANGED worker
       ELSE /\ pc' = IF begin = "notOwned" THEN "status" ELSE begin
            /\ inst' = IF begin = "status" THEN WithNext(cache) ELSE cache
            /\ instCurrent' = cacheCurrent
            /\ issue' = (begin = "notOwned")
            /\ read' = NoRead
    /\ UNCHANGED <<kube, informer, secrets, secretInformer, bounds>>

(* For each definition: login, then the read of its path, which comes with *)
(* a lease.  The first error, or a path with nothing there, ends the sync. *)
Read ==
    /\ pc = "read"
    /\ \/ /\ NoFault
          /\ \E leases \in SUBSET Leases :
               /\ Cardinality(leases) \in 1..Definitions
               /\ read' = [age |-> 0, leases |-> leases]
          /\ pc' = "put"
          /\ UNCHANGED <<inst, instCurrent, issue, work>>
       \/ Fault /\ Fail
    /\ UNCHANGED <<kube, informer, secrets, secretInformer, tampers>>

(* formatK8sSecret, with the hash of the data and the owner reference. *)
Rendered == [owner |-> inst.meta.uid, gen |-> inst.meta.gen, age |-> read.age,
             intact |-> TRUE]

Synced == WithNext([inst EXCEPT !.since = 0, !.leases = read.leases])

(* Broken: the status is filled in before the Secret is written. *)
PutStampedFirst ==
    /\ pc = "put"
    /\ inst' = Synced /\ pc' = "status" /\ read' = NoRead
    /\ \/ /\ ChangeSecret(Rendered)
          /\ NoFault /\ issue' = FALSE
       \/ Fault /\ issue' = TRUE /\ UNCHANGED <<secret, secretInformer>>
    /\ UNCHANGED <<kube, informer, foreign, tampers,
                   instCurrent, work>>

(* CreateOrUpdateResource: the Secret is looked up, not in the cache, and  *)
(* created or overwritten whoever owns it; then lastVaultSecretUpdate.  A  *)
(* change between the two calls is a conflict, one of the failures.        *)
Put ==
    /\ pc = "put"
    /\ \/ /\ ChangeSecret(Rendered)
          /\ \/ /\ NoFault
                /\ pc' = "status" /\ inst' = Synced
                /\ UNCHANGED <<instCurrent, issue, read, work>>
             \/ Fault /\ Fail
       \/ Fault /\ Fail /\ UNCHANGED <<secret, secretInformer>>
    /\ UNCHANGED <<kube, informer, foreign, tampers>>

(* manageCleanUpLogic: the Secret of that name goes, whoever owns it. *)
Delete ==
    /\ pc = "delete"
    /\ \/ /\ ChangeSecret(NoSecret)
          /\ (NoFault /\ Goto("removeFinalizer")) \/ (Fault /\ Fail)
       \/ Fault /\ Fail /\ UNCHANGED <<secret, secretInformer>>
    /\ UNCHANGED <<kube, informer, foreign, tampers>>

-----------------------------------------------------------------------------
StoreByWorker(obj) ==
    /\ instCurrent
    /\ api' = obj /\ cacheCurrent' = FALSE
    /\ UNCHANGED <<cache, lastGen>>

Rejected ==
    /\ (~instCurrent /\ NoFault) \/ Fault
    /\ UNCHANGED <<api, lastGen, informer>>

(* Broken: a due time in the past is not replaced by a second. *)
RequeueInThePast ==
    IF issue THEN Backoff
    ELSE IF ~Calculable(inst) THEN 0 ELSE Duration(inst) - inst.since

(* Until the next update, at least a second; no timer without a duration. *)
RequeueAfter ==
    IF issue THEN Backoff
    ELSE IF ~Calculable(inst) THEN 0
    ELSE IF inst.since < Duration(inst) THEN Duration(inst) - inst.since ELSE 1

(* ManageOutcome: the status, then the finalizer.  Nothing reads the       *)
(* condition of a VaultSecret, so it is left out.                          *)
Status ==
    /\ pc = "status"
    /\ \/ /\ StoreByWorker(inst) /\ NoFault
          /\ IF ~issue /\ ~inst.meta.finalizer
             THEN Goto("addFinalizer")
             ELSE Done(RequeueAfter)
       \/ StoreByWorker(inst) /\ Fault /\ Done(Backoff)
       \/ Rejected /\ Done(Backoff)
    /\ UNCHANGED <<secrets, secretInformer, tampers>>

AddFinalizer ==
    /\ pc = "addFinalizer"
    /\ LET obj == [inst EXCEPT !.meta = WithFinalizer(@)] IN
       \/ StoreByWorker(obj) /\ NoFault /\ Done(RequeueAfter)
       \/ StoreByWorker(obj) /\ Fault /\ Done(Backoff)
       \/ Rejected /\ Done(Backoff)
    /\ UNCHANGED <<secrets, secretInformer, tampers>>

RemoveFinalizer ==
    /\ pc = "removeFinalizer"
    /\ \/ /\ StoreByWorker(NoVaultSecret)
          /\ \/ NoFault /\ Done(0)
             \/ /\ Fault /\ pc' = "status" /\ issue' = TRUE
                /\ instCurrent' = FALSE
                /\ UNCHANGED <<inst, read, work>>
       \/ Rejected /\ Fail
    /\ UNCHANGED <<secrets, secretInformer, tampers>>

(* A restart: the queue and its timers are lost, the informers start       *)
(* empty, every VaultSecret comes back as a Create event.                  *)
Crash ==
    /\ Fault
    /\ queued' = FALSE /\ timer' = 0
    /\ cache' = NoVaultSecret /\ cacheCurrent' = ~Exists(api.meta)
    /\ seen' = secret /\ seenCurrent' = TRUE /\ wake' = FALSE
    /\ pc' = "idle" /\ inst' = NoVaultSecret /\ instCurrent' = FALSE
    /\ issue' = FALSE /\ read' = NoRead
    /\ UNCHANGED <<kube, secrets, tampers>>

Step ==
    \/ Take \/ Read \/ Put \/ Delete
    \/ Status \/ AddFinalizer \/ RemoveFinalizer

Next ==
    \/ UserCreate \/ UserEdit \/ UserDelete
    \/ Tamper \/ CollectSecret
    \/ Tick \/ Watch \/ WatchSecret
    \/ Step
    \/ Crash

Spec == Init /\ [][Next]_vars

FairSpec ==
    /\ Spec
    /\ WF_vars(CollectSecret) /\ WF_vars(Tick)
    /\ WF_vars(Watch) /\ WF_vars(WatchSecret) /\ WF_vars(Step)

-----------------------------------------------------------------------------
(* Safety.  What may go wrong here is a lost wake-up: a restart, an edit,  *)
(* an error or a stale copy after which nobody looks again.                *)

Mine(s) == s.owner = api.meta.uid

(* docs/secret-management.md:68: a change of the data or the deletion of   *)
(* the K8s Secret re-reconciles.  When the program rests, a VaultSecret    *)
(* has its K8s Secret with the data that were written, or the retry of a   *)
(* failed cycle is due.  Only someone else's Secret of that name can be in *)
(* the way.                                                                *)
HealsAtOnce ==
    Quiet /\ Live(api) /\ ~foreign
      => (Mine(secret) /\ secret.intact) \/ timer = 1

(* When the program rests, a VaultSecret that was synced is waiting in the *)
(* queue for no later than its period, or the share of each of its leases, *)
(* asks for; also after restarts, edits of the period and failures.        *)
DueInTime ==
    Quiet /\ Live(api) /\ api.since # Never
      => \/ timer = 1
         \/ /\ timer > 1
            /\ IF api.refresh # 0 THEN timer <= api.refresh - api.since
               ELSE \A l \in api.leases : timer <= Scaled(l) - api.since

(* status.lastVaultSecretUpdate is never later than the K8s Secret's data; *)
(* a slow cycle can only make the data as much older as it took.           *)
ContentNotOlder ==
    Live(api) /\ Mine(secret) /\ api.since # Never
      => secret.age <= api.since + faults

-----------------------------------------------------------------------------
(* Liveness.                                                               *)

(* docs/secret-management.md:73-74: the K8s Secret follows Vault with the  *)
(* refresh period, or before its leases end, and follows the spec with it: *)
(* again and again it holds data just read, rendered from the newest spec. *)
KeepsRefreshing ==
    []<>(Live(api) /\ ~foreign
           => Mine(secret) /\ secret.gen = api.meta.gen /\ secret.age = 0)
=============================================================================
