--------------------------- MODULE VaultResource ---------------------------
(***************************************************************************)
(* The reconcile loop shared by the kinds that own one plain Vault path    *)
(* (policies, roles, engine and auth configurations, entities, ...):       *)
(* VaultResource.Reconcile with ManageOutcome, VaultEndpoint, the per-kind *)
(* controller's Get and prepareContext around it, and what it runs against *)
(* - the API server, the informer cache, the work queue and Vault.         *)
(*                                                                         *)
(* A controller has one worker (MaxConcurrentReconciles is never set) and  *)
(* the deployment elects one leader, so there is one `cur' at a time.      *)
(* Every remote call is a step of its own.  A call can be refused, or take *)
(* effect and lose its reply; both look like an error to the code.  The    *)
(* process can crash between any two steps.                                *)
(*                                                                         *)
(* resourceVersion is modelled by the one use made of it: the API server   *)
(* accepts an update iff the writer's copy is of the stored version.       *)
(* cacheCurrent and instCurrent record that equality for the two copies.   *)
(***************************************************************************)
EXTENDS KubeObject, FiniteSets

CONSTANTS Objects, Paths, PathOf, Nobody,   \* as in DesiredState
          Deletable,        \* resources whose kind has IsDeletable() = TRUE
          DriftDetection,   \* ENABLE_DRIFT_DETECTION
          MaxGen,           \* bound: user requests per resource name
          MaxFaults,        \* bound: failed calls and crashes
          MaxDrifts         \* bound: changes made in Vault by others

ASSUME ConstantTypes ==
    /\ PathOf \in [Objects -> Paths]
    /\ Nobody \notin Objects
    /\ Deletable \subseteq Objects
    /\ DriftDetection \in BOOLEAN
    /\ MaxGen \in Nat /\ MaxFaults \in Nat /\ MaxDrifts \in Nat

VARIABLES
    api,           \* the objects in the API server
    lastGen,       \* newest generation given out under each name
    cache,         \* the informer's copy of each object
    cacheCurrent,  \* is the informer's copy the stored version?
    queue,         \* the controller's work queue
    cur,           \* the object under reconcile, Nobody between reconciles
    inst,          \* the worker's in-memory copy of it
    instCurrent,   \* is the worker's copy the stored version?
    pc,            \* the next call of the worker
    issue,         \* did the reconcile cycle fail? (ManageOutcome's issue)
    vault,         \* the entry at each Vault path
    faults,        \* failures so far
    drifts,        \* changes made in Vault by others so far
    retired        \* history: newest generation removed with its finalizer

kube == <<api, lastGen, retired>>
informer == <<cache, cacheCurrent>>
worker == <<cur, inst, instCurrent, pc, issue>>
world == <<vault, drifts>>
vars == <<kube, informer, queue, worker, world, faults>>

Promise == INSTANCE DesiredState WITH desired <- lastGen

EntryOf(o, g) == [owner |-> o, gen |-> g]
NoEntry == EntryOf(Nobody, 0)
Foreign == EntryOf(Nobody, 1)
Entry == [owner : Objects \union {Nobody}, gen : Nat]

(* The calls a reconcile cycle can be about to make. *)
WritePhase == {"prepare", "vaultRead", "vaultWrite", "addFinalizer"}
CleanPhase == {"vaultDelete", "removeFinalizer"}
PCs == {"idle", "login", "status"} \union WritePhase \union CleanPhase

TypeOK ==
    /\ api \in [Objects -> Object]
    /\ cache \in [Objects -> Object]
    /\ inst \in Object
    /\ lastGen \in [Objects -> Nat] /\ retired \in [Objects -> Nat]
    /\ cacheCurrent \in [Objects -> BOOLEAN]
    /\ queue \in SUBSET Objects
    /\ cur \in Objects \union {Nobody}
    /\ instCurrent \in BOOLEAN /\ issue \in BOOLEAN
    /\ pc \in PCs
    /\ (pc = "idle") <=> (cur = Nobody)
    /\ vault \in [Paths -> Entry]
    /\ faults \in 0..MaxFaults /\ drifts \in 0..MaxDrifts

Init ==
    /\ api = [o \in Objects |-> Absent]
    /\ cache = api
    /\ lastGen = [o \in Objects |-> 0] /\ retired = [o \in Objects |-> 0]
    /\ cacheCurrent = [o \in Objects |-> TRUE]
    /\ queue = {}
    /\ cur = Nobody /\ inst = Absent /\ instCurrent = FALSE
    /\ pc = "idle" /\ issue = FALSE
    /\ vault = [p \in Paths |-> NoEntry]
    /\ faults = 0 /\ drifts = 0

-----------------------------------------------------------------------------
(* The API server accepts a request of somebody other than the worker: the *)
(* stored version moves away from the copies.                              *)
StoreByOther(o, obj) ==
    /\ api' = [api EXCEPT ![o] = obj]
    /\ cacheCurrent' = [cacheCurrent EXCEPT ![o] = FALSE]
    /\ instCurrent' = (instCurrent /\ cur # o)
    /\ UNCHANGED <<cache, queue, cur, inst, pc, issue, world, faults, retired>>

NextGen(o) == lastGen[o] + 1

Bump(o) ==
    /\ lastGen[o] < MaxGen
    /\ lastGen' = [lastGen EXCEPT ![o] = NextGen(o)]

UserCreate(o) ==
    /\ ~Exists(api[o])
    /\ Bump(o)
    /\ StoreByOther(o, Created(NextGen(o)))

UserEdit(o) ==
    /\ Exists(api[o])
    /\ Bump(o)
    /\ StoreByOther(o, Edited(api[o], NextGen(o)))

(* An object without finalizers goes at once; one with the operator's, or  *)
(* deleted in the foreground, gets a deletion timestamp, which counts as a *)
(* new generation.                                                         *)
UserDelete(o) ==
    /\ Exists(api[o]) /\ ~api[o].deleting
    /\ \/ /\ ~api[o].finalizer
          /\ lastGen' = lastGen
          /\ StoreByOther(o, Absent)
       \/ \E foreground \in BOOLEAN :
            /\ api[o].finalizer \/ foreground
            /\ Bump(o)
            /\ StoreByOther(o, MarkedDeleted(api[o], NextGen(o), foreground))

(* The garbage collector finishes a foreground deletion. *)
GarbageCollect(o) ==
    /\ api[o].held
    /\ lastGen' = lastGen
    /\ StoreByOther(o, Released(api[o]))

(* Someone else removes or overwrites an entry in Vault. *)
Drift(p) ==
    /\ drifts < MaxDrifts
    /\ drifts' = drifts + 1
    /\ \E e \in {NoEntry, Foreign} : vault' = [vault EXCEPT ![p] = e]
    /\ UNCHANGED <<kube, informer, queue, worker, faults>>

-----------------------------------------------------------------------------
(* PeriodicReconcilePredicate.Update on a change of the object: only a new *)
(* generation matters.                                                     *)
GenerationChanged(old, new) == new.gen # old.gen

(* The informer catches up with the API server and hands the event to the  *)
(* controller.  Create and Delete events pass the predicate.  Another      *)
(* incarnation is seen as the deletion of the old one first.               *)
Watch(o) ==
    /\ ~cacheCurrent[o]
    /\ LET replaced == Exists(cache[o]) /\ cache[o].uid # api[o].uid
           new == IF replaced THEN Absent ELSE api[o]
       IN  /\ cache' = [cache EXCEPT ![o] = new]
           /\ cacheCurrent' = [cacheCurrent EXCEPT
                                 ![o] = replaced => ~Exists(api[o])]
           /\ queue' = IF GenerationChanged(cache[o], new)
                       THEN queue \union {o} ELSE queue
    /\ UNCHANGED <<kube, worker, world, faults>>

(* The informer's periodic resync repeats an update event for an unchanged *)
(* object; it passes the predicate when drift detection is on and the last *)
(* success is older than the sync period.  When that is so is left open    *)
(* here and timed in PeriodicReconcile.                                    *)
Resync(o) ==
    /\ DriftDetection
    /\ Exists(cache[o]) /\ Succeeded(cache[o])
    /\ queue' = queue \union {o}
    /\ UNCHANGED <<kube, informer, worker, world, faults>>

-----------------------------------------------------------------------------
(* Broken: the worker forgets to let go of the object. *)
DoneHoldingOn(requeue) ==
    /\ queue' = IF requeue THEN queue \union {cur} ELSE queue
    /\ UNCHANGED <<cur, inst, instCurrent>>
    /\ pc' = "idle" /\ issue' = FALSE

(* Broken: the error is logged and not returned, so nothing is retried. *)
DoneNoRetry(requeue) ==
    /\ queue' = queue
    /\ cur' = Nobody /\ inst' = Absent /\ instCurrent' = FALSE
    /\ pc' = "idle" /\ issue' = FALSE

(* End of a reconcile cycle; an error puts the object back in the queue.   *)
Done(requeue) ==
    /\ queue' = IF requeue THEN queue \union {cur} ELSE queue
    /\ cur' = Nobody /\ inst' = Absent /\ instCurrent' = FALSE
    /\ pc' = "idle" /\ issue' = FALSE

Goto(next) ==
    /\ pc' = next
    /\ UNCHANGED <<cur, inst, instCurrent, issue, queue>>

(* Broken: the error is dropped on the way to ManageOutcome. *)
FailSilently ==
    /\ pc' = "status" /\ issue' = FALSE
    /\ UNCHANGED <<cur, inst, instCurrent, queue>>

(* A call returned an error and the cycle goes on to ManageOutcome(err). *)
Fail ==
    /\ pc' = "status" /\ issue' = TRUE
    /\ UNCHANGED <<cur, inst, instCurrent, queue>>

Fault ==
    /\ faults < MaxFaults
    /\ faults' = faults + 1

NoFault == faults' = faults

(* The work queue hands out an object.  The Get is served by the cache; an *)
(* object that is not there ends the cycle.                                *)
Take(o) ==
    /\ pc = "idle" /\ o \in queue
    /\ queue' = queue \ {o}
    /\ IF Exists(cache[o])
       THEN /\ cur' = o /\ inst' = cache[o] /\ instCurrent' = cacheCurrent[o]
            /\ pc' = "login" /\ issue' = FALSE
       ELSE UNCHANGED worker
    /\ UNCHANGED <<kube, informer, world, faults>>

(* Broken: clean up only what was reconciled at this generation; but the   *)
(* deletion itself is a new generation.                                    *)
CleanUpIfUpToDate ==
    IF cur \in Deletable /\ inst.conds["ReconcileSuccessful"] = inst.gen
    THEN "vaultDelete" ELSE "removeFinalizer"

(* The cleanup skips the Vault call when the kind is not deletable and     *)
(* when no reconcile cycle has ever succeeded.                             *)
CleanUpStep ==
    IF cur \in Deletable /\ Succeeded(inst)
    THEN "vaultDelete" ELSE "removeFinalizer"

(* What Reconcile decides before its next call. *)
Begin ==
    \/ inst.deleting /\ ~inst.finalizer /\ Done(FALSE)
    \/ inst.deleting /\ inst.finalizer /\ Goto(CleanUpStep)
    \/ ~inst.deleting /\ Goto("prepare")

(* prepareContext: the login to Vault. *)
Login ==
    /\ pc = "login"
    /\ (NoFault /\ Begin) \/ (Fault /\ Fail)
    /\ UNCHANGED <<kube, informer, world>>

(* PrepareInternalValues and PrepareTLSConfig read Secrets, which may be   *)
(* missing or incomplete.                                                  *)
Prepare ==
    /\ pc = "prepare"
    /\ (NoFault /\ Goto("vaultRead")) \/ (Fault /\ Fail)
    /\ UNCHANGED <<kube, informer, world>>

(* CreateOrUpdate, first half: read the path and compare. *)
VaultRead ==
    /\ pc = "vaultRead"
    /\ \/ /\ NoFault
          /\ IF vault[PathOf[cur]] = EntryOf(cur, inst.gen)
             THEN Goto("status") ELSE Goto("vaultWrite")
       \/ Fault /\ Fail
    /\ UNCHANGED <<kube, informer, world>>

(* Broken: a failed write is rolled back to the last reconciled version. *)
VaultWriteRollingBack ==
    /\ pc = "vaultWrite"
    /\ \/ /\ vault' = [vault EXCEPT ![PathOf[cur]] = EntryOf(cur, inst.gen)]
          /\ NoFault /\ Goto("status")
       \/ /\ vault' = [vault EXCEPT ![PathOf[cur]] =
                          EntryOf(cur, inst.conds["ReconcileSuccessful"])]
          /\ Fault /\ Fail
    /\ UNCHANGED <<kube, informer, drifts>>

(* CreateOrUpdate, second half: the write does not depend on what the path *)
(* holds by now.                                                           *)
VaultWrite ==
    /\ pc = "vaultWrite"
    /\ \/ /\ vault' = [vault EXCEPT ![PathOf[cur]] = EntryOf(cur, inst.gen)]
          /\ (NoFault /\ Goto("status")) \/ (Fault /\ Fail)
       \/ Fault /\ Fail /\ UNCHANGED vault
    /\ UNCHANGED <<kube, informer, drifts>>

(* Broken: an error of the Vault call does not stop the cleanup. *)
VaultDeleteIgnoringErrors ==
    /\ pc = "vaultDelete"
    /\ \/ vault' = [vault EXCEPT ![PathOf[cur]] = NoEntry] /\ NoFault
       \/ Fault /\ UNCHANGED vault
    /\ Goto("removeFinalizer")
    /\ UNCHANGED <<kube, informer, drifts>>

(* DeleteIfExists: a path with nothing at it is no error. *)
VaultDelete ==
    /\ pc = "vaultDelete"
    /\ \/ /\ vault' = [vault EXCEPT ![PathOf[cur]] = NoEntry]
          /\ (NoFault /\ Goto("removeFinalizer")) \/ (Fault /\ Fail)
       \/ Fault /\ Fail /\ UNCHANGED vault
    /\ UNCHANGED <<kube, informer, drifts>>

-----------------------------------------------------------------------------
(* The worker's own update of the object is accepted. *)
StoreByWorker(obj) ==
    /\ instCurrent
    /\ api' = [api EXCEPT ![cur] = obj]
    /\ cacheCurrent' = [cacheCurrent EXCEPT ![cur] = FALSE]
    /\ UNCHANGED <<cache, lastGen>>

(* The update is not applied: a conflict when the copy is not current, or  *)
(* an API server that cannot be reached.                                   *)
Rejected ==
    /\ (~instCurrent /\ NoFault) \/ Fault
    /\ UNCHANGED <<api, lastGen, informer>>

(* ManageOutcome: the condition and the status update; after a success of  *)
(* a deletable kind the finalizer is still to be added.                    *)
Status ==
    /\ pc = "status"
    /\ LET obj == AddOrReplaceCondition(inst, OutcomeCondition(issue)) IN
       \/ /\ StoreByWorker(obj) /\ NoFault
          /\ IF ~issue /\ cur \in Deletable /\ ~inst.finalizer
             THEN /\ inst' = obj /\ pc' = "addFinalizer"
                  /\ UNCHANGED <<cur, instCurrent, issue, queue>>
             ELSE Done(issue)
       \/ StoreByWorker(obj) /\ Fault /\ Done(TRUE)
       \/ Rejected /\ Done(TRUE)
    /\ UNCHANGED <<world, retired>>

(* ManageOutcome, last: the finalizer. *)
AddFinalizer ==
    /\ pc = "addFinalizer"
    /\ \/ StoreByWorker(WithFinalizer(inst)) /\ NoFault /\ Done(FALSE)
       \/ StoreByWorker(WithFinalizer(inst)) /\ Fault /\ Done(TRUE)
       \/ Rejected /\ Done(TRUE)
    /\ UNCHANGED <<world, retired>>

(* The API server drops the object if this was its last finalizer.  `held' *)
(* is the stored one's, the copy being current.  An error leads to         *)
(* ManageOutcome(err) with the same copy, which is no longer current if    *)
(* the update was applied after all.                                       *)
RemoveFinalizer ==
    /\ pc = "removeFinalizer"
    /\ \/ /\ StoreByWorker(WithoutFinalizer(inst))
          /\ retired' = [retired EXCEPT ![cur] = lastGen[cur]]
          /\ \/ NoFault /\ Done(FALSE)
             \/ /\ Fault /\ pc' = "status" /\ issue' = TRUE
                /\ instCurrent' = FALSE
                /\ UNCHANGED <<cur, inst, queue>>
       \/ Rejected /\ Fail /\ UNCHANGED retired
    /\ UNCHANGED world

(* The process dies and is started again: queue, cache and the cycle under *)
(* way are gone; every object comes back as a Create event.                *)
Crash ==
    /\ Fault
    /\ queue' = {}
    /\ cache' = [o \in Objects |-> Absent]
    /\ cacheCurrent' = [o \in Objects |-> ~Exists(api[o])]
    /\ cur' = Nobody /\ inst' = Absent /\ instCurrent' = FALSE
    /\ pc' = "idle" /\ issue' = FALSE
    /\ UNCHANGED <<kube, world>>

Step ==
    \/ Login \/ Prepare \/ VaultRead \/ VaultWrite \/ VaultDelete
    \/ Status \/ AddFinalizer \/ RemoveFinalizer

Next ==
    \/ \E o \in Objects : UserCreate(o) \/ UserEdit(o) \/ UserDelete(o)
    \/ \E o \in Objects : Watch(o) \/ Resync(o) \/ Take(o)
    \/ \E o \in Objects : GarbageCollect(o)
    \/ \E p \in Paths : Drift(p)
    \/ Step
    \/ Crash

Spec == Init /\ [][Next]_vars

(* The worker and the informer run on; a queued object is handed out in    *)
(* the end because the work queue is first in, first out.  Users, drift    *)
(* and failures are never required to happen.                              *)
Fairness ==
    /\ WF_vars(Step)
    /\ \A o \in Objects : WF_vars(Watch(o)) /\ WF_vars(Resync(o))
    /\ \A o \in Objects : WF_vars(GarbageCollect(o))
    /\ \A o \in Objects : SF_vars(Take(o))

FairSpec == Spec /\ Fairness

-----------------------------------------------------------------------------
(* Safety.                                                                 *)

(* A resource has a Vault path of its own. *)
Exclusive(o) == \A x \in Objects : PathOf[x] = PathOf[o] => x = o

(* Once the operator has let go of a deleted resource (its finalizer is    *)
(* removed), no version of the resource that existed by then is in Vault,  *)
(* and none comes back: not through a stale cache, a retry, a crash or a   *)
(* reply that was lost between cleanup and finalizer removal.              *)
NothingLeftBehind ==
    \A o \in Objects : LET e == vault[PathOf[o]] IN
        e.owner = o => e.gen > retired[o]

(* Reconciling from stale copies never takes a Vault entry back to an      *)
(* older version of its resource.                                          *)
NoRegress ==
    [][\A p \in Paths :
         vault[p].owner \in Objects /\ vault'[p].owner = vault[p].owner
           => vault[p].gen <= vault'[p].gen]_vars

(* While nobody else writes to its path, a resource that is not being      *)
(* deleted and carries ReconcileSuccessful for some generation has that    *)
(* generation, or a later one, in Vault.                                   *)
SuccessIsInVault ==
    \A o \in Objects :
        /\ drifts = 0 /\ Exclusive(o)
        /\ Exists(api[o]) /\ ~api[o].deleting /\ Succeeded(api[o])
        => LET e == vault[PathOf[o]] IN
           e.owner = o /\ api[o].conds["ReconcileSuccessful"] <= e.gen

(* A finalizer always stands beside a ReconcileSuccessful condition, on    *)
(* which alone manageCleanUpLogic decides: so no cleanup is skipped.       *)
CleanupNotSkipped ==
    \A o \in Objects :
        api[o].finalizer => o \in Deletable /\ Succeeded(api[o])

(* All of the above at once: the operator keeps its promise. *)
ImplementsDesiredState == Promise!ASpec

-----------------------------------------------------------------------------
(* The inductive invariant behind these properties.                        *)

(* Version a of an object is not newer than version b, and a deletion that *)
(* a knows of is known to b unless b is a later incarnation.               *)
Precedes(a, b) ==
    /\ a.gen <= b.gen /\ a.uid <= b.uid
    /\ a.deleting /\ ~b.deleting => a.gen < b.uid

WellFormed(obj, o) ==
    IF Exists(obj)
    THEN /\ obj.uid <= obj.gen /\ obj.gen <= lastGen[o]
         /\ obj.finalizer => o \in Deletable /\ Succeeded(obj)
    ELSE obj = Absent

(* The worker's copy is no newer than the informer's, nor that than the    *)
(* stored object; and only a current copy is equal to it.                  *)
CopyOrder(o) ==
    /\ WellFormed(api[o], o) /\ WellFormed(cache[o], o)
    /\ Exists(api[o]) => api[o].gen = lastGen[o]
    /\ Exists(api[o]) /\ Exists(cache[o]) => Precedes(cache[o], api[o])
    /\ cacheCurrent[o] => cache[o] = api[o]
    /\ cur = o =>
         /\ WellFormed(inst, o) /\ Exists(inst)
         /\ Exists(api[o]) => Precedes(inst, api[o])
         /\ Exists(cache[o]) => Precedes(inst, cache[o])
         /\ instCurrent => inst = api[o]

CopiesOrdered == \A o \in Objects : CopyOrder(o)

(* Vault is not ahead of any copy. *)
VaultBehind ==
    \A o \in Objects : LET e == vault[PathOf[o]] IN
        e.owner = o =>
            /\ e.gen <= lastGen[o]
            /\ Exists(cache[o]) => e.gen <= cache[o].gen
            /\ cur = o => e.gen <= inst.gen

(* A copy that could still be written to Vault is not retired. *)
RetiredNotWritten ==
    \A o \in Objects :
        /\ retired[o] <= lastGen[o]
        /\ Exists(api[o]) /\ ~api[o].deleting => retired[o] < api[o].gen
        /\ Exists(cache[o]) /\ ~cache[o].deleting => retired[o] < cache[o].gen
        /\ cur = o /\ ~inst.deleting => retired[o] < inst.gen

(* What the worker knows at each point of a cycle. *)
PhaseKnows ==
    /\ pc \in {"prepare", "vaultRead", "vaultWrite"} => ~inst.deleting
    /\ pc \in CleanPhase => inst.deleting /\ inst.finalizer
    /\ pc = "removeFinalizer" => vault[PathOf[cur]].owner # cur
    /\ pc = "addFinalizer" => cur \in Deletable /\ Succeeded(inst)

(* The conjunction is inductive; NothingLeftBehind, CleanupNotSkipped and  *)
(* the two step properties follow from it.                                 *)
IInv ==
    /\ TypeOK /\ CopiesOrdered /\ VaultBehind
    /\ RetiredNotWritten /\ PhaseKnows /\ NothingLeftBehind

(* What SuccessIsInVault needs besides: a Success condition is of the      *)
(* incarnation that every copy is of, so that no copy of an earlier one is *)
(* left to be cleaned up; and a cycle about to report success has found or *)
(* put its version in Vault.                                               *)
SuccessKnown(o) ==
    /\ Exists(api[o]) /\ Succeeded(api[o]) =>
         /\ Exists(cache[o]) => cache[o].uid = api[o].uid
         /\ cur = o => inst.uid = api[o].uid
         /\ ~api[o].deleting =>
              /\ vault[PathOf[o]].owner = o
              /\ api[o].conds["ReconcileSuccessful"] <= vault[PathOf[o]].gen
    /\ cur = o /\ pc = "status" /\ ~issue =>
         ~inst.deleting /\ vault[PathOf[o]] = EntryOf(o, inst.gen)

SuccessInv ==
    drifts = 0 => \A o \in Objects : Exclusive(o) => SuccessKnown(o)

-----------------------------------------------------------------------------
(* Liveness.                                                               *)

(* The resource is in Vault, as it was last specified, its status says so, *)
(* and a deletable one is protected by the finalizer.                      *)
Settled(o) ==
    /\ vault[PathOf[o]] = EntryOf(o, api[o].gen)
    /\ api[o].conds["ReconcileSuccessful"] = api[o].gen
    /\ o \in Deletable => api[o].finalizer

(* Whatever failed on the way: once users, others and failures come to     *)
(* rest, every resource that is there to stay settles for good.            *)
EventuallySettled ==
    \A o \in Objects :
        <>[](Exists(api[o]) /\ ~api[o].deleting => Settled(o))

(* A deletion is completed. *)
DeletionCompletes ==
    \A o \in Objects : api[o].deleting ~> ~api[o].deleting
=============================================================================
