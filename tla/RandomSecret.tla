---------------------------- MODULE RandomSecret ----------------------------
(***************************************************************************)
(* The RandomSecret controller: a generated password is written to a KV    *)
(* path of Vault, once, or again whenever spec.refreshPeriod has passed    *)
(* since status.lastVaultSecretUpdate.  One resource, since resources of   *)
(* this kind only share the worker.                                        *)
(*                                                                         *)
(* Times are kept as ages so that time can go on for ever: `since' is the  *)
(* time since lastVaultSecretUpdate in each copy of the object, saturating *)
(* at MaxAge, the longest refresh period.  The code asks for strictly more *)
(* than the period; as the stored time is cut to the second, a timer set   *)
(* for the period always finds that to be so, hence since >= refresh here. *)
(***************************************************************************)
EXTENDS KubeObject, FiniteSets

CONSTANTS Periods,          \* refreshPeriod values, 0 for none
          MaxAge,           \* the longest of them
          Policies,         \* kvSecretRetainPolicy values users ask for
          DriftDetection,   \* ENABLE_DRIFT_DETECTION
          MaxGen,           \* bound: user requests
          MaxFaults,        \* bound: failed calls
          MaxCrashes        \* bound: restarts of the operator

ASSUME RandomSecretConstants ==
    /\ MaxAge \in Nat \ {0} /\ Periods \subseteq 0..MaxAge
    /\ Policies \subseteq {"Delete", "Retain"}
    /\ DriftDetection \in BOOLEAN
    /\ MaxGen \in Nat /\ MaxFaults \in Nat /\ MaxCrashes \in Nat

VARIABLES
    api,            \* the RandomSecret in the API server
    lastGen,        \* newest generation given out
    cache,          \* the informer's copy
    cacheCurrent,   \* is it the stored version?
    queued,         \* is the object in the work queue?
    timer,          \* time until the queue gets it by AddAfter, 0: no timer
    pc,             \* the next call of the worker, "idle" between cycles
    inst,           \* the worker's copy
    instCurrent,    \* is it the stored version?
    issue,          \* ManageOutcome's issue
    requeueAfter,   \* ManageOutcome's requeueAfter
    twice,          \* is a second ManageOutcome still to come?
    vault,          \* who wrote the KV secret
    vaultAge,       \* time since it was written
    cleaned,        \* history: the last RandomSecret was cleaned up
    faults, crashes

kube == <<api, lastGen, cleaned>>
informer == <<cache, cacheCurrent>>
work == <<queued, timer>>
worker == <<pc, inst, instCurrent, issue, requeueAfter, twice>>
kv == <<vault, vaultAge>>
vars == <<kube, informer, work, worker, kv, faults, crashes>>

Never == MaxAge + 1

RandomSecrets == [meta : Object, refresh : Periods \union {0},
                  policy : {"Delete", "Retain"}, since : 0..Never]

NoSecret == [meta |-> Absent, refresh |-> 0, policy |-> "Delete",
             since |-> Never]

Writers == {"nobody", "other", "operator"}

PCs == {"idle", "login", "exists", "generate", "write", "status",
        "addFinalizer", "delete", "removeFinalizer"}

TypeOK ==
    /\ {api, cache, inst} \subseteq RandomSecrets
    /\ lastGen \in 0..MaxGen
    /\ {cacheCurrent, queued, instCurrent, issue, twice, cleaned}
         \subseteq BOOLEAN
    /\ timer \in 0..MaxAge /\ requeueAfter \in 0..MaxAge
    /\ pc \in PCs /\ (pc = "idle" <=> inst = NoSecret)
    /\ vault \in Writers /\ vaultAge \in 0..MaxAge
    /\ faults \in 0..MaxFaults /\ crashes \in 0..MaxCrashes

Init ==
    /\ api = NoSecret /\ cache = NoSecret /\ cacheCurrent = TRUE
    /\ lastGen = 0
    /\ queued = FALSE /\ timer = 0
    /\ pc = "idle" /\ inst = NoSecret /\ instCurrent = FALSE
    /\ issue = FALSE /\ requeueAfter = 0 /\ twice = FALSE
    /\ vault \in {"nobody", "other"} /\ vaultAge = 0
    /\ cleaned = FALSE
    /\ faults = 0 /\ crashes = 0

-----------------------------------------------------------------------------
(* Time.  A timer that runs out puts the object in the queue.              *)
Older(age) == IF age < MaxAge THEN age + 1 ELSE age

Aged(obj) == [obj EXCEPT !.since = Older(@)]

Tick ==
    /\ api' = Aged(api) /\ cache' = Aged(cache) /\ inst' = Aged(inst)
    /\ vaultAge' = Older(vaultAge)
    /\ timer' = IF timer > 0 THEN timer - 1 ELSE 0
    /\ queued' = (queued \/ timer = 1)
    /\ UNCHANGED <<lastGen, cacheCurrent, pc, instCurrent, issue, requeueAfter,
                   twice, vault, cleaned, faults, crashes>>

-----------------------------------------------------------------------------
(* Users.                                                                  *)
StoreByOther(obj) ==
    /\ api' = obj /\ cacheCurrent' = FALSE /\ instCurrent' = FALSE
    /\ UNCHANGED <<cache, work, pc, inst, issue, requeueAfter, twice,
                   vault, vaultAge, faults, crashes>>

NextGen == lastGen + 1

Bump == lastGen < MaxGen /\ lastGen' = NextGen

UserCreate ==
    /\ ~Exists(api.meta) /\ Bump
    /\ \E r \in Periods, p \in Policies :
         StoreByOther([NoSecret EXCEPT !.meta = Created(NextGen),
                                       !.refresh = r, !.policy = p])
    /\ cleaned' = FALSE

UserEdit ==
    /\ Exists(api.meta) /\ Bump
    /\ \E r \in Periods, p \in Policies :
         StoreByOther([api EXCEPT !.meta = Edited(@, NextGen),
                                  !.refresh = r, !.policy = p])
    /\ UNCHANGED cleaned

UserDelete ==
    /\ Exists(api.meta) /\ ~api.meta.deleting
    /\ \/ /\ ~api.meta.finalizer /\ lastGen' = lastGen
          /\ StoreByOther(NoSecret)
       \/ \E foreground \in BOOLEAN :
            /\ api.meta.finalizer \/ foreground
            /\ Bump
            /\ StoreByOther([api EXCEPT
                               !.meta = MarkedDeleted(@, NextGen, foreground)])
    /\ UNCHANGED cleaned

(* The object with other metadata; none if the API server has dropped it. *)
WithMeta(obj, meta) ==
    IF Exists(meta) THEN [obj EXCEPT !.meta = meta] ELSE NoSecret

GarbageCollect ==
    /\ api.meta.held
    /\ StoreByOther(WithMeta(api, Released(api.meta)))
    /\ UNCHANGED <<lastGen, cleaned>>

-----------------------------------------------------------------------------
(* Events.                                                                 *)

(* needsCreation and the periodic predicate, both of which must pass.  The *)
(* first compares the RefreshPeriod pointers of two deep copies, which     *)
(* differ unless both are nil.  A changed secretFormat is not in the model *)
(* and is left to chance.                                                  *)
UpdatePasses(old, new, formatChanged) ==
    /\ old.meta.gen # new.meta.gen
    /\ new.meta.deleting \/ old.refresh # 0 \/ new.refresh # 0 \/ formatChanged

Watch ==
    /\ ~cacheCurrent
    /\ LET created == ~Exists(cache.meta)
           replaced == ~created /\ cache.meta.uid # api.meta.uid
       IN  /\ cache' = IF replaced THEN NoSecret ELSE api
           /\ cacheCurrent' = (replaced => ~Exists(api.meta))
           /\ \E formatChanged \in BOOLEAN :
                queued' = (\/ queued \/ replaced
                           \/ created /\ Exists(api.meta)
                           \/ /\ ~created
                              /\ UpdatePasses(cache, api, formatChanged))
    /\ UNCHANGED <<kube, timer, worker, kv, faults, crashes>>

(* The resync of an unchanged object passes both predicates when there is  *)
(* a refresh period, drift detection is on and the sync period is over.    *)
Resync ==
    /\ DriftDetection
    /\ Succeeded(cache.meta) /\ (cache.meta.deleting \/ cache.refresh # 0)
    /\ queued' = TRUE
    /\ UNCHANGED <<kube, informer, timer, worker, kv, faults, crashes>>

-----------------------------------------------------------------------------
(* The reconcile cycle.                                                    *)
Goto(next) ==
    /\ pc' = next
    /\ UNCHANGED <<inst, instCurrent, issue, requeueAfter, twice, work>>

Fail ==
    /\ pc' = "status" /\ issue' = TRUE /\ requeueAfter' = 0 /\ twice' = FALSE
    /\ UNCHANGED <<inst, instCurrent, work>>

Fault == faults < MaxFaults /\ faults' = faults + 1

NoFault == faults' = faults

(* AddAfter keeps the earlier of two times for the same object. *)
Earlier(t, u) == IF t = 0 \/ (u # 0 /\ u < t) THEN u ELSE t

(* Broken: the error is logged and not returned, so nothing is retried. *)
DoneNoRetry(err) ==
    /\ pc' = "idle" /\ inst' = NoSecret /\ instCurrent' = FALSE
    /\ issue' = FALSE /\ requeueAfter' = 0 /\ twice' = FALSE
    /\ queued' = queued
    /\ timer' = Earlier(timer, requeueAfter)

(* End of a reconcile cycle. *)
Done(err) ==
    /\ pc' = "idle" /\ inst' = NoSecret /\ instCurrent' = FALSE
    /\ issue' = FALSE /\ requeueAfter' = 0 /\ twice' = FALSE
    /\ queued' = (queued \/ err)
    /\ timer' = IF err THEN timer ELSE Earlier(timer, requeueAfter)

Take ==
    /\ pc = "idle" /\ queued
    /\ queued' = FALSE
    /\ IF Exists(cache.meta)
       THEN /\ inst' = cache /\ instCurrent' = cacheCurrent /\ pc' = "login"
            /\ UNCHANGED <<issue, requeueAfter, twice>>
       ELSE UNCHANGED worker
    /\ UNCHANGED <<kube, informer, timer, kv, faults, crashes>>

(* Broken: initialised once is taken for up to date. *)
UpToDateOnce(obj) == obj.since # Never

(* Initialised once, and no refresh period or not yet time to refresh. *)
UpToDate(obj) ==
    obj.since # Never /\ (obj.refresh = 0 \/ obj.since < obj.refresh)

OneOff(obj) == obj.since = Never /\ obj.refresh = 0

(* Broken: an up to date secret is left alone before the deletion          *)
(* timestamp is looked at.                                                 *)
BeginUpToDateFirst ==
    IF UpToDate(inst) THEN Done(FALSE)
    ELSE IF inst.meta.deleting
    THEN Goto(IF inst.policy = "Retain" THEN "removeFinalizer" ELSE "delete")
    ELSE Goto(IF OneOff(inst) THEN "exists" ELSE "generate")

(* What Reconcile decides before its next call.  An up to date secret ends *)
(* the cycle with an empty Result: no timer is set.                        *)
Begin ==
    IF inst.meta.deleting
    THEN IF ~inst.meta.finalizer THEN Done(FALSE)
         ELSE Goto(IF inst.policy = "Retain" THEN "removeFinalizer" ELSE "delete")
    ELSE IF UpToDate(inst) THEN Done(FALSE)
    ELSE Goto(IF OneOff(inst) THEN "exists" ELSE "generate")

(* prepareContext: the login to Vault. *)
Login ==
    /\ pc = "login"
    /\ (NoFault /\ Begin) \/ (Fault /\ Fail)
    /\ UNCHANGED <<kube, informer, kv, crashes>>

(* Only for a one-off secret: leave a secret that is there already.  An    *)
(* error of the read is logged and taken for `not found'.                  *)
CheckExists ==
    /\ pc = "exists"
    /\ \/ NoFault /\ Goto(IF vault = "nobody" THEN "generate" ELSE "status")
       \/ Fault /\ Goto("generate")
    /\ UNCHANGED <<kube, informer, kv, crashes>>

(* PrepareInternalValues: draw a password, or ask Vault for one. *)
Generate ==
    /\ pc = "generate"
    /\ (NoFault /\ Goto("write")) \/ (Fault /\ Fail)
    /\ UNCHANGED <<kube, informer, kv, crashes>>

(* Broken: lastVaultSecretUpdate is set before the write. *)
WriteStampedFirst ==
    /\ pc = "write"
    /\ inst' = [inst EXCEPT !.since = 0] /\ pc' = "status"
    /\ \/ /\ vault' = "operator" /\ vaultAge' = 0 /\ NoFault
          /\ requeueAfter' = inst.refresh /\ twice' = (inst.refresh > 0)
          /\ UNCHANGED issue
       \/ /\ Fault /\ issue' = TRUE
          /\ UNCHANGED <<vault, vaultAge, requeueAfter, twice>>
    /\ UNCHANGED <<kube, informer, crashes, instCurrent, work>>

(* Broken: the wait is rounded up to the next tick. *)
RescheduleLate ==
    requeueAfter' = inst.refresh + 1 /\ twice' = (inst.refresh > 0)

(* With a refresh period ManageOutcomeWithRequeue is called twice, and the *)
(* first result is dropped; unless the period, counted from a time cut to  *)
(* the second, is over by then: one call, and a second to wait.            *)
Reschedule ==
    \/ requeueAfter' = inst.refresh /\ twice' = (inst.refresh > 0)
    \/ inst.refresh > 0 /\ requeueAfter' = 1 /\ twice' = FALSE

(* Create writes unconditionally.  Success sets lastVaultSecretUpdate in   *)
(* the worker's copy.                                                      *)
Write ==
    /\ pc = "write"
    /\ \/ /\ vault' = "operator" /\ vaultAge' = 0
          /\ \/ /\ NoFault
                /\ inst' = [inst EXCEPT !.since = 0]
                /\ pc' = "status" /\ Reschedule
                /\ UNCHANGED <<instCurrent, issue, work>>
             \/ Fault /\ Fail
       \/ Fault /\ Fail /\ UNCHANGED <<vault, vaultAge>>
    /\ UNCHANGED <<kube, informer, crashes>>

(* Broken: an error of the Vault call does not stop the cleanup. *)
DeleteIgnoringErrors ==
    /\ pc = "delete"
    /\ \/ vault' = "nobody" /\ vaultAge' = 0 /\ NoFault
       \/ Fault /\ UNCHANGED <<vault, vaultAge>>
    /\ Goto("removeFinalizer")
    /\ UNCHANGED <<kube, informer, crashes>>

(* DeleteIfExists or DeleteKVv2IfExists: nothing to delete is no error. *)
Delete ==
    /\ pc = "delete"
    /\ \/ /\ vault' = "nobody" /\ vaultAge' = 0
          /\ (NoFault /\ Goto("removeFinalizer")) \/ (Fault /\ Fail)
       \/ Fault /\ Fail /\ UNCHANGED <<vault, vaultAge>>
    /\ UNCHANGED <<kube, informer, crashes>>

-----------------------------------------------------------------------------
StoreByWorker(obj) ==
    /\ instCurrent
    /\ api' = obj /\ cacheCurrent' = FALSE
    /\ UNCHANGED <<cache, lastGen>>

Rejected ==
    /\ (~instCurrent /\ NoFault) \/ Fault
    /\ UNCHANGED <<api, lastGen, informer>>

(* A ManageOutcome is over: the second one follows, or the cycle ends. *)
OutcomeOver(err, copy, current) ==
    IF twice
    THEN /\ twice' = FALSE /\ pc' = "status"
         /\ inst' = copy /\ instCurrent' = current
         /\ UNCHANGED <<issue, requeueAfter, work>>
    ELSE Done(err \/ issue)

(* A status update stores no metadata.  After a failed AddFinalizer the    *)
(* worker's copy has a finalizer that the stored object has not; whether   *)
(* the reply, decoded into the copy, takes it out again is left open.      *)
StatusOf(obj) == [obj EXCEPT !.meta.finalizer = api.meta.finalizer]

Status ==
    /\ pc = "status"
    /\ LET obj == [inst EXCEPT
                     !.meta = AddOrReplaceCondition(@, OutcomeCondition(issue))]
           stored == StatusOf(obj)
       IN
       \/ /\ StoreByWorker(stored) /\ NoFault
          /\ \E copy \in {obj, stored} :
               IF ~issue /\ ~copy.meta.finalizer
               THEN /\ inst' = copy /\ pc' = "addFinalizer"
                    /\ UNCHANGED <<instCurrent, issue, requeueAfter, twice, work>>
               ELSE OutcomeOver(FALSE, copy, TRUE)
       \/ StoreByWorker(stored) /\ Fault /\ OutcomeOver(TRUE, obj, FALSE)
       \/ Rejected /\ OutcomeOver(TRUE, obj, instCurrent)
    /\ UNCHANGED <<cleaned, kv, crashes>>

(* After a failed update the worker's copy has the finalizer although the  *)
(* stored object has not, unless a reply has replaced it.                  *)
AddFinalizer ==
    /\ pc = "addFinalizer"
    /\ LET obj == [inst EXCEPT !.meta = WithFinalizer(@)] IN
       \/ StoreByWorker(obj) /\ NoFault /\ OutcomeOver(FALSE, obj, TRUE)
       \/ StoreByWorker(obj) /\ Fault /\ OutcomeOver(TRUE, obj, FALSE)
       \/ /\ Rejected
          /\ \E copy \in {inst, obj} : OutcomeOver(TRUE, copy, instCurrent)
    /\ UNCHANGED <<cleaned, kv, crashes>>

RemoveFinalizer ==
    /\ pc = "removeFinalizer"
    /\ \/ /\ StoreByWorker(WithMeta(inst, WithoutFinalizer(inst.meta)))
          /\ cleaned' = (inst.policy = "Delete")
          /\ \/ NoFault /\ Done(FALSE)
             \/ /\ Fault /\ pc' = "status" /\ issue' = TRUE
                /\ instCurrent' = FALSE
                /\ UNCHANGED <<inst, requeueAfter, twice, work>>
       \/ Rejected /\ Fail /\ UNCHANGED cleaned
    /\ UNCHANGED <<kv, crashes>>

(* The process restarts: the queue with its timers is empty, every object  *)
(* comes back as a Create event.                                           *)
Crash ==
    /\ crashes < MaxCrashes /\ crashes' = crashes + 1
    /\ queued' = FALSE /\ timer' = 0
    /\ cache' = NoSecret /\ cacheCurrent' = ~Exists(api.meta)
    /\ pc' = "idle" /\ inst' = NoSecret /\ instCurrent' = FALSE
    /\ issue' = FALSE /\ requeueAfter' = 0 /\ twice' = FALSE
    /\ UNCHANGED <<kube, kv, faults>>

Step ==
    \/ Take \/ Login \/ CheckExists \/ Generate \/ Write \/ Delete
    \/ Status \/ AddFinalizer \/ RemoveFinalizer

Next ==
    \/ UserCreate \/ UserEdit \/ UserDelete \/ GarbageCollect
    \/ Tick \/ Watch \/ Resync
    \/ Step
    \/ Crash

Spec == Init /\ [][Next]_vars

FairSpec ==
    Spec /\ WF_vars(GarbageCollect) /\ WF_vars(Tick) /\ WF_vars(Watch) /\ WF_vars(Resync) /\ WF_vars(Step)

-----------------------------------------------------------------------------
(* Safety.                                                                 *)

Live(obj) == Exists(obj.meta) /\ ~obj.meta.deleting

(* Consumers read lastVaultSecretUpdate to tell which password is in force *)
(* (DatabaseSecretEngineConfig re-reads on a change of it): while the      *)
(* resource is there, the recorded time stands for a password that the     *)
(* operator wrote, and is never later than the last one written.           *)
StatusNotAhead ==
    Live(api) /\ api.since # Never
      => vault = "operator" /\ vaultAge <= api.since

(* A finalizer removed under the Delete policy means that the password is  *)
(* gone and that no retry or stale copy writes it again.                   *)
NothingLeft == cleaned => vault # "operator"

-----------------------------------------------------------------------------
(* Liveness.                                                               *)

(* A resource that is there to stay gets its secret and its Success        *)
(* condition.  (Not its finalizer: a restart between the status update and *)
(* the finalizer's leaves an up to date resource, which is not looked at   *)
(* again, without it.)                                                     *)
EventuallyProvisioned ==
    <>[](Live(api) => vault # "nobody" /\ Succeeded(api.meta))

(* api/v1alpha1/randomsecret_types.go:64: `RefreshPeriod if specified, the *)
(* operator will refresh the secret with the given frequency'.  Either the *)
(* resource does not ask for it again and again, or it gets a new password *)
(* again and again.                                                        *)
KeepsRefreshing == []<>(Live(api) /\ api.refresh > 0 => vaultAge = 0)

(* A deletion is completed. *)
DeletionCompletes == api.meta.deleting ~> ~api.meta.deleting
=============================================================================
