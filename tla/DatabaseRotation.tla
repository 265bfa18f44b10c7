-------------------------- MODULE DatabaseRotation --------------------------
(***************************************************************************)
(* A DatabaseSecretEngineConfig: the cycle of VaultResource, whose payload *)
(* holds the root password of the referenced Secret until the operator has *)
(* had Vault rotate it; after the cycle it is rotated when it is due, and  *)
(* the time is recorded in the status.  Conditions and finalizer are those *)
(* of every kind.  A cycle starts from the informer's copy, which may lack *)
(* the worker's own last update: the rotation recorded a moment ago.       *)
(*                                                                         *)
(* Of a password only this matters: is it the one the database has now?    *)
(* Every edit changes something that is sent.  Time is counted in ticks,   *)
(* by age.                                                                 *)
(***************************************************************************)
EXTENDS KubeObject

CONSTANTS Settings,    \* what the rest of a resource's spec may have: see Setting
          Rotations,   \* values of spec.rootPasswordRotation
          MaxGen,      \* bound: user requests
          MaxFaults,   \* bound: failed calls and restarts
          MaxAge       \* bound: ages from this one on are not told apart

(* verify: does Vault try the connection that is written?  specific: is    *)
(* there a databaseSpecificConfig?  named: is the username in the spec, or *)
(* does it come with the password?  watched: is the credentials' Secret of *)
(* another type than basic-auth?  The predicate drops those.               *)
Setting == [verify : BOOLEAN, specific : BOOLEAN, named : BOOLEAN, watched : BOOLEAN]

ASSUME DatabaseConstants ==
    /\ Settings \subseteq Setting
    /\ {MaxGen, MaxFaults, MaxAge} \subseteq Nat
    /\ Rotations \subseteq [enable : BOOLEAN, period : 0..MaxAge]

VARIABLES
    conf,       \* Vault's configuration: the generation it is of, 0 if there
                \* is none, and is its password the database's?
    since,      \* age of the last rotation in Vault
    secret,     \* is the Secret's password the database's?
    db,         \* the resource's setting
    api,        \* the resource in the API server
    lastGen,    \* newest generation given out
    cache,      \* the informer's copy of it
    cacheCurrent, \* is it the stored version?
    queued,     \* is it in the controller's queue?
    timer,      \* ticks until it is put there, 0: not scheduled
    pc,         \* the next call of the worker
    inst,       \* the worker's copy
    current,    \* is it the stored version?
    password,   \* what setInternalCredentials retrieved
    issue,      \* ManageOutcome's issue
    faults

vault == <<conf, since>>
kube == <<api, lastGen>>
informer == <<cache, cacheCurrent>>
worker == <<pc, inst, current, password, issue>>
vars == <<vault, secret, db, kube, informer, queued, timer, worker, faults>>

Never == MaxAge + 1

NoRotation == [enable |-> FALSE, period |-> 0]

NoConfig == [meta |-> Absent, rotation |-> NoRotation, last |-> Never]

Init ==
    /\ conf = [gen |-> 0, good |-> FALSE] /\ since = Never
    /\ secret = TRUE /\ db \in Settings
    /\ api = NoConfig /\ inst = NoConfig /\ cache = NoConfig /\ cacheCurrent = TRUE
    /\ lastGen = 0 /\ queued = FALSE /\ timer = 0
    /\ pc = "idle" /\ current = FALSE /\ password = "none" /\ issue = FALSE
    /\ faults = 0

Fault == faults < MaxFaults /\ faults' = faults + 1

NoFault == faults' = faults

-----------------------------------------------------------------------------
(* Users and time.                                                         *)
Bump == lastGen < MaxGen /\ lastGen' = lastGen + 1

Request(obj) ==
    /\ Bump /\ api' = obj /\ cacheCurrent' = FALSE /\ current' = FALSE
    /\ UNCHANGED <<vault, secret, db, cache, queued, timer, pc, inst, password,
                   issue, faults>>

Create ==
    /\ ~Exists(api.meta)
    /\ \E r \in Rotations :
         Request([meta |-> Created(lastGen + 1), rotation |-> r, last |-> Never])

Edit ==
    /\ Exists(api.meta)
    /\ \E r \in Rotations :
         Request([meta |-> Edited(api.meta, lastGen + 1), rotation |-> r,
                  last |-> api.last])

Delete ==
    /\ Exists(api.meta) /\ ~api.meta.deleting
    /\ Request(IF api.meta.finalizer
               THEN [api EXCEPT !.meta = MarkedDeleted(@, lastGen + 1, FALSE)]
               ELSE NoConfig)

(* The password is changed in the database and in the Secret, and the      *)
(* watch looks the resource up in the cache.                               *)
ChangePassword ==
    /\ Bump
    /\ secret' = TRUE /\ conf' = [conf EXCEPT !.good = FALSE]
    /\ password' = IF password = "none" THEN password ELSE "stale"
    /\ queued' = (queued \/ (db.watched /\ Exists(cache.meta)))
    /\ UNCHANGED <<since, db, api, informer, timer, pc, inst, current, issue, faults>>

(* The informer catches up with the stored version.  The predicate lets    *)
(* through what changes the generation: updates of the status are not.     *)
Watch ==
    /\ ~cacheCurrent /\ cacheCurrent' = TRUE /\ cache' = api
    /\ queued' = (queued \/ cache.meta.gen # api.meta.gen)
    /\ UNCHANGED <<vault, secret, db, kube, timer, worker, faults>>

Older(age) == IF age < MaxAge THEN age + 1 ELSE age

(* Cycles are short: a tick passes between them. *)
Tick ==
    /\ pc = "idle"
    /\ since' = Older(since)
    /\ api' = [api EXCEPT !.last = Older(@)]
    /\ cache' = [cache EXCEPT !.last = Older(@)]
    /\ timer' = IF timer = 0 THEN 0 ELSE timer - 1
    /\ queued' = (queued \/ timer = 1)
    /\ UNCHANGED <<conf, secret, db, lastGen, cacheCurrent, worker, faults>>

-----------------------------------------------------------------------------
(* The worker.                                                             *)
Goto(next) == pc' = next /\ UNCHANGED <<inst, current, password, issue, queued, timer>>

Fail ==
    /\ pc' = "status" /\ issue' = TRUE
    /\ UNCHANGED <<inst, current, password, queued, timer>>

Idle ==
    /\ pc' = "idle" /\ inst' = NoConfig /\ current' = FALSE
    /\ password' = "none" /\ issue' = FALSE

Retry == Idle /\ queued' = TRUE /\ UNCHANGED timer

(* RequeueAfter; an earlier appointment stands. *)
Done(after) ==
    /\ Idle /\ UNCHANGED queued
    /\ timer' = IF after = 0 \/ (timer # 0 /\ timer <= after) THEN timer ELSE after

Take ==
    /\ pc = "idle" /\ queued /\ queued' = FALSE
    /\ IF ~Exists(cache.meta) THEN UNCHANGED worker
       ELSE /\ inst' = cache /\ current' = cacheCurrent /\ UNCHANGED <<password, issue>>
            /\ pc' = IF ~cache.meta.deleting THEN "prepare"
                     ELSE IF cache.meta.finalizer THEN "cleanup" ELSE "rotation"
    /\ UNCHANGED <<vault, secret, db, kube, informer, timer, faults>>

(* setInternalCredentials: nothing is retrieved once Vault has rotated. *)
Prepare ==
    /\ pc = "prepare"
    /\ \/ /\ NoFault /\ pc' = "write"
          /\ password' = IF inst.last # Never THEN "none"
                         ELSE IF secret THEN "good" ELSE "stale"
          /\ UNCHANGED <<inst, current, issue, queued, timer>>
       \/ Fault /\ Fail
    /\ UNCHANGED <<vault, secret, db, kube, informer>>

(* Broken: the password is compared with what Vault returns, which is none.*)
PasswordCompared ==
    ~db.specific /\ conf.gen = inst.meta.gen /\ password = "none"

(* IsEquivalentToDesiredState.  The password is left out.  The keys of a   *)
(* databaseSpecificConfig are not where Vault returns them, and a username *)
(* from the source is only there when it was retrieved.                    *)
Equivalent ==
    /\ conf.gen = inst.meta.gen
    /\ ~db.specific /\ (db.named \/ password # "none")

(* CreateOrUpdate.  A payload without the password leaves Vault's as it is.*)
Write ==
    /\ pc = "write"
    /\ LET good == IF password = "none" THEN conf.good ELSE password = "good"
           accepted == ~db.verify \/ good
       IN  \/ Equivalent /\ NoFault /\ Goto("status") /\ UNCHANGED conf
           \/ /\ ~Equivalent /\ accepted
              /\ conf' = [gen |-> inst.meta.gen, good |-> good]
              /\ (NoFault /\ Goto("status")) \/ (Fault /\ Fail)
           \/ /\ Fault \/ (~Equivalent /\ ~accepted /\ NoFault)
              /\ Fail /\ UNCHANGED conf
    /\ UNCHANGED <<since, secret, db, kube, informer>>

Store(obj) == current /\ api' = obj /\ cacheCurrent' = FALSE

Rejected == ((~current /\ NoFault) \/ Fault) /\ UNCHANGED <<api, cacheCurrent>>

(* ManageOutcome, of the cycle or of the rotation. *)
Status ==
    /\ pc = "status"
    /\ LET obj == [inst EXCEPT
                     !.meta = AddOrReplaceCondition(@, OutcomeCondition(issue))]
       IN  \/ /\ Store(obj) /\ NoFault
              /\ IF issue THEN Retry
                 ELSE /\ pc' = IF inst.meta.finalizer THEN "rotation"
                               ELSE "addFinalizer"
                      /\ inst' = obj
                      /\ UNCHANGED <<current, password, issue, queued, timer>>
           \/ Store(obj) /\ Fault /\ Retry
           \/ Rejected /\ Retry
    /\ UNCHANGED <<vault, secret, db, lastGen, cache>>

AddFinalizer ==
    /\ pc = "addFinalizer"
    /\ LET obj == [inst EXCEPT !.meta = WithFinalizer(@)] IN
       \/ /\ Store(obj) /\ NoFault
          /\ pc' = "rotation" /\ inst' = obj
          /\ UNCHANGED <<current, password, issue, queued, timer>>
       \/ Store(obj) /\ Fault /\ Retry
       \/ Rejected /\ Retry
    /\ UNCHANGED <<vault, secret, db, lastGen, cache>>

Cleanup ==
    /\ pc = "cleanup"
    /\ \/ /\ conf' = IF Succeeded(inst.meta) THEN [gen |-> 0, good |-> FALSE] ELSE conf
          /\ (NoFault /\ Goto("removeFinalizer")) \/ (Fault /\ Fail)
       \/ Fault /\ Fail /\ UNCHANGED conf
    /\ UNCHANGED <<since, secret, db, kube, informer>>

RemoveFinalizer ==
    /\ pc = "removeFinalizer"
    /\ \/ /\ Store(NoConfig) /\ current' = FALSE
          /\ \/ /\ NoFault /\ pc' = "rotation"
                /\ UNCHANGED <<inst, password, issue, queued, timer>>
             \/ /\ Fault /\ pc' = "status" /\ issue' = TRUE
                /\ UNCHANGED <<inst, password, queued, timer>>
       \/ Rejected /\ Fail
    /\ UNCHANGED <<vault, secret, db, lastGen, cache>>

(* More than 95% of the period has passed. *)
PeriodOver(obj) == 100 * obj.last > 95 * obj.rotation.period

(* Broken: the time passed is added. *)
RemainderLonger(obj) == obj.rotation.period + obj.last

Remainder(obj) == obj.rotation.period - obj.last

RotationDue(obj) ==
    obj.rotation.enable /\ (obj.last = Never \/ (obj.rotation.period # 0 /\ PeriodOver(obj)))

(* Broken: the rotation is recorded before Vault is asked for it. *)
RotateRecorded ==
    /\ pc = "rotation" /\ NoFault /\ inst' = [inst EXCEPT !.last = 0]
    /\ pc' = "record"
    /\ UNCHANGED <<vault, secret, current, password, issue, queued, timer, db, kube, informer>>

(* The rest of Reconcile, whatever became of the resource: also after its  *)
(* cleanup.  Vault rotates with the password that it has.                  *)
Rotate ==
    /\ pc = "rotation"
    /\ \/ /\ ~RotationDue(inst) /\ NoFault
          /\ Done(IF inst.rotation.enable /\ inst.rotation.period # 0
                  THEN Remainder(inst) ELSE 0)
          /\ UNCHANGED <<vault, secret>>
       \/ /\ RotationDue(inst) /\ conf.gen # 0 /\ conf.good
          /\ secret' = FALSE /\ since' = 0 /\ UNCHANGED conf
          /\ \/ /\ NoFault /\ pc' = "record"
                /\ inst' = [inst EXCEPT !.last = 0]
                /\ UNCHANGED <<current, password, issue, queued, timer>>
             \/ Fault /\ Fail
       \/ /\ RotationDue(inst) /\ Fail /\ UNCHANGED <<vault, secret>>
          /\ Fault \/ (~(conf.gen # 0 /\ conf.good) /\ NoFault)
    /\ UNCHANGED <<db, kube, informer>>

(* Broken: the next rotation is not scheduled. *)
RecordOnly ==
    /\ pc = "record"
    /\ (Store(inst) /\ NoFault /\ Done(0)) \/ (Rejected /\ Fail)
    /\ UNCHANGED <<vault, secret, db, lastGen, cache>>

(* What is not recorded here ManageOutcome records, if the copy is current.*)
Record ==
    /\ pc = "record"
    /\ \/ Store(inst) /\ NoFault /\ Done(inst.rotation.period)
       \/ /\ Store(inst) /\ Fault /\ pc' = "status" /\ issue' = TRUE
          /\ current' = FALSE /\ UNCHANGED <<inst, password, queued, timer>>
       \/ Rejected /\ Fail
    /\ UNCHANGED <<vault, secret, db, lastGen, cache>>

Crash ==
    /\ Fault
    /\ Idle /\ queued' = Exists(api.meta) /\ timer' = 0
    /\ cache' = api /\ cacheCurrent' = TRUE
    /\ UNCHANGED <<vault, secret, db, kube>>

Step ==
    \/ Take \/ Prepare \/ Write \/ Status \/ AddFinalizer
    \/ Cleanup \/ RemoveFinalizer \/ Rotate \/ Record

Next == Create \/ Edit \/ Delete \/ ChangePassword \/ Watch \/ Tick \/ Step \/ Crash

Spec == Init /\ [][Next]_vars

FairSpec == Spec /\ WF_vars(Watch) /\ WF_vars(Tick) /\ WF_vars(Step)

-----------------------------------------------------------------------------
Live == Exists(api.meta) /\ ~api.meta.deleting

Periodic == Live /\ api.rotation.enable /\ api.rotation.period # 0

(* A rotation that the status records took place: the password in use is   *)
(* not older than recorded.                                                *)
RecordedIsReal == api.last # Never => since <= api.last

(* Between two cycles, once the informer has seen the last edit, the next  *)
(* rotation of a periodic resource is ahead, and not later than a period   *)
(* after the recorded one, whatever events, failures and restarts there    *)
(* were.                                                                   *)
NextRotationDue ==
    Periodic /\ cache.meta.gen = api.meta.gen /\ pc = "idle" /\ ~queued
      => /\ api.last # Never
         /\ timer # 0 /\ timer <= api.rotation.period - api.last

(* While the status records a rotation the operator never replaces the     *)
(* password that only Vault knows by the one in the Secret, although a     *)
(* cycle whose copy lacks the record retrieves that one: only what         *)
(* IsEquivalentToDesiredState says keeps it from Vault.  With a            *)
(* databaseSpecificConfig it says nothing, and the connection is lost.     *)
ConnectionKept ==
    [][~db.specific /\ api.last # Never /\ conf.gen # 0 /\ conf.good
       /\ lastGen' = lastGen
         => conf'.gen = 0 \/ conf'.good]_vars

(* A periodic resource that Vault can connect with is rotated over and     *)
(* over, unless it has a databaseSpecificConfig: after a rotation that was *)
(* not recorded every cycle then writes the old password, which            *)
(* verify_connection refuses.                                              *)
KeepsRotating ==
    <>[](~db.specific /\ Periodic /\ conf.gen = api.meta.gen /\ conf.good)
      => []<>(since = 0)

-----------------------------------------------------------------------------
(* "If the secret is updated this connection will also be updated": the    *)
(* new password reaches Vault, where nothing rotates it and the controller *)
(* hears of the change.                                                    *)
SecretFollowed ==
    <>[](db.watched /\ Live /\ ~api.rotation.enable /\ secret)
      => <>[](conf.gen = api.meta.gen /\ conf.good)
=============================================================================
