----------------------------- MODULE EngineMount -----------------------------
(***************************************************************************)
(* A SecretEngineMount or AuthEngineMount and the mount of its path: it is *)
(* enabled if it is not in Vault's list of mounts, else its tune           *)
(* configuration is compared and written; then its accessor is read back   *)
(* into the status.  Deletion, conditions, finalizer and stale copies are  *)
(* those of every kind (VaultResource); here the worker reads the stored   *)
(* version, and a conflict comes from a request during the cycle.          *)
(*                                                                         *)
(* A mount is known by its accessor, a number that is never used again.    *)
(***************************************************************************)
EXTENDS KubeObject, FiniteSets

CONSTANTS MaxGen,      \* bound: user requests
          MaxFaults    \* bound: failed calls, restarts, and mounts enabled
                       \* or disabled by others

ASSUME EngineMountConstants == {MaxGen, MaxFaults} \subseteq Nat

VARIABLES
    mount,         \* accessor of the mount at the path, 0: nothing there
    tuned,         \* generation that its configuration is of, 0: others'
    lastMount,     \* accessors given out so far
    mApi,          \* the mount's resource in the API server
    lastGen,       \* newest generation given out, to whatever resource
    mQueued,       \* is it in its controller's queue?
    mPc,           \* the next call of its controller's worker
    mInst,         \* the worker's copy
    mCurrent,      \* is it the stored version?
    mIssue,        \* ManageOutcome's issue
    mCleaned,      \* history: the last one was cleaned up
    drifts,        \* history: those by others
    faults

engine == <<mount, tuned, lastMount>>
mKube == <<mApi, lastGen, mQueued, mCleaned>>
mWorker == <<mPc, mInst, mCurrent, mIssue>>
mVars == <<engine, mKube, mWorker, drifts, faults>>

NoMount == [meta |-> Absent, accessor |-> 0]

MInit ==
    /\ mount \in 0..1 /\ lastMount = mount /\ tuned = 0
    /\ mApi = NoMount /\ lastGen = 0 /\ mQueued = FALSE /\ mCleaned = FALSE
    /\ mPc = "idle" /\ mInst = NoMount /\ mCurrent = FALSE /\ mIssue = FALSE
    /\ drifts = 0 /\ faults = 0

Fault == faults < MaxFaults /\ faults' = faults + 1

NoFault == faults' = faults

-----------------------------------------------------------------------------
(* Vault, as the operator and others use it. *)
EnableAs(gen) ==
    /\ mount = 0
    /\ mount' = lastMount + 1 /\ lastMount' = lastMount + 1 /\ tuned' = gen

DisableMount == mount' = 0 /\ tuned' = 0 /\ UNCHANGED lastMount

Drift ==
    /\ Fault /\ drifts' = drifts + 1
    /\ EnableAs(0) \/ (mount # 0 /\ DisableMount)
    /\ UNCHANGED <<mKube, mWorker>>

-----------------------------------------------------------------------------
(* Users.  Every new generation is an event that passes.                   *)
Bump == lastGen < MaxGen /\ lastGen' = lastGen + 1

MRequest(meta) ==
    /\ Bump
    /\ mApi' = [mApi EXCEPT !.meta = meta] /\ mQueued' = TRUE
    /\ mCurrent' = FALSE
    /\ UNCHANGED <<engine, mPc, mInst, mIssue, drifts, faults>>

MCreate ==
    /\ ~Exists(mApi.meta) /\ MRequest(Created(lastGen + 1))
    /\ mCleaned' = FALSE

(* The webhook allows a change of the configuration only. *)
MEdit ==
    /\ Exists(mApi.meta) /\ MRequest(Edited(mApi.meta, lastGen + 1))
    /\ UNCHANGED mCleaned

MDelete ==
    /\ Exists(mApi.meta) /\ ~mApi.meta.deleting
    /\ \/ /\ mApi.meta.finalizer
          /\ MRequest(MarkedDeleted(mApi.meta, lastGen + 1, FALSE))
       \/ /\ ~mApi.meta.finalizer
          /\ mApi' = NoMount /\ mQueued' = TRUE /\ mCurrent' = FALSE
          /\ UNCHANGED <<engine, lastGen, mPc, mInst, mIssue, drifts, faults>>
    /\ UNCHANGED mCleaned

-----------------------------------------------------------------------------
(* The reconcile cycle.                                                    *)
MGoto(next) == mPc' = next /\ UNCHANGED <<mInst, mCurrent, mIssue, mQueued>>

MFail ==
    mPc' = "status" /\ mIssue' = TRUE /\ UNCHANGED <<mInst, mCurrent, mQueued>>

MDone(err) ==
    /\ mPc' = "idle" /\ mInst' = NoMount /\ mCurrent' = FALSE
    /\ mIssue' = FALSE /\ mQueued' = (mQueued \/ err)

MTake ==
    /\ mPc = "idle" /\ mQueued /\ mQueued' = FALSE
    /\ IF ~Exists(mApi.meta) \/ (mApi.meta.deleting /\ ~mApi.meta.finalizer)
       THEN UNCHANGED mWorker
       ELSE /\ mInst' = mApi /\ mCurrent' = TRUE /\ UNCHANGED mIssue
            /\ mPc' = IF mApi.meta.deleting THEN "disable" ELSE "lookup"
    /\ UNCHANGED <<engine, mApi, lastGen, mCleaned, drifts, faults>>

(* Exists: the list of the mounts. *)
Lookup ==
    /\ mPc = "lookup"
    /\ \/ NoFault /\ MGoto(IF mount = 0 THEN "enable" ELSE "tune")
       \/ Fault /\ MFail
    /\ UNCHANGED <<engine, mApi, lastGen, mCleaned, drifts>>

(* Create: Vault refuses a path in use. *)
Enable ==
    /\ mPc = "enable"
    /\ \/ /\ EnableAs(mInst.meta.gen)
          /\ (NoFault /\ MGoto("accessor")) \/ (Fault /\ MFail)
       \/ UNCHANGED engine /\ MFail /\ (Fault \/ (mount # 0 /\ NoFault))
    /\ UNCHANGED <<mApi, lastGen, mCleaned, drifts>>

(* Broken: an existing mount is taken for one with the right configuration.*)
TuneNever == mPc = "tune" /\ NoFault /\ MGoto("accessor")
             /\ UNCHANGED <<engine, mApi, lastGen, mCleaned, drifts>>

(* CreateOrUpdateTuneConfig: what is read is compared and, if it differs,  *)
(* written; there is nothing to read when the mount has gone.              *)
Tune ==
    /\ mPc = "tune"
    /\ \/ /\ mount # 0 /\ tuned' = mInst.meta.gen
          /\ UNCHANGED <<mount, lastMount>>
          /\ (NoFault /\ MGoto("accessor")) \/ (Fault /\ MFail)
       \/ UNCHANGED engine /\ MFail /\ (Fault \/ (mount = 0 /\ NoFault))
    /\ UNCHANGED <<mApi, lastGen, mCleaned, drifts>>

(* GetAccessor: no mount is no error, the accessor is empty then. *)
Accessor ==
    /\ mPc = "accessor"
    /\ \/ /\ NoFault /\ mInst' = [mInst EXCEPT !.accessor = mount]
          /\ mPc' = "status" /\ UNCHANGED <<mCurrent, mIssue, mQueued>>
       \/ Fault /\ MFail
    /\ UNCHANGED <<engine, mApi, lastGen, mCleaned, drifts>>

MStore(obj) == mCurrent /\ mApi' = obj

MRejected == ((~mCurrent /\ NoFault) \/ Fault) /\ UNCHANGED mApi

MStatus ==
    /\ mPc = "status"
    /\ LET obj == [mInst EXCEPT
                     !.meta = AddOrReplaceCondition(@, OutcomeCondition(mIssue))]
       IN
       \/ /\ MStore(obj) /\ NoFault
          /\ IF ~mIssue /\ ~mInst.meta.finalizer
             THEN /\ mPc' = "addFinalizer" /\ mInst' = obj
                  /\ UNCHANGED <<mCurrent, mIssue, mQueued>>
             ELSE MDone(mIssue)
       \/ MStore(obj) /\ Fault /\ MDone(TRUE)
       \/ MRejected /\ MDone(TRUE)
    /\ UNCHANGED <<engine, lastGen, mCleaned, drifts>>

MAddFinalizer ==
    /\ mPc = "addFinalizer"
    /\ LET obj == [mInst EXCEPT !.meta = WithFinalizer(@)] IN
       \/ MStore(obj) /\ ((NoFault /\ MDone(FALSE)) \/ (Fault /\ MDone(TRUE)))
       \/ MRejected /\ MDone(TRUE)
    /\ UNCHANGED <<engine, lastGen, mCleaned, drifts>>

(* Broken: an error of Vault does not stop the cleanup. *)
DisableIgnoringErrors ==
    /\ mPc = "disable"
    /\ (NoFault /\ DisableMount) \/ (Fault /\ UNCHANGED engine)
    /\ MGoto("removeFinalizer")
    /\ UNCHANGED <<mApi, lastGen, mCleaned, drifts>>

(* manageCleanUpLogic: whoever enabled the mount, if there was a success. *)
Disable ==
    /\ mPc = "disable"
    /\ \/ /\ IF Succeeded(mInst.meta) THEN DisableMount ELSE UNCHANGED engine
          /\ (NoFault /\ MGoto("removeFinalizer")) \/ (Fault /\ MFail)
       \/ Fault /\ MFail /\ UNCHANGED engine
    /\ UNCHANGED <<mApi, lastGen, mCleaned, drifts>>

MRemoveFinalizer ==
    /\ mPc = "removeFinalizer"
    /\ \/ MStore(NoMount) /\ mCleaned' = TRUE
          /\ ((NoFault /\ MDone(FALSE)) \/ (Fault /\ MDone(TRUE)))
       \/ MRejected /\ MFail /\ UNCHANGED mCleaned
    /\ UNCHANGED <<engine, lastGen, drifts>>

MStep ==
    \/ MTake \/ Lookup \/ Enable \/ Tune \/ Accessor
    \/ MStatus \/ MAddFinalizer \/ Disable \/ MRemoveFinalizer

MUser == MCreate \/ MEdit \/ MDelete

(* The process restarts: the worker's cycle is lost, the resource is       *)
(* queued again.                                                           *)
MRestart ==
    /\ mPc' = "idle" /\ mInst' = NoMount /\ mCurrent' = FALSE
    /\ mIssue' = FALSE /\ mQueued' = Exists(mApi.meta)
    /\ UNCHANGED <<engine, mApi, lastGen, mCleaned, drifts>>

-----------------------------------------------------------------------------
(* The Success condition of a resource reports what Vault has, as long as  *)
(* nobody else mounts or unmounts: a mount with the accessor in the        *)
(* status, configured as the reported generation asks or newer.            *)
SuccessIsMounted ==
    drifts = 0 /\ Succeeded(mApi.meta) /\ ~mApi.meta.deleting
      => /\ mount # 0 /\ mApi.accessor = mount
         /\ mApi.meta.conds["ReconcileSuccessful"] <= tuned

(* After a cleanup there is no mount, unless others mounted it. *)
UnmountedWithResource == mCleaned /\ drifts = 0 => mount = 0
=============================================================================
