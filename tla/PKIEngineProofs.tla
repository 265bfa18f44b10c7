-------------------------- MODULE PKIEngineProofs --------------------------
(***************************************************************************)
(* Proofs about PKIEngine, for all variants and bounds: what the status of *)
(* the mount and of the PKI configuration records is true, and recorded    *)
(* progress is kept.  First the mount's part: MountInv says what Vault has *)
(* at each call of its cycle, and every step of users, of the worker and   *)
(* of Vault preserves it; EngineMount has no specification of its own.     *)
(* Then the configuration's: how the copies stand to the stored version,   *)
(* and what Vault has at each call.                                        *)
(***************************************************************************)
EXTENDS PKIEngine, TLAPS

MountResource == [meta : Object, accessor : Nat]

Ensuring == {"lookup", "enable", "tune", "accessor", "addFinalizer"}

Success(obj) == obj.meta.conds["ReconcileSuccessful"]

MTyped ==
    /\ mount \in Nat /\ tuned \in Nat /\ lastMount \in Nat
    /\ lastGen \in Nat /\ drifts \in Nat
    /\ mApi \in MountResource /\ mInst \in MountResource
    /\ mCurrent \in BOOLEAN /\ mIssue \in BOOLEAN /\ mCleaned \in BOOLEAN
    /\ mPc \in Ensuring \union {"idle", "status", "disable", "removeFinalizer"}

(* No version reports the success of a later one, and what is stored never *)
(* reports more than the generation the worker is at.                      *)
Versions ==
    /\ ~Exists(mApi.meta) => mApi.meta = Absent
    /\ Exists(mApi.meta) => mApi.meta.gen # 0
    /\ Success(mApi) <= mApi.meta.gen /\ mApi.meta.gen <= lastGen
    /\ mPc = "idle" => mInst = NoMount
    /\ mPc # "idle" => /\ mInst.meta.gen # 0
                       /\ Success(mInst) <= mInst.meta.gen
                       /\ Success(mApi) <= mInst.meta.gen
    /\ mCurrent => mPc # "idle" /\ mApi.meta = mInst.meta

(* A finalizer means a success; a resource that the worker cleans up is    *)
(* still there.                                                            *)
Cleaning ==
    /\ mApi.meta.finalizer => Success(mApi) # 0
    /\ mInst.meta.finalizer => Success(mInst) # 0
    /\ mPc = "addFinalizer" => Success(mInst) # 0
    /\ mPc \in {"disable", "removeFinalizer"}
         => mInst.meta.deleting /\ mInst.meta.finalizer
    /\ mPc \in Ensuring \/ (mPc = "status" /\ ~mIssue) => ~mInst.meta.deleting
    /\ mInst.meta.deleting => mApi.meta.deleting /\ mApi.meta.finalizer
    /\ mIssue => mPc = "status"
    /\ mCleaned => mPc = "idle" /\ ~Exists(mApi.meta)

(* The mount is as obj reports it. *)
IsUp(obj) == mount # 0 /\ obj.accessor = mount /\ Success(obj) <= tuned

ReportIsTrue(obj) == Success(obj) # 0 /\ ~obj.meta.deleting => IsUp(obj)

(* What Vault has at each call, while nobody else mounts or unmounts.      *)
Mounted ==
    drifts = 0 =>
      /\ mCleaned => mount = 0
      /\ mPc \in {"enable", "removeFinalizer"} => mount = 0
      /\ mPc = "accessor" => mount # 0 /\ mInst.meta.gen <= tuned
      /\ mPc = "status" /\ ~mIssue
           => mount # 0 /\ mInst.accessor = mount /\ mInst.meta.gen <= tuned
      /\ ReportIsTrue(mApi) /\ ReportIsTrue(mInst)

MountInv == MTyped /\ Versions /\ Cleaning /\ Mounted

-----------------------------------------------------------------------------
(* The resources.                                                          *)
LEMMA AbsentFacts ==
    /\ Absent \in Object /\ ~Exists(Absent)
    /\ Absent.gen = 0 /\ Absent.uid = 0
    /\ ~Absent.deleting /\ ~Absent.finalizer /\ ~Absent.held
  BY DEF Absent, Object, Exists, CondTypes

(* Recording the outcome of a cycle changes nothing but the conditions,    *)
(* and never loses a recorded success.                                     *)
LEMMA ConditionFacts ==
  ASSUME NEW obj \in Object, NEW fail \in BOOLEAN, obj.gen # 0
  PROVE  LET new == AddOrReplaceCondition(obj, OutcomeCondition(fail)) IN
         /\ new \in Object
         /\ new.uid = obj.uid /\ new.gen = obj.gen
         /\ new.deleting = obj.deleting /\ new.finalizer = obj.finalizer
         /\ Succeeded(obj) => Succeeded(new)
         /\ ~fail => Succeeded(new)
         /\ new.conds["ReconcileSuccessful"]
              = IF fail THEN obj.conds["ReconcileSuccessful"] ELSE obj.gen
  <1> DEFINE type == OutcomeCondition(fail)
             new == AddOrReplaceCondition(obj, type)
  <1>1. type \in CondTypes
    BY DEF OutcomeCondition, CondTypes
  <1>2. /\ new.uid = obj.uid /\ new.gen = obj.gen
        /\ new.deleting = obj.deleting /\ new.finalizer = obj.finalizer
        /\ new.held = obj.held
        /\ new.conds = [obj.conds EXCEPT ![type] = obj.gen]
        /\ new = [obj EXCEPT !.conds = new.conds]
    BY DEF AddOrReplaceCondition, Object
  <1>3. new.conds \in [CondTypes -> Nat]
    BY <1>1, <1>2 DEF Object
  <1>4. new \in Object
    BY <1>2, <1>3 DEF Object
  <1>5. Succeeded(obj) => Succeeded(new)
    BY <1>1, <1>2 DEF Succeeded, Object, CondTypes
  <1>6. ~fail => Succeeded(new)
    BY <1>1, <1>2 DEF Succeeded, Object, CondTypes, OutcomeCondition
  <1>7. new.conds["ReconcileSuccessful"]
          = IF fail THEN obj.conds["ReconcileSuccessful"] ELSE obj.gen
    BY <1>1, <1>2 DEF Object, CondTypes, OutcomeCondition
  <1>8. QED
    BY <1>2, <1>4, <1>5, <1>6, <1>7

(* What the invariant promises. *)
LEMMA MountPromises == MountInv => UnmountedWithResource /\ SuccessIsMounted
  BY DEF MountInv, Mounted, UnmountedWithResource, SuccessIsMounted, ReportIsTrue,
         IsUp, Success, Succeeded

-----------------------------------------------------------------------------
LEMMA NoMountFacts ==
  /\ NoMount \in MountResource /\ ~Exists(NoMount.meta) /\ NoMount.meta = Absent
  /\ NoMount.meta.gen = 0 /\ Success(NoMount) = 0 /\ NoMount.accessor = 0
  /\ ~NoMount.meta.deleting /\ ~NoMount.meta.finalizer
  <1>1. NoMount.meta = Absent /\ NoMount.accessor = 0
    BY DEF NoMount
  <1>2. Absent.conds["ReconcileSuccessful"] = 0
    BY DEF Absent, CondTypes
  <1>3. NoMount \in MountResource
    BY AbsentFacts DEF NoMount, MountResource
  <1>4. QED
    BY <1>1, <1>2, <1>3, AbsentFacts DEF Success

(* An update of the meta data. *)
LEMMA MetaUpdate ==
  ASSUME NEW obj \in MountResource, NEW m \in Object
  PROVE  /\ [obj EXCEPT !.meta = m] \in MountResource
         /\ [obj EXCEPT !.meta = m].meta = m
         /\ [obj EXCEPT !.meta = m].accessor = obj.accessor
         /\ Success([obj EXCEPT !.meta = m]) = m.conds["ReconcileSuccessful"]
         /\ Success(obj) \in Nat /\ obj.meta \in Object /\ obj.meta.gen \in Nat
  BY DEF MountResource, Success, Object, CondTypes

LEMMA MountInit == MInit => MountInv
  <1>1. SUFFICES ASSUME MInit PROVE MountInv
    OBVIOUS
  <1>2. /\ mApi = NoMount /\ mInst = NoMount /\ lastGen = 0
        /\ mPc = "idle" /\ mCurrent = FALSE /\ mIssue = FALSE /\ mCleaned = FALSE
    BY <1>1 DEF MInit
  <1>3. MTyped
    <2>1. mount \in Nat /\ tuned \in Nat /\ lastMount \in Nat /\ drifts \in Nat
      BY <1>1 DEF MInit
    <2>2. QED
      BY <1>2, <2>1, NoMountFacts DEF MTyped
  <1>4. Versions /\ Cleaning
    BY <1>2, NoMountFacts DEF Versions, Cleaning, Ensuring
  <1>5. Mounted
    BY <1>2, NoMountFacts DEF Mounted, ReportIsTrue
  <1>6. QED
    BY <1>3, <1>4, <1>5 DEF MountInv

(* The steps of other resources only give out generations.                 *)
LEMMA OtherResources ==
  ASSUME MountInv, UNCHANGED <<engine, mApi, mCleaned, mWorker, drifts>>,
         lastGen' \in Nat, lastGen <= lastGen'
  PROVE  MountInv'
  <1>1. UNCHANGED <<mount, tuned, lastMount, mApi, mCleaned, mPc, mInst, mCurrent,
                    mIssue, drifts>>
    BY DEF engine, mWorker
  <1>2. MTyped' /\ Cleaning' /\ Mounted'
    BY <1>1 DEF MountInv, MTyped, Cleaning, Mounted, ReportIsTrue, IsUp, Success
  <1>3. mApi.meta.gen \in Nat
    BY DEF MountInv, MTyped, MountResource, Object
  <1>4. Versions'
    BY <1>1, <1>3 DEF MountInv, MTyped, Versions, Success
  <1>5. QED
    BY <1>2, <1>4 DEF MountInv

-----------------------------------------------------------------------------
(* A version that users leave, when the newest generation is gen: it       *)
(* reports what was reported, or nothing, and is deleted if it was.        *)
Succeeds(new, gen) ==
    /\ new \in MountResource /\ gen \in Nat /\ new.meta.gen <= gen
    /\ Exists(new.meta) => new.meta.gen # 0
    /\ ~Exists(new.meta) => new.meta = Absent
    /\ Success(new) <= new.meta.gen
    /\ \/ Success(new) = 0 /\ ~new.meta.finalizer
          /\ ~(mApi.meta.deleting /\ mApi.meta.finalizer)
       \/ /\ Success(new) = Success(mApi) /\ new.accessor = mApi.accessor
          /\ new.meta.finalizer = mApi.meta.finalizer
          /\ mApi.meta.deleting => new.meta.deleting

LEMMA NewVersion ==
  ASSUME MountInv, NEW new, NEW gen, Succeeds(new, gen),
         mApi' = new, mCurrent' = FALSE, lastGen' = gen,
         UNCHANGED <<engine, mPc, mInst, mIssue, drifts>>,
         mCleaned' \in BOOLEAN, mCleaned' => mCleaned /\ ~Exists(new.meta)
  PROVE  MountInv'
  <1>1. UNCHANGED <<mount, tuned, lastMount, mPc, mInst, mIssue, drifts>>
    BY DEF engine
  <1>2. Success(mApi) \in Nat /\ Success(new) \in Nat
    BY DEF MountInv, MTyped, MountResource, Object, Success, CondTypes, Succeeds
  <1>3. MTyped'
    BY <1>1 DEF MountInv, MTyped, Succeeds
  <1>4. mInst' = mInst /\ Success(mInst') = Success(mInst) /\ Success(mApi') = Success(new)
    BY <1>1
  <1>5. Versions'
    <2>1. mPc # "idle" => Success(new) <= mInst.meta.gen
      BY <1>2 DEF MountInv, Versions, MTyped, MountResource, Object, Succeeds
    <2>2. QED
      BY <1>1, <1>4, <2>1 DEF MountInv, Versions, Success, Succeeds
  <1>6. Cleaning'
    BY <1>1, <1>4 DEF MountInv, Cleaning, Success, Succeeds
  <1>7. Mounted'
    <2>1. drifts = 0 => ReportIsTrue(mApi)'
      BY <1>1 DEF MountInv, Mounted, ReportIsTrue, IsUp, Success, Succeeds
    <2>2. drifts = 0 => ReportIsTrue(mInst)'
      BY <1>1 DEF MountInv, Mounted, ReportIsTrue, IsUp, Success
    <2>3. QED
      BY <1>1, <2>1, <2>2 DEF MountInv, Mounted
  <1>8. QED
    BY <1>3, <1>5, <1>6, <1>7 DEF MountInv

LEMMA UserStep ==
  ASSUME MountInv, MUser
  PROVE  MountInv'
  <1>1. /\ mApi \in MountResource /\ mApi.meta \in Object /\ lastGen \in Nat
        /\ mApi.meta.gen \in Nat /\ Success(mApi) \in Nat
        /\ Success(mApi) <= mApi.meta.gen /\ mApi.meta.gen <= lastGen
        /\ mCleaned \in BOOLEAN /\ lastGen + 1 \in Nat
    BY DEF MountInv, MTyped, Versions, MountResource, Object, Success, CondTypes
  <1> DEFINE new(m) == [mApi EXCEPT !.meta = m]
  <1>2. ASSUME NEW m \in Object
        PROVE  /\ new(m) \in MountResource /\ new(m).meta = m
               /\ new(m).accessor = mApi.accessor
               /\ Success(new(m)) = m.conds["ReconcileSuccessful"]
    BY <1>1, <1>2, MetaUpdate
  <1> HIDE DEF new
  <1>3. ASSUME NEW m, MRequest(m)
        PROVE  /\ lastGen' = lastGen + 1 /\ mApi' = new(m) /\ mCurrent' = FALSE
               /\ UNCHANGED <<engine, mPc, mInst, mIssue, drifts>>
    BY <1>3 DEF MRequest, Bump, new
  <1>4. CASE MCreate
    <2> DEFINE m == Created(lastGen + 1)
    <2>1. ~Exists(mApi.meta) /\ MRequest(m) /\ mCleaned' = FALSE
      BY <1>4 DEF MCreate
    <2>2. /\ m \in Object /\ Exists(m) /\ m.gen = lastGen + 1
          /\ ~m.deleting /\ ~m.finalizer
      <3>1. lastGen + 1 \in Nat /\ lastGen + 1 # 0
        BY <1>1
      <3>2. /\ m = [Absent EXCEPT !.uid = lastGen + 1, !.gen = lastGen + 1]
            /\ Absent \in Object /\ ~Absent.deleting /\ ~Absent.finalizer
        BY AbsentFacts DEF Created
      <3>3. QED
        BY <3>1, <3>2 DEF Object, Exists
    <2>3. m.conds["ReconcileSuccessful"] = 0
      BY DEF Created, Absent, CondTypes
    <2>4. ~mApi.meta.deleting
      BY <2>1, AbsentFacts DEF MountInv, Versions
    <2> HIDE DEF m
    <2>5. /\ lastGen' = lastGen + 1 /\ mApi' = new(m) /\ mCurrent' = FALSE
          /\ UNCHANGED <<engine, mPc, mInst, mIssue, drifts>>
      BY <1>3, <2>1
    <2>6. /\ new(m) \in MountResource /\ new(m).meta = m /\ Success(new(m)) = 0
      BY <1>2, <2>2, <2>3
    <2>7. Succeeds(new(m), lastGen + 1)
      BY <1>1, <2>2, <2>4, <2>6 DEF Succeeds
    <2>8. QED
      BY <2>1, <2>5, <2>7, NewVersion
  <1>5. CASE MEdit
    <2> DEFINE m == Edited(mApi.meta, lastGen + 1)
    <2>1. Exists(mApi.meta) /\ MRequest(m) /\ mCleaned' = mCleaned
      BY <1>5 DEF MEdit
    <2>2. /\ m \in Object /\ m.uid = mApi.meta.uid /\ m.gen = lastGen + 1
          /\ m.deleting = mApi.meta.deleting /\ m.finalizer = mApi.meta.finalizer
          /\ m.conds = mApi.meta.conds
      BY <1>1 DEF Edited, Object
    <2> HIDE DEF m
    <2>3. /\ lastGen' = lastGen + 1 /\ mApi' = new(m) /\ mCurrent' = FALSE
          /\ UNCHANGED <<engine, mPc, mInst, mIssue, drifts>>
      BY <1>3, <2>1
    <2>4. /\ new(m) \in MountResource /\ new(m).meta = m
          /\ Success(new(m)) = Success(mApi) /\ new(m).accessor = mApi.accessor
      BY <1>2, <2>2 DEF Success
    <2>5. Exists(m) /\ ~mCleaned
      BY <2>1, <2>2 DEF Exists, MountInv, Cleaning
    <2>6. Success(mApi) <= lastGen + 1 /\ lastGen + 1 \in Nat /\ lastGen + 1 # 0
      BY <1>1
    <2>7. Succeeds(new(m), lastGen + 1)
      BY <2>2, <2>4, <2>5, <2>6 DEF Succeeds
    <2>8. QED
      BY <1>1, <2>1, <2>3, <2>5, <2>7, NewVersion
  <1>6. CASE MDelete /\ mApi.meta.finalizer
    <2> DEFINE m == MarkedDeleted(mApi.meta, lastGen + 1, FALSE)
    <2>1. Exists(mApi.meta) /\ MRequest(m) /\ mCleaned' = mCleaned
      BY <1>6 DEF MDelete
    <2>2. /\ m \in Object /\ m.uid = mApi.meta.uid /\ m.gen = lastGen + 1
          /\ m.deleting /\ m.finalizer = mApi.meta.finalizer
          /\ m.conds = mApi.meta.conds
      BY <1>1 DEF MarkedDeleted, Object
    <2> HIDE DEF m
    <2>3. /\ lastGen' = lastGen + 1 /\ mApi' = new(m) /\ mCurrent' = FALSE
          /\ UNCHANGED <<engine, mPc, mInst, mIssue, drifts>>
      BY <1>3, <2>1
    <2>4. /\ new(m) \in MountResource /\ new(m).meta = m
          /\ Success(new(m)) = Success(mApi) /\ new(m).accessor = mApi.accessor
      BY <1>2, <2>2 DEF Success
    <2>5. Exists(m) /\ ~mCleaned
      BY <2>1, <2>2 DEF Exists, MountInv, Cleaning
    <2>6. Success(mApi) <= lastGen + 1 /\ lastGen + 1 \in Nat /\ lastGen + 1 # 0
      BY <1>1
    <2>7. Succeeds(new(m), lastGen + 1)
      BY <2>2, <2>4, <2>5, <2>6 DEF Succeeds
    <2>8. QED
      BY <1>1, <2>1, <2>3, <2>5, <2>7, NewVersion
  <1>7. CASE MDelete /\ ~mApi.meta.finalizer
    <2>1. /\ mApi' = NoMount /\ mCurrent' = FALSE /\ lastGen' = lastGen
          /\ UNCHANGED <<engine, mPc, mInst, mIssue, drifts>>
          /\ mCleaned' = mCleaned
      BY <1>7 DEF MDelete
    <2>2. Succeeds(NoMount, lastGen)
      BY <1>1, <1>7, NoMountFacts DEF Succeeds
    <2>3. QED
      BY <1>1, <2>1, <2>2, NoMountFacts, NewVersion
  <1>8. QED
    BY <1>4, <1>5, <1>6, <1>7 DEF MUser, MDelete

-----------------------------------------------------------------------------
(* The worker takes what is stored.                                        *)
LEMMA TakeStep ==
  ASSUME MountInv, MTake
  PROVE  MountInv'
  <1>1. /\ mPc = "idle" /\ mInst = NoMount
        /\ UNCHANGED <<mount, tuned, lastMount, mApi, lastGen, mCleaned, drifts>>
    BY DEF MTake, engine, MountInv, Versions
  <1>2. CASE UNCHANGED mWorker
    <2>1. UNCHANGED <<engine, mApi, mCleaned, mWorker, drifts>> /\ lastGen <= lastGen'
          /\ lastGen' \in Nat
      BY <1>1, <1>2 DEF engine, MountInv, MTyped
    <2>2. QED
      BY <2>1, OtherResources
  <1>3. CASE ~(UNCHANGED mWorker)
    <2>1. /\ mInst' = mApi /\ mCurrent' = TRUE /\ mIssue' = mIssue
          /\ Exists(mApi.meta)
          /\ \/ mPc' = "disable" /\ mApi.meta.deleting /\ mApi.meta.finalizer
             \/ mPc' = "lookup" /\ ~mApi.meta.deleting
      BY <1>3 DEF MTake
    <2>2. ~mIssue /\ ~mCleaned
      BY <1>1, <2>1 DEF MountInv, Cleaning
    <2>3. MTyped'
      BY <1>1, <2>1 DEF MountInv, MTyped, Ensuring
    <2>4. Versions'
      BY <1>1, <2>1 DEF MountInv, Versions, Success
    <2>5. Cleaning'
      BY <1>1, <2>1, <2>2 DEF MountInv, Cleaning, Success, Ensuring
    <2>6. Mounted'
      BY <1>1, <2>1, <2>2 DEF MountInv, Mounted, ReportIsTrue, IsUp, Success
    <2>7. QED
      BY <2>3, <2>4, <2>5, <2>6 DEF MountInv
  <1>4. QED
    BY <1>2, <1>3

(* A call within the cycle changes at most the mount, the accessor of the  *)
(* copy and where the worker is; this leaves Mounted to show.              *)
LEMMA WithinCycle ==
  ASSUME MountInv, mPc # "idle",
         UNCHANGED <<mApi, lastGen, mCleaned, drifts, mCurrent>>,
         mount' \in Nat, tuned' \in Nat, lastMount' \in Nat,
         mInst' \in MountResource, mInst'.meta = mInst.meta,
         mIssue' \in BOOLEAN, mIssue' => mPc' = "status",
         \/ mPc' = "status" /\ mIssue'
         \/ mPc \in Ensuring /\ mPc' \in (Ensuring \ {"addFinalizer"}) \union {"status"}
         \/ mPc = "disable" /\ mPc' = "removeFinalizer"
  PROVE  MTyped' /\ Versions' /\ Cleaning'
  <1>1. MTyped'
    BY DEF MountInv, MTyped, Ensuring
  <1>2. Versions'
    BY DEF MountInv, Versions, Success, Ensuring
  <1>3. Cleaning'
    BY DEF MountInv, Cleaning, Success, Ensuring
  <1>4. QED
    BY <1>1, <1>2, <1>3

LEMMA FailStep ==
  ASSUME MountInv, mPc # "idle", MFail, UNCHANGED <<mApi, lastGen, mCleaned, drifts>>,
         mount' \in Nat, tuned' \in Nat, lastMount' \in Nat,
         drifts = 0 => ReportIsTrue(mApi)' /\ ReportIsTrue(mInst)'
  PROVE  MountInv'
  <1>1. mPc' = "status" /\ mIssue' = TRUE /\ UNCHANGED <<mInst, mCurrent>>
    BY DEF MFail
  <1>2. mInst' \in MountResource
    BY <1>1 DEF MountInv, MTyped
  <1>3. MTyped' /\ Versions' /\ Cleaning'
    BY <1>1, <1>2, WithinCycle
  <1>4. ~mCleaned
    BY DEF MountInv, Cleaning
  <1>5. Mounted'
    BY <1>1, <1>4 DEF Mounted
  <1>6. QED
    BY <1>3, <1>5 DEF MountInv

(* A failure that leaves the mount alone. *)
LEMMA FailUnchanged ==
  ASSUME MountInv, mPc # "idle", MFail,
         UNCHANGED <<engine, mApi, lastGen, mCleaned, drifts>>
  PROVE  MountInv'
  <1>1. UNCHANGED <<mount, tuned, lastMount>> /\ mInst' = mInst
    BY DEF engine, MFail
  <1>2. mount' \in Nat /\ tuned' \in Nat /\ lastMount' \in Nat
    BY <1>1 DEF MountInv, MTyped
  <1>3. drifts = 0 => ReportIsTrue(mApi)' /\ ReportIsTrue(mInst)'
    BY <1>1 DEF MountInv, Mounted, ReportIsTrue, IsUp, Success
  <1>4. QED
    BY <1>2, <1>3, FailStep

LEMMA LookupStep ==
  ASSUME MountInv, Lookup
  PROVE  MountInv'
  <1>1. mPc = "lookup" /\ UNCHANGED <<engine, mApi, lastGen, mCleaned, drifts>>
    BY DEF Lookup
  <1>2. CASE MFail
    BY <1>1, <1>2, FailUnchanged
  <1>3. CASE ~MFail
    <2>1. /\ \/ mPc' = "enable" /\ mount = 0
             \/ mPc' = "tune" /\ mount # 0
          /\ UNCHANGED <<mInst, mCurrent, mIssue, mount, tuned, lastMount>>
      BY <1>1, <1>3 DEF Lookup, MGoto, engine
    <2>2. ~mIssue /\ ~mCleaned
      BY <1>1 DEF MountInv, Cleaning
    <2>3. MTyped' /\ Versions' /\ Cleaning'
      <3>1. /\ mount' \in Nat /\ tuned' \in Nat /\ lastMount' \in Nat
            /\ mInst' \in MountResource /\ mIssue' \in BOOLEAN
        BY <2>1 DEF MountInv, MTyped
      <3>2. QED
        BY <1>1, <2>1, <2>2, <3>1, WithinCycle DEF Ensuring
    <2>4. Mounted'
      BY <1>1, <2>1, <2>2 DEF MountInv, Mounted, ReportIsTrue, IsUp, Success
    <2>5. QED
      BY <2>3, <2>4 DEF MountInv
  <1>4. QED
    BY <1>2, <1>3

(* What the resource and the copy report was reported before this cycle,   *)
(* or is of the copy's generation: tuning or enabling makes it no less     *)
(* true.  That no mount is there contradicts any report of one.            *)
LEMMA ConfiguredStep ==
  ASSUME MountInv, mPc \in {"enable", "tune"},
         UNCHANGED <<mApi, lastGen, mCleaned, drifts>>,
         tuned' = mInst.meta.gen, lastMount' \in Nat, mount' \in Nat \ {0},
         mount = 0 \/ mount' = mount,
         MGoto("accessor") \/ MFail
  PROVE  MountInv'
  <1>1. UNCHANGED <<mInst, mCurrent>>
    BY DEF MGoto, MFail
  <1>2. ~mIssue /\ ~mCleaned /\ mIssue \in BOOLEAN
    BY DEF MountInv, Cleaning, MTyped
  <1>3. /\ Success(mApi) <= mInst.meta.gen /\ Success(mInst) <= mInst.meta.gen
        /\ mInst.meta.gen \in Nat /\ mInst \in MountResource
    BY DEF MountInv, Versions, MTyped, MountResource, Object
  <1>4. drifts = 0 => ReportIsTrue(mApi)' /\ ReportIsTrue(mInst)'
    BY <1>1, <1>3 DEF MountInv, Mounted, ReportIsTrue, IsUp, Success
  <1>5. CASE MFail
    BY <1>3, <1>4, <1>5, FailStep
  <1>6. CASE MGoto("accessor")
    <2>1. mPc' = "accessor" /\ mIssue' = mIssue
      BY <1>6 DEF MGoto
    <2>2. MTyped' /\ Versions' /\ Cleaning'
      BY <1>1, <1>2, <1>3, <2>1, WithinCycle DEF Ensuring
    <2>3. Mounted'
      BY <1>1, <1>2, <1>3, <1>4, <2>1 DEF Mounted
    <2>4. QED
      BY <2>2, <2>3 DEF MountInv
  <1>7. QED
    BY <1>5, <1>6

LEMMA EnableStep ==
  ASSUME MountInv, Enable
  PROVE  MountInv'
  <1>1. mPc = "enable" /\ UNCHANGED <<mApi, lastGen, mCleaned, drifts>>
    BY DEF Enable
  <1>2. CASE EnableAs(mInst.meta.gen) /\ (MGoto("accessor") \/ MFail)
    <2>1. lastMount \in Nat
      BY DEF MountInv, MTyped
    <2>2. QED
      BY <1>1, <1>2, <2>1, ConfiguredStep DEF EnableAs
  <1>3. CASE UNCHANGED engine /\ MFail
    BY <1>1, <1>3, FailUnchanged
  <1>4. QED
    BY <1>2, <1>3 DEF Enable

LEMMA TuneStep ==
  ASSUME MountInv, Tune
  PROVE  MountInv'
  <1>1. mPc = "tune" /\ UNCHANGED <<mApi, lastGen, mCleaned, drifts>>
    BY DEF Tune
  <1>2. CASE /\ mount # 0 /\ tuned' = mInst.meta.gen /\ UNCHANGED <<mount, lastMount>>
             /\ MGoto("accessor") \/ MFail
    <2>1. lastMount \in Nat /\ mount \in Nat
      BY DEF MountInv, MTyped
    <2>2. QED
      BY <1>1, <1>2, <2>1, ConfiguredStep
  <1>3. CASE UNCHANGED engine /\ MFail
    BY <1>1, <1>3, FailUnchanged
  <1>4. QED
    BY <1>2, <1>3 DEF Tune

LEMMA AccessorStep ==
  ASSUME MountInv, Accessor
  PROVE  MountInv'
  <1>1. mPc = "accessor" /\ UNCHANGED <<engine, mApi, lastGen, mCleaned, drifts>>
    BY DEF Accessor
  <1>2. CASE MFail
    BY <1>1, <1>2, FailUnchanged
  <1>3. CASE ~MFail
    <2>1. /\ mInst' = [mInst EXCEPT !.accessor = mount] /\ mPc' = "status"
          /\ UNCHANGED <<mCurrent, mIssue, mount, tuned, lastMount>>
      BY <1>1, <1>3 DEF Accessor, engine
    <2>2. /\ mount \in Nat /\ tuned \in Nat /\ lastMount \in Nat
          /\ mInst \in MountResource /\ mIssue \in BOOLEAN /\ ~mIssue /\ ~mCleaned
      BY <1>1 DEF MountInv, MTyped, Cleaning
    <2>3. mInst' \in MountResource /\ mInst'.meta = mInst.meta /\ mInst'.accessor = mount
      BY <2>1, <2>2 DEF MountResource
    <2>4. MTyped' /\ Versions' /\ Cleaning'
      BY <1>1, <2>1, <2>2, <2>3, WithinCycle DEF Ensuring
    <2>5. Success(mInst') = Success(mInst) /\ Success(mInst) \in Nat
          /\ Success(mInst) <= mInst.meta.gen /\ mInst.meta.gen \in Nat
      BY <1>1, <2>3 DEF Success, MountInv, MTyped, Versions, MountResource, Object,
                        CondTypes
    <2>6. drifts = 0 => ReportIsTrue(mApi)' /\ ReportIsTrue(mInst)'
      BY <1>1, <2>1, <2>2, <2>3, <2>5 DEF MountInv, Mounted, ReportIsTrue, IsUp, Success
    <2>7. Mounted'
      BY <1>1, <2>1, <2>2, <2>3, <2>6 DEF MountInv, Mounted
    <2>8. QED
      BY <2>4, <2>7 DEF MountInv
  <1>4. QED
    BY <1>2, <1>3

-----------------------------------------------------------------------------
(* The end of a cycle: what is stored then is what was stored, what the    *)
(* copy has, or, after a cleanup, nothing.                                 *)
LEMMA DoneStep ==
  ASSUME MountInv, NEW err, MDone(err), UNCHANGED <<engine, lastGen, drifts>>,
         mApi' \in MountResource,
         ~Exists(mApi'.meta) => mApi'.meta = Absent,
         Exists(mApi'.meta) => mApi'.meta.gen # 0,
         Success(mApi') <= mApi'.meta.gen, mApi'.meta.gen <= lastGen,
         mApi'.meta.finalizer => Success(mApi') # 0,
         drifts = 0 => ReportIsTrue(mApi'),
         mCleaned' \in BOOLEAN,
         mCleaned' => ~Exists(mApi'.meta) /\ (drifts = 0 => mount = 0)
  PROVE  MountInv'
  <1>1. /\ mPc' = "idle" /\ mInst' = NoMount /\ mCurrent' = FALSE /\ mIssue' = FALSE
        /\ UNCHANGED <<mount, tuned, lastMount, lastGen, drifts>>
    BY DEF MDone, engine
  <1>2. /\ mInst' \in MountResource /\ Success(mInst') = 0
        /\ ~mInst'.meta.deleting /\ ~mInst'.meta.finalizer
    BY <1>1, NoMountFacts
  <1>3. MTyped'
    BY <1>1, <1>2 DEF MountInv, MTyped
  <1>4. Versions'
    BY <1>1 DEF MountInv, Versions, Success
  <1>5. Cleaning'
    BY <1>1, <1>2 DEF MountInv, Cleaning, Success, Ensuring
  <1>6. Mounted'
    BY <1>1, <1>2 DEF MountInv, Mounted, ReportIsTrue, IsUp, Success
  <1>7. QED
    BY <1>3, <1>4, <1>5, <1>6 DEF MountInv

(* A cycle that stores nothing. *)
LEMMA DoneUnchanged ==
  ASSUME MountInv, NEW err, MDone(err),
         UNCHANGED <<engine, mApi, lastGen, mCleaned, drifts>>
  PROVE  MountInv'
  <1>1. /\ mApi' = mApi /\ mCleaned' = mCleaned
        /\ Success(mApi') = Success(mApi) /\ mApi'.meta = mApi.meta
        /\ ReportIsTrue(mApi') = ReportIsTrue(mApi)
    OBVIOUS
  <1>2. mCleaned \in BOOLEAN /\ mApi \in MountResource
    BY DEF MountInv, MTyped
  <1>3. mCleaned => ~Exists(mApi.meta) /\ (drifts = 0 => mount = 0)
    BY DEF MountInv, Cleaning, Mounted
  <1>4. drifts = 0 => ReportIsTrue(mApi)
    BY DEF MountInv, Mounted
  <1>5. /\ ~Exists(mApi.meta) => mApi.meta = Absent
        /\ Exists(mApi.meta) => mApi.meta.gen # 0
        /\ Success(mApi) <= mApi.meta.gen /\ mApi.meta.gen <= lastGen
        /\ mApi.meta.finalizer => Success(mApi) # 0
    BY DEF MountInv, Versions, Cleaning
  <1>6. QED
    BY <1>1, <1>2, <1>3, <1>4, <1>5, DoneStep

(* The worker stores its copy with other meta data m, and ends or goes on. *)
LEMMA StoreStep ==
  ASSUME MountInv, mPc \in {"status", "addFinalizer"}, mCurrent,
         NEW m \in Object, mApi' = [mInst EXCEPT !.meta = m],
         m.uid = mInst.meta.uid, m.gen = mInst.meta.gen,
         m.deleting = mInst.meta.deleting, mInst.meta.finalizer => m.finalizer,
         m.finalizer => m.conds["ReconcileSuccessful"] # 0,
         \/ m.conds["ReconcileSuccessful"] = Success(mInst)
         \/ m.conds["ReconcileSuccessful"] = m.gen /\ mPc = "status" /\ ~mIssue,
         UNCHANGED <<engine, lastGen, mCleaned, drifts>>,
         \/ \E err \in BOOLEAN : MDone(err)
         \/ /\ mPc' = "addFinalizer" /\ mInst' = [mInst EXCEPT !.meta = m]
            /\ UNCHANGED <<mCurrent, mIssue>>
            /\ ~mIssue /\ m.conds["ReconcileSuccessful"] # 0 /\ ~m.deleting
            /\ mPc = "status"
  PROVE  MountInv'
  <1> DEFINE new == [mInst EXCEPT !.meta = m]
             n == m.conds["ReconcileSuccessful"]
  <1>1. /\ mInst \in MountResource /\ mApi.meta = mInst.meta /\ mPc # "idle"
        /\ mCleaned \in BOOLEAN /\ ~mCleaned
        /\ lastGen \in Nat /\ m.gen \in Nat /\ n \in Nat /\ Success(mInst) \in Nat
    BY DEF MountInv, MTyped, Versions, Cleaning, MountResource, Object, CondTypes,
           Success
  <1>2. /\ new \in MountResource /\ new.meta = m /\ new.accessor = mInst.accessor
        /\ Success(new) = n
    BY <1>1, MetaUpdate
  <1> HIDE DEF new
  <1>3. mApi' = new
    BY DEF new
  <1>4. n <= m.gen /\ m.gen <= lastGen /\ m.gen # 0
    BY <1>1 DEF MountInv, Versions
  <1>5. Exists(m)
    BY <1>1, AbsentFacts DEF MountInv, Versions, Exists
  <1>6. drifts = 0 => ReportIsTrue(new)
    BY <1>1, <1>2, <1>4 DEF MountInv, Mounted, ReportIsTrue, IsUp
  <1>7. CASE \E err \in BOOLEAN : MDone(err)
    <2>1. PICK err \in BOOLEAN : MDone(err)
      BY <1>7
    <2>2. mApi' \in MountResource /\ mApi'.meta = m /\ Success(mApi') = n
          /\ ReportIsTrue(mApi') = ReportIsTrue(new)
      BY <1>2, <1>3
    <2>3. mCleaned' = mCleaned
      OBVIOUS
    <2>4. QED
      BY <1>1, <1>4, <1>5, <1>6, <2>1, <2>2, <2>3, DoneStep
  <1>8. CASE /\ mPc' = "addFinalizer" /\ mInst' = new
             /\ UNCHANGED <<mCurrent, mIssue>>
             /\ ~mIssue /\ n # 0 /\ ~m.deleting /\ mPc = "status"
    <2>1. UNCHANGED <<mount, tuned, lastMount, lastGen, drifts>>
      BY DEF engine
    <2>2. MTyped'
      BY <1>2, <1>3, <1>8, <2>1 DEF MountInv, MTyped, Ensuring
    <2>3. Success(mApi') = n /\ Success(mInst') = n /\ mInst'.meta = m /\ mApi'.meta = m
      BY <1>2, <1>3, <1>8
    <2>4. Versions'
      BY <1>1, <1>4, <1>5, <1>8, <2>1, <2>3 DEF Versions, Success
    <2>5. Cleaning'
      BY <1>1, <1>5, <1>8, <2>1, <2>3 DEF MountInv, Cleaning, Success, Ensuring
    <2>6. drifts = 0 => ReportIsTrue(mApi)' /\ ReportIsTrue(mInst)'
      BY <1>2, <1>3, <1>6, <1>8, <2>1 DEF ReportIsTrue, IsUp, Success
    <2>7. Mounted'
      BY <1>1, <1>8, <2>1, <2>6 DEF Mounted
    <2>8. QED
      BY <2>2, <2>4, <2>5, <2>7 DEF MountInv
  <1>9. QED
    BY <1>7, <1>8 DEF new

LEMMA StatusStep ==
  ASSUME MountInv, MStatus
  PROVE  MountInv'
  <1> DEFINE m == AddOrReplaceCondition(mInst.meta, OutcomeCondition(mIssue))
             new == [mInst EXCEPT !.meta = m]
             IsDone == \E err \in BOOLEAN : MDone(err)
  <1>1. /\ mPc = "status" /\ UNCHANGED <<engine, lastGen, mCleaned, drifts>>
        /\ mIssue \in BOOLEAN /\ mInst.meta \in Object /\ mInst.meta.gen # 0
    BY DEF MStatus, MountInv, MTyped, Versions, MountResource
  <1>2. /\ m \in Object /\ m.uid = mInst.meta.uid /\ m.gen = mInst.meta.gen
        /\ m.deleting = mInst.meta.deleting /\ m.finalizer = mInst.meta.finalizer
        /\ m.conds["ReconcileSuccessful"]
             = IF mIssue THEN Success(mInst) ELSE mInst.meta.gen
    BY <1>1, ConditionFacts DEF Success
  <1>3. /\ m.finalizer => m.conds["ReconcileSuccessful"] # 0
        /\ ~mIssue => m.conds["ReconcileSuccessful"] # 0 /\ ~m.deleting
    BY <1>1, <1>2 DEF MountInv, Cleaning
  <1>4. \/ mCurrent /\ mApi' = new /\ IsDone
        \/ /\ mCurrent /\ mApi' = new /\ ~mIssue
           /\ mPc' = "addFinalizer" /\ mInst' = new /\ UNCHANGED <<mCurrent, mIssue>>
        \/ UNCHANGED mApi /\ IsDone
    <2>1. ASSUME NEW err \in BOOLEAN, MDone(err) PROVE IsDone
      BY <2>1
    <2> HIDE DEF IsDone, m
    <2>2. QED
      BY <1>1, <2>1 DEF MStatus, MStore, MRejected, m
  <1> HIDE DEF m
  <1>5. CASE mCurrent /\ mApi' = new /\ IsDone
    BY <1>1, <1>2, <1>3, <1>5, StoreStep
  <1>6. CASE /\ mCurrent /\ mApi' = new /\ ~mIssue
             /\ mPc' = "addFinalizer" /\ mInst' = new /\ UNCHANGED <<mCurrent, mIssue>>
    BY <1>1, <1>2, <1>3, <1>6, StoreStep
  <1>7. CASE UNCHANGED mApi /\ IsDone
    BY <1>1, <1>7, DoneUnchanged
  <1>8. QED
    BY <1>4, <1>5, <1>6, <1>7

LEMMA AddFinalizerStep ==
  ASSUME MountInv, MAddFinalizer
  PROVE  MountInv'
  <1> DEFINE m == WithFinalizer(mInst.meta)
             new == [mInst EXCEPT !.meta = m]
             IsDone == \E err \in BOOLEAN : MDone(err)
  <1>1. /\ mPc = "addFinalizer" /\ UNCHANGED <<engine, lastGen, mCleaned, drifts>>
        /\ mInst.meta \in Object /\ Success(mInst) # 0
    BY DEF MAddFinalizer, MountInv, MTyped, Cleaning, MountResource
  <1>2. /\ m \in Object /\ m.uid = mInst.meta.uid /\ m.gen = mInst.meta.gen
        /\ m.deleting = mInst.meta.deleting
        /\ m.conds["ReconcileSuccessful"] = Success(mInst)
        /\ m.finalizer /\ m.conds["ReconcileSuccessful"] # 0
    BY <1>1 DEF WithFinalizer, Object, Success
  <1>3. (mCurrent /\ mApi' = new /\ IsDone) \/ (UNCHANGED mApi /\ IsDone)
    <2>1. ASSUME NEW err \in BOOLEAN, MDone(err) PROVE IsDone
      BY <2>1
    <2> HIDE DEF IsDone, m
    <2>2. QED
      BY <1>1, <2>1 DEF MAddFinalizer, MStore, MRejected, m
  <1> HIDE DEF m
  <1>4. CASE mCurrent /\ mApi' = new /\ IsDone
    BY <1>1, <1>2, <1>4, StoreStep
  <1>5. CASE UNCHANGED mApi /\ IsDone
    BY <1>1, <1>5, DoneUnchanged
  <1>6. QED
    BY <1>3, <1>4, <1>5

(* Whatever is cleaned up had a success, so its mount goes. *)
LEMMA DisableStep ==
  ASSUME MountInv, Disable
  PROVE  MountInv'
  <1>1. mPc = "disable" /\ UNCHANGED <<mApi, lastGen, mCleaned, drifts>>
    BY DEF Disable
  <1>2. /\ mInst.meta.deleting /\ mApi.meta.deleting /\ Succeeded(mInst.meta)
        /\ ~mIssue /\ ~mCleaned
    BY <1>1 DEF MountInv, Cleaning, Success, Succeeded
  <1>3. CASE UNCHANGED engine /\ MFail
    BY <1>1, <1>3, FailUnchanged
  <1>4. CASE DisableMount /\ (MGoto("removeFinalizer") \/ MFail)
    <2>1. mount' = 0 /\ tuned' = 0 /\ lastMount' = lastMount /\ UNCHANGED <<mInst, mCurrent>>
      BY <1>4 DEF DisableMount, MGoto, MFail
    <2>2. /\ mount' \in Nat /\ tuned' \in Nat /\ lastMount' \in Nat
          /\ mInst' \in MountResource /\ mIssue \in BOOLEAN
      BY <2>1 DEF MountInv, MTyped
    <2>3. ReportIsTrue(mApi)' /\ ReportIsTrue(mInst)'
      BY <1>1, <1>2, <2>1 DEF ReportIsTrue
    <2>4. CASE MFail
      BY <1>1, <2>2, <2>3, <2>4, FailStep
    <2>5. CASE MGoto("removeFinalizer")
      <3>1. mPc' = "removeFinalizer" /\ mIssue' = mIssue
        BY <2>5 DEF MGoto
      <3>2. MTyped' /\ Versions' /\ Cleaning'
        BY <1>1, <1>2, <2>1, <2>2, <3>1, WithinCycle
      <3>3. Mounted'
        BY <1>1, <1>2, <2>1, <2>3, <3>1 DEF Mounted
      <3>4. QED
        BY <3>2, <3>3 DEF MountInv
    <2>6. QED
      BY <1>4, <2>4, <2>5
  <1>5. QED
    BY <1>2, <1>3, <1>4 DEF Disable

LEMMA RemoveFinalizerStep ==
  ASSUME MountInv, MRemoveFinalizer
  PROVE  MountInv'
  <1>1. mPc = "removeFinalizer" /\ UNCHANGED <<engine, lastGen, drifts>>
    BY DEF MRemoveFinalizer
  <1>2. CASE mApi' = NoMount /\ mCleaned' = TRUE /\ \E err \in BOOLEAN : MDone(err)
    <2>1. PICK err \in BOOLEAN : MDone(err)
      BY <1>2
    <2>2. drifts = 0 => mount = 0
      BY <1>1 DEF MountInv, Mounted
    <2>3. lastGen \in Nat
      BY DEF MountInv, MTyped
    <2>4. /\ mApi' \in MountResource /\ mApi'.meta = Absent /\ ~Exists(mApi'.meta)
          /\ Success(mApi') = 0 /\ mApi'.meta.gen = 0 /\ ~mApi'.meta.finalizer
      BY <1>2, NoMountFacts
    <2>5. ReportIsTrue(mApi')
      BY <2>4 DEF ReportIsTrue
    <2>6. QED
      BY <1>1, <1>2, <2>1, <2>2, <2>3, <2>4, <2>5, DoneStep
  <1>3. CASE UNCHANGED <<mApi, mCleaned>> /\ MFail
    BY <1>1, <1>3, FailUnchanged
  <1>4. QED
    <2>1. ASSUME MDone(FALSE) \/ MDone(TRUE) PROVE \E err \in BOOLEAN : MDone(err)
      BY <2>1
    <2>2. QED
      BY <1>2, <1>3, <2>1 DEF MRemoveFinalizer, MStore, MRejected

-----------------------------------------------------------------------------
(* Others mount and unmount: nothing is promised of the mount then. *)
LEMMA DriftStep ==
  ASSUME MountInv, Drift
  PROVE  MountInv'
  <1>1. drifts' = drifts + 1 /\ UNCHANGED <<mApi, lastGen, mCleaned, mWorker>>
    BY DEF Drift, mKube
  <1>2. /\ mount \in Nat /\ tuned \in Nat /\ lastMount \in Nat /\ drifts \in Nat
    BY DEF MountInv, MTyped
  <1>3. mount' \in Nat /\ tuned' \in Nat /\ lastMount' \in Nat /\ drifts' \in Nat \ {0}
    BY <1>1, <1>2 DEF Drift, EnableAs, DisableMount
  <1>4. MTyped'
    BY <1>1, <1>3 DEF MountInv, MTyped, mWorker
  <1>5. Versions' /\ Cleaning'
    BY <1>1 DEF MountInv, Versions, Cleaning, mWorker, Success
  <1>6. Mounted'
    BY <1>3 DEF Mounted
  <1>7. QED
    BY <1>4, <1>5, <1>6 DEF MountInv

LEMMA RestartStep ==
  ASSUME MountInv, MRestart
  PROVE  MountInv'
  <1>1. /\ mPc' = "idle" /\ mInst' = NoMount /\ mCurrent' = FALSE /\ mIssue' = FALSE
        /\ UNCHANGED <<mount, tuned, lastMount, mApi, lastGen, mCleaned, drifts>>
    BY DEF MRestart, engine
  <1>2. /\ mInst' \in MountResource /\ Success(mInst') = 0
        /\ ~mInst'.meta.deleting /\ ~mInst'.meta.finalizer
    BY <1>1, NoMountFacts
  <1>3. MTyped'
    BY <1>1, <1>2 DEF MountInv, MTyped
  <1>4. Versions'
    BY <1>1 DEF MountInv, Versions, Success
  <1>5. Cleaning'
    BY <1>1, <1>2 DEF MountInv, Cleaning, Success, Ensuring
  <1>6. Mounted'
    BY <1>1, <1>2 DEF MountInv, Mounted, ReportIsTrue, IsUp, Success
  <1>7. QED
    BY <1>3, <1>4, <1>5, <1>6 DEF MountInv

(* Every step of users, of the worker and of others. *)
LEMMA MountPreserved ==
  ASSUME MountInv, MUser \/ MStep \/ Drift
  PROVE  MountInv'
  BY UserStep, TakeStep, LookupStep, EnableStep, TuneStep, AccessorStep, StatusStep,
     AddFinalizerStep, DisableStep, RemoveFinalizerStep, DriftStep DEF MStep

-----------------------------------------------------------------------------
(* The configuration. *)

Config == [uid : Nat, gen : Nat, success : Nat, generated : BOOLEAN,
           exported : BOOLEAN, signed : BOOLEAN]

Generated == {"export", "sign", "setSigned", "urls", "crl"}

PKITyped ==
    /\ spec \in Variants
    /\ api \in Config /\ cache \in Config /\ inst \in Config
    /\ pc \in Generated \union {"idle", "generate", "status"}
    /\ instCurrent \in BOOLEAN /\ cacheCurrent \in BOOLEAN /\ issue \in BOOLEAN

(* A current copy of the worker is of the stored incarnation and records   *)
(* all that is stored, and maybe more.                                     *)
Copies ==
    /\ api.uid = 0 => api = NoConfig
    /\ cacheCurrent => cache = api
    /\ pc = "idle" => inst = NoConfig /\ ~instCurrent
    /\ pc # "idle" => inst.uid # 0
    /\ instCurrent => /\ inst.uid = api.uid
                      /\ api.generated => inst.generated
                      /\ api.exported => inst.exported
                      /\ api.signed => inst.signed

(* The exported Secret is of the resource whose status, stored or about to *)
(* be, says so; only a spec with an exported key makes it say so.          *)
Exports ==
    /\ api.exported \/ cache.exported \/ inst.exported => spec.export
    /\ api.exported => export.uid = api.uid
    /\ instCurrent /\ inst.exported => export.uid = inst.uid

(* The mount at the path is the first one. *)
Unreplaced == lastMount <= 1 /\ mount = lastMount

HasChain == spec.type = "intermediate" => signed \in cas

RecordIsTrue(obj) ==
    /\ obj.generated => cas # {}
    /\ obj.signed => signed \in cas
    /\ obj.success # 0 => cas # {} /\ HasChain

(* What is recorded Vault has, and it has what the worker is past.         *)
SetUp ==
    /\ mount <= lastMount
    /\ mount = 0 => cas = {}
    /\ Unreplaced =>
         /\ RecordIsTrue(api) /\ RecordIsTrue(cache) /\ RecordIsTrue(inst)
         /\ pc \in Generated \/ (pc = "status" /\ ~issue) => cas # {}
         /\ pc \in {"urls", "crl"} \/ (pc = "status" /\ ~issue) => HasChain

PKIInv == MountInv /\ PKITyped /\ Copies /\ Exports /\ SetUp

-----------------------------------------------------------------------------
LEMMA NoConfigFacts ==
  /\ NoConfig \in Config
  /\ NoConfig.uid = 0 /\ NoConfig.success = 0
  /\ ~NoConfig.generated /\ ~NoConfig.exported /\ ~NoConfig.signed
  BY DEF NoConfig, Config

LEMMA PKIInit == Init => PKIInv
  <1>1. SUFFICES ASSUME Init PROVE PKIInv
    OBVIOUS
  <1>2. /\ MInit /\ spec \in Variants
        /\ api = NoConfig /\ cache = NoConfig /\ inst = NoConfig
        /\ pc = "idle" /\ instCurrent = FALSE /\ cacheCurrent = TRUE /\ issue = FALSE
        /\ export = NoExport /\ cas = {}
    BY <1>1 DEF Init
  <1>3. MountInv
    BY <1>2, MountInit
  <1>4. PKITyped
    BY <1>2, NoConfigFacts DEF PKITyped
  <1>5. Copies /\ Exports
    BY <1>2, NoConfigFacts DEF Copies, Exports
  <1>6. SetUp
    <2>1. mount \in Nat /\ lastMount = mount
      BY <1>2 DEF MInit
    <2>2. QED
      BY <1>2, <2>1, NoConfigFacts DEF SetUp, RecordIsTrue, Generated
  <1>7. QED
    BY <1>3, <1>4, <1>5, <1>6 DEF PKIInv

(* A version that users store, or none: it keeps the record, or has none.  *)
LEMMA StoredByOther ==
  ASSUME PKIInv, NEW obj \in Config, StoreByOther(obj),
         UNCHANGED <<spec, export>>, lastGen' \in Nat, lastGen <= lastGen',
         obj.uid = 0 => obj = NoConfig,
         \/ /\ obj.uid = api.uid /\ obj.success = api.success
            /\ obj.generated = api.generated /\ obj.exported = api.exported
            /\ obj.signed = api.signed
         \/ /\ obj.success = 0
            /\ ~obj.generated /\ ~obj.exported /\ ~obj.signed
  PROVE  PKIInv'
  <1>1. /\ api' = obj /\ cacheCurrent' = FALSE /\ instCurrent' = FALSE
        /\ UNCHANGED <<mount, lastMount, cas, signed, cache, pc, inst, issue>>
        /\ UNCHANGED <<engine, mApi, mCleaned, mWorker, drifts>>
    BY DEF StoreByOther, engine, pki
  <1>2. MountInv'
    BY <1>1, OtherResources DEF PKIInv
  <1>3. PKITyped' /\ Copies' /\ Exports'
    BY <1>1 DEF PKIInv, PKITyped, Copies, Exports
  <1>4. Unreplaced => RecordIsTrue(api)'
    BY <1>1 DEF PKIInv, SetUp, RecordIsTrue, HasChain
  <1>5. SetUp'
    BY <1>1, <1>4 DEF PKIInv, SetUp, Unreplaced, RecordIsTrue, HasChain
  <1>6. QED
    BY <1>2, <1>3, <1>5 DEF PKIInv

LEMMA PKIUsers ==
  ASSUME PKIInv, UserCreate \/ UserEdit \/ SignExternally \/ UserDelete
  PROVE  PKIInv'
  <1>1. /\ lastGen \in Nat /\ lastGen + 1 \in Nat /\ lastGen <= lastGen + 1
        /\ lastGen + 1 # 0 /\ api \in Config
    BY DEF PKIInv, MountInv, MTyped, PKITyped
  <1>2. CASE UserCreate
    <2> DEFINE new == [NoConfig EXCEPT !.uid = lastGen + 1, !.gen = lastGen + 1]
    <2>1. StoreByOther(new) /\ lastGen' = lastGen + 1 /\ UNCHANGED <<spec, export>>
      BY <1>2 DEF UserCreate, Bump, secrets
    <2>2. /\ new \in Config /\ new.uid # 0 /\ new.success = 0
          /\ ~new.generated /\ ~new.exported /\ ~new.signed
      BY <1>1 DEF NoConfig, Config
    <2> HIDE DEF new
    <2>3. QED
      BY <1>1, <2>1, <2>2, StoredByOther
  <1>3. CASE UserEdit \/ SignExternally
    <2> DEFINE new == [api EXCEPT !.gen = lastGen + 1]
    <2>1. /\ StoreByOther(new) /\ lastGen' = lastGen + 1 /\ UNCHANGED <<spec, export>>
          /\ api.uid # 0
      BY <1>3 DEF UserEdit, SignExternally, Bump, secrets
    <2>2. /\ new \in Config /\ new.uid = api.uid /\ new.success = api.success
          /\ new.generated = api.generated /\ new.exported = api.exported
          /\ new.signed = api.signed
      BY <1>1 DEF Config
    <2> HIDE DEF new
    <2>3. QED
      BY <1>1, <2>1, <2>2, StoredByOther
  <1>4. CASE UserDelete
    <2>1. StoreByOther(NoConfig) /\ lastGen' = lastGen /\ UNCHANGED <<spec, export>>
      BY <1>4 DEF UserDelete, secrets
    <2>2. QED
      BY <1>1, <2>1, NoConfigFacts, StoredByOther
  <1>5. QED
    BY <1>2, <1>3, <1>4

(* The garbage collector leaves the Secret of the stored resource.         *)
LEMMA CollectExportStep ==
  ASSUME PKIInv, CollectExport
  PROVE  PKIInv'
  <1>1. /\ export.uid # api.uid /\ export' = NoExport
        /\ UNCHANGED <<engine, mApi, mCleaned, mWorker, drifts, lastGen>>
        /\ UNCHANGED <<mount, lastMount, cas, signed, spec, api, cache, cacheCurrent,
                       pc, inst, instCurrent, issue>>
    BY DEF CollectExport, mVars, engine, mKube, pki, kube, informer, worker
  <1>2. MountInv'
    <2>1. lastGen' \in Nat /\ lastGen <= lastGen'
      BY <1>1 DEF PKIInv, MountInv, MTyped
    <2>2. QED
      BY <1>1, <2>1, OtherResources DEF PKIInv
  <1>3. PKITyped' /\ Copies' /\ Exports'
    BY <1>1 DEF PKIInv, PKITyped, Copies, Exports
  <1>4. SetUp'
    BY <1>1 DEF PKIInv, SetUp, Unreplaced, RecordIsTrue, HasChain
  <1>5. QED
    BY <1>2, <1>3, <1>4 DEF PKIInv

(* Of the mount and the accessors given out a step changes neither, or the *)
(* mount goes, or the next accessor is given to a mount where none was.    *)
LEMMA MountChanges ==
  ASSUME MUser \/ MStep \/ Drift
  PROVE  \/ UNCHANGED <<mount, lastMount>>
         \/ mount' = 0 /\ lastMount' = lastMount
         \/ mount = 0 /\ mount' = lastMount + 1 /\ lastMount' = lastMount + 1
  <1>1. CASE MUser
    BY <1>1 DEF MUser, MCreate, MEdit, MDelete, MRequest, engine
  <1>2. CASE MTake \/ Lookup \/ Accessor \/ MStatus \/ MAddFinalizer \/ MRemoveFinalizer
    BY <1>2 DEF MTake, Lookup, Accessor, MStatus, MAddFinalizer, MRemoveFinalizer, engine
  <1>3. CASE Enable \/ Tune \/ Disable \/ Drift
    BY <1>3 DEF Enable, Tune, Disable, Drift, EnableAs, DisableMount, engine
  <1>4. QED
    BY <1>1, <1>2, <1>3 DEF MStep

(* A mount that goes takes with it what Vault generated, and it is not the *)
(* first one any more.  The first one has nothing when it is enabled.      *)
LEMMA MountStepPreserves ==
  ASSUME PKIInv, MountStep
  PROVE  PKIInv'
  <1>1. /\ MUser \/ MStep \/ Drift
        /\ ThatOfMount
        /\ UNCHANGED <<spec, api, cache, cacheCurrent, pc, inst, instCurrent, issue,
                       export>>
    BY DEF MountStep, kube, informer, worker, secrets
  <1>2. MountInv'
    BY <1>1, MountPreserved DEF PKIInv
  <1>3. PKITyped' /\ Copies' /\ Exports'
    BY <1>1 DEF PKIInv, PKITyped, Copies, Exports
  <1>4. mount \in Nat /\ lastMount \in Nat /\ mount <= lastMount /\ (mount = 0 => cas = {})
    BY DEF PKIInv, MountInv, MTyped, SetUp
  <1>5. SetUp'
    <2>1. CASE mount' = mount /\ lastMount' = lastMount
      <3>1. UNCHANGED <<cas, signed>>
        BY <1>1, <2>1 DEF ThatOfMount, pki
      <3>2. QED
        BY <1>1, <2>1, <3>1 DEF PKIInv, SetUp, Unreplaced, RecordIsTrue, HasChain
    <2>2. CASE mount' = 0 /\ mount # 0 /\ lastMount' = lastMount
      <3>1. cas' = {}
        BY <1>1, <2>2 DEF ThatOfMount
      <3>2. ~Unreplaced'
        BY <1>4, <2>2 DEF Unreplaced
      <3>3. QED
        BY <1>4, <2>2, <3>1, <3>2 DEF SetUp
    <2>3. CASE mount = 0 /\ mount' = lastMount + 1 /\ lastMount' = lastMount + 1
      <3>1. cas = {} /\ cas' = {}
        BY <1>1, <1>4, <2>3 DEF ThatOfMount
      <3>2. Unreplaced' => Unreplaced
        BY <1>4, <2>3 DEF Unreplaced
      <3>3. mount' <= lastMount' /\ mount' # 0
        BY <1>4, <2>3
      <3>4. QED
        BY <1>1, <3>1, <3>2, <3>3 DEF PKIInv, SetUp, RecordIsTrue, HasChain
    <2>4. QED
      BY <1>1, <2>1, <2>2, <2>3, MountChanges
  <1>6. QED
    BY <1>2, <1>3, <1>5 DEF PKIInv

-----------------------------------------------------------------------------
(* The informer and the start of a cycle. *)
LEMMA WatchStep ==
  ASSUME PKIInv, Watch
  PROVE  PKIInv'
  <1>1. /\ cache' = api /\ cacheCurrent' = TRUE
        /\ UNCHANGED <<engine, mApi, mCleaned, mWorker, drifts, lastGen>>
        /\ UNCHANGED <<mount, lastMount, cas, signed, spec, api, pc, inst,
                       instCurrent, issue, export>>
    BY DEF Watch, mVars, engine, mKube, pki, kube, worker, secrets
  <1>2. MountInv'
    <2>1. lastGen' \in Nat /\ lastGen <= lastGen'
      BY <1>1 DEF PKIInv, MountInv, MTyped
    <2>2. QED
      BY <1>1, <2>1, OtherResources DEF PKIInv
  <1>3. PKITyped' /\ Copies' /\ Exports'
    BY <1>1 DEF PKIInv, PKITyped, Copies, Exports
  <1>4. SetUp'
    BY <1>1 DEF PKIInv, SetUp, Unreplaced, RecordIsTrue, HasChain
  <1>5. QED
    BY <1>2, <1>3, <1>4 DEF PKIInv

LEMMA PKITake ==
  ASSUME PKIInv, Take
  PROVE  PKIInv'
  <1>1. /\ pc = "idle"
        /\ UNCHANGED <<engine, mApi, mCleaned, mWorker, drifts, lastGen>>
        /\ UNCHANGED <<mount, lastMount, cas, signed, spec, api, cache, cacheCurrent,
                       export>>
    BY DEF Take, mVars, engine, mKube, pki, kube, informer, secrets
  <1>2. MountInv'
    <2>1. lastGen' \in Nat /\ lastGen <= lastGen'
      BY <1>1 DEF PKIInv, MountInv, MTyped
    <2>2. QED
      BY <1>1, <2>1, OtherResources DEF PKIInv
  <1>3. CASE UNCHANGED worker
    <2>1. UNCHANGED <<pc, inst, instCurrent, issue>>
      BY <1>3 DEF worker
    <2>2. PKITyped' /\ Copies' /\ Exports'
      BY <1>1, <2>1 DEF PKIInv, PKITyped, Copies, Exports
    <2>3. SetUp'
      BY <1>1, <2>1 DEF PKIInv, SetUp, Unreplaced, RecordIsTrue, HasChain
    <2>4. QED
      BY <1>2, <2>2, <2>3 DEF PKIInv
  <1>4. CASE ~(UNCHANGED worker)
    <2>1. /\ inst' = cache /\ instCurrent' = cacheCurrent /\ cache.uid # 0
          /\ issue' = issue
          /\ \/ pc' = "generate"
             \/ pc' = "sign" /\ cache.generated
             \/ pc' = "urls" /\ cache.generated /\ ~NeedsSigning(cache)
      BY <1>4 DEF Take, AfterGeneration
    <2>2. PKITyped' /\ Copies' /\ Exports'
      BY <1>1, <2>1 DEF PKIInv, PKITyped, Copies, Exports, Generated
    <2>3. ASSUME Unreplaced
          PROVE  RecordIsTrue(cache) /\ (pc' = "urls" => HasChain)
      BY <2>1, <2>3 DEF PKIInv, SetUp, RecordIsTrue, HasChain, NeedsSigning
    <2>4. SetUp'
      BY <1>1, <2>1, <2>3
      DEF PKIInv, SetUp, Unreplaced, RecordIsTrue, HasChain, Generated
    <2>5. QED
      BY <1>2, <2>2, <2>4 DEF PKIInv
  <1>5. QED
    BY <1>3, <1>4

-----------------------------------------------------------------------------
(* A call of the cycle: the copy records no less than before, Vault loses  *)
(* nothing, and has what the worker is then past.                          *)
LEMMA PKICall ==
  ASSUME PKIInv, pc # "idle",
         UNCHANGED <<mount, tuned, lastMount, mKube, mWorker, drifts, kube, informer>>,
         inst' \in Config, inst'.uid = inst.uid,
         inst.generated => inst'.generated, inst.signed => inst'.signed,
         UNCHANGED instCurrent, issue' \in BOOLEAN,
         pc' \in Generated \union {"status"},
         api.exported => export' = export,
         inst'.exported => spec.export,
         instCurrent /\ api.exported => inst'.exported,
         instCurrent /\ inst'.exported => export'.uid = inst.uid,
         cas \subseteq cas', mount = 0 => cas' = {},
         signed \in cas => signed' \in cas',
         Unreplaced =>
           /\ RecordIsTrue(inst)'
           /\ pc' \in Generated \/ (pc' = "status" /\ ~issue') => cas' # {}
           /\ pc' \in {"urls", "crl"} \/ (pc' = "status" /\ ~issue') => HasChain'
  PROVE  PKIInv'
  <1>1. /\ UNCHANGED <<engine, mApi, mCleaned, mWorker, drifts, lastGen>>
        /\ UNCHANGED <<spec, api, cache, cacheCurrent>>
    BY DEF engine, mKube, kube, informer
  <1>2. MountInv'
    <2>1. lastGen' \in Nat /\ lastGen <= lastGen'
      BY <1>1 DEF PKIInv, MountInv, MTyped
    <2>2. QED
      BY <1>1, <2>1, OtherResources DEF PKIInv
  <1>3. PKITyped'
    BY <1>1 DEF PKIInv, PKITyped
  <1>4. Copies'
    BY <1>1 DEF PKIInv, Copies, Generated
  <1>5. Exports'
    BY <1>1 DEF PKIInv, Exports
  <1>6. SetUp'
    <2>1. ASSUME Unreplaced
          PROVE  RecordIsTrue(api)' /\ RecordIsTrue(cache)'
      BY <1>1, <2>1 DEF PKIInv, SetUp, RecordIsTrue, HasChain
    <2>2. Unreplaced' = Unreplaced
      BY DEF Unreplaced
    <2>3. mount' <= lastMount' /\ (mount' = 0 => cas' = {})
      BY DEF PKIInv, SetUp
    <2>4. QED
      BY <2>1, <2>2, <2>3 DEF SetUp
  <1>7. QED
    BY <1>2, <1>3, <1>4, <1>5, <1>6 DEF PKIInv

(* An error, which may have left something in Vault. *)
LEMMA PKIFail ==
  ASSUME PKIInv, pc # "idle", Fail,
         UNCHANGED <<mount, tuned, lastMount, mKube, mWorker, drifts, kube, informer,
                     export>>,
         cas \subseteq cas', mount = 0 => cas' = {},
         signed \in cas => signed' \in cas'
  PROVE  PKIInv'
  <1>1. pc' = "status" /\ issue' = TRUE /\ UNCHANGED <<inst, instCurrent>>
    BY DEF Fail
  <1>2. spec' = spec
    BY DEF kube
  <1>3. /\ inst \in Config
        /\ instCurrent /\ api.exported => inst.exported
        /\ inst.exported => spec.export
        /\ instCurrent /\ inst.exported => export.uid = inst.uid
    BY DEF PKIInv, PKITyped, Copies, Exports
  <1>4. Unreplaced => RecordIsTrue(inst)'
    BY <1>1, <1>2 DEF PKIInv, SetUp, RecordIsTrue, HasChain
  <1>5. QED
    BY <1>1, <1>3, <1>4, PKICall DEF Generated

(* A call that only reads, or writes the configuration. *)
LEMMA PKIGoto ==
  ASSUME PKIInv, pc \in Generated, pc' \in Generated \union {"status"},
         pc' # "urls", pc' \in {"crl", "status"} => pc \in {"urls", "crl"},
         UNCHANGED <<mount, tuned, lastMount, mKube, mWorker, drifts, kube, informer,
                     export, inst, instCurrent, issue, cas, signed>>
  PROVE  PKIInv'
  <1>1. spec' = spec
    BY DEF kube
  <1>2. /\ inst \in Config /\ issue \in BOOLEAN
        /\ instCurrent /\ api.exported => inst.exported
        /\ inst.exported => spec.export
        /\ instCurrent /\ inst.exported => export.uid = inst.uid
        /\ mount = 0 => cas = {}
    BY DEF PKIInv, PKITyped, Copies, Exports, SetUp
  <1>3. Unreplaced =>
          /\ RecordIsTrue(inst)' /\ cas' # {}
          /\ pc' \in {"urls", "crl"} \/ (pc' = "status" /\ ~issue') => HasChain'
    BY <1>1 DEF PKIInv, SetUp, RecordIsTrue, HasChain
  <1>4. QED
    BY <1>2, <1>3, PKICall DEF Generated

LEMMA GenerateStep ==
  ASSUME PKIInv, Generate
  PROVE  PKIInv'
  <1>1. /\ pc = "generate"
        /\ UNCHANGED <<mount, tuned, lastMount, mKube, mWorker, drifts, kube, informer,
                       export>>
    BY DEF Generate, secrets
  <1>2. CASE UNCHANGED pki /\ Fail
    BY <1>1, <1>2, PKIFail DEF PKIInv, SetUp, pki
  <1>3. CASE mount # 0 /\ cas' = cas \union {NextCa} /\ signed' = signed /\ Fail
    BY <1>1, <1>3, PKIFail
  <1>4. CASE /\ mount # 0 /\ cas' = cas \union {NextCa} /\ signed' = signed
             /\ pc' = "export" /\ inst' = [inst EXCEPT !.generated = TRUE]
             /\ UNCHANGED <<instCurrent, issue>>
    <2>1. /\ inst \in Config /\ issue \in BOOLEAN
          /\ instCurrent /\ api.exported => inst.exported
          /\ inst.exported => spec.export
          /\ instCurrent /\ inst.exported => export.uid = inst.uid
      BY DEF PKIInv, PKITyped, Copies, Exports
    <2>2. /\ inst' \in Config /\ inst'.uid = inst.uid /\ inst'.generated
          /\ inst'.signed = inst.signed /\ inst'.exported = inst.exported
          /\ inst'.success = inst.success
      BY <1>4, <2>1 DEF Config
    <2>3. cas \subseteq cas' /\ cas' # {} /\ spec' = spec
      BY <1>1, <1>4 DEF kube
    <2>4. Unreplaced => RecordIsTrue(inst)'
      BY <1>4, <2>2, <2>3 DEF PKIInv, SetUp, RecordIsTrue, HasChain
    <2>5. QED
      BY <1>1, <1>4, <2>1, <2>2, <2>3, <2>4, PKICall DEF Generated
  <1>5. QED
    BY <1>2, <1>3, <1>4 DEF Generate

(* The Secret is created for this resource, and only if there was none.    *)
LEMMA ExportStep ==
  ASSUME PKIInv, Export
  PROVE  PKIInv'
  <1>1. spec.export \in BOOLEAN
    <2>1. spec \in AllVariants
      BY PKIConstants DEF PKIInv, PKITyped
    <2>2. QED
      BY <2>1 DEF AllVariants, Variant
  <1>2. /\ pc = "export"
        /\ UNCHANGED <<mount, tuned, lastMount, mKube, mWorker, drifts, kube, informer,
                       cas, signed>>
        /\ spec' = spec
    BY DEF Export, pki, kube
  <1>3. /\ inst \in Config /\ issue \in BOOLEAN /\ inst.uid # 0
        /\ instCurrent => inst.uid = api.uid
        /\ api.exported => export.uid = api.uid /\ spec.export /\ api.uid # 0
        /\ instCurrent /\ inst.exported => export.uid = inst.uid
        /\ instCurrent /\ api.exported => inst.exported
        /\ inst.exported => spec.export
        /\ mount = 0 => cas = {}
    BY <1>2, NoConfigFacts DEF PKIInv, PKITyped, Copies, Exports, SetUp
  <1>4. CASE UNCHANGED export /\ Fail
    BY <1>2, <1>3, <1>4, PKIFail
  <1>5. CASE /\ ~spec.export \/ export.uid = 0
             /\ export' = IF spec.export THEN [uid |-> inst.uid, ca |-> lastCa]
                          ELSE export
    <2>1. /\ api.exported => export' = export
          /\ spec.export => export'.uid = inst.uid
          /\ ~spec.export => export' = export
      BY <1>3, <1>5
    <2>2. CASE Fail /\ spec.export
      <3>1. pc' = "status" /\ issue' = TRUE /\ UNCHANGED <<inst, instCurrent>>
        BY <2>2 DEF Fail
      <3>2. Unreplaced => RecordIsTrue(inst)'
        BY <1>2, <3>1 DEF PKIInv, SetUp, RecordIsTrue, HasChain
      <3>3. QED
        BY <1>2, <1>3, <2>1, <2>2, <3>1, <3>2, PKICall DEF Generated
    <2>3. CASE /\ inst' = [inst EXCEPT !.exported = spec.export]
               /\ pc' = AfterGeneration(inst) /\ UNCHANGED <<instCurrent, issue>>
      <3>1. /\ inst' \in Config /\ inst'.uid = inst.uid /\ inst'.exported = spec.export
            /\ inst'.generated = inst.generated /\ inst'.signed = inst.signed
            /\ inst'.success = inst.success
        BY <1>1, <1>3, <2>3 DEF Config
      <3>2. pc' = "sign" \/ (pc' = "urls" /\ ~NeedsSigning(inst))
        BY <2>3 DEF AfterGeneration
      <3>3. Unreplaced =>
              RecordIsTrue(inst)' /\ cas' # {} /\ (pc' = "urls" => HasChain')
        BY <1>2, <3>1, <3>2
        DEF PKIInv, SetUp, RecordIsTrue, HasChain, NeedsSigning, Generated
      <3>4. instCurrent /\ inst'.exported => export'.uid = inst.uid
        BY <2>1, <3>1
      <3>5. instCurrent /\ api.exported => inst'.exported
        BY <1>3, <3>1
      <3>6. QED
        BY <1>2, <1>3, <2>1, <2>3, <3>1, <3>2, <3>3, <3>4, <3>5, PKICall DEF Generated
    <2>4. QED
      BY <1>5, <2>2, <2>3 DEF Export
  <1>6. QED
    BY <1>4, <1>5 DEF Export

LEMMA SignStep ==
  ASSUME PKIInv, Sign
  PROVE  PKIInv'
  <1>1. /\ pc = "sign"
        /\ UNCHANGED <<mount, tuned, lastMount, mKube, mWorker, drifts, kube, informer,
                       export, cas, signed>>
        /\ mount = 0 => cas = {}
    BY DEF Sign, pki, secrets, PKIInv, SetUp
  <1>2. CASE Fail
    BY <1>1, <1>2, PKIFail
  <1>3. CASE ~Fail
    <2>1. pc' = "setSigned" /\ UNCHANGED <<inst, instCurrent, issue>>
      BY <1>3 DEF Sign
    <2>2. QED
      BY <1>1, <2>1, PKIGoto DEF Generated
  <1>4. QED
    BY <1>2, <1>3

(* Vault takes only the certificate of a key that it has. *)
LEMMA SetSignedStep ==
  ASSUME PKIInv, SetSigned
  PROVE  PKIInv'
  <1>1. /\ pc = "setSigned"
        /\ UNCHANGED <<mount, tuned, lastMount, mKube, mWorker, drifts, kube, informer,
                       export>>
        /\ mount = 0 => cas = {}
    BY DEF SetSigned, secrets, PKIInv, SetUp
  <1>2. CASE UNCHANGED pki /\ Fail
    BY <1>1, <1>2, PKIFail DEF pki
  <1>3. CASE csr \in cas /\ signed' = csr /\ cas' = cas
    <2>1. CASE Fail
      BY <1>1, <1>3, <2>1, PKIFail
    <2>2. CASE /\ pc' = "urls" /\ inst' = [inst EXCEPT !.signed = TRUE]
               /\ UNCHANGED <<instCurrent, issue>>
      <3>1. /\ inst \in Config /\ issue \in BOOLEAN
            /\ instCurrent /\ api.exported => inst.exported
            /\ inst.exported => spec.export
            /\ instCurrent /\ inst.exported => export.uid = inst.uid
        BY DEF PKIInv, PKITyped, Copies, Exports
      <3>2. /\ inst' \in Config /\ inst'.uid = inst.uid /\ inst'.signed
            /\ inst'.generated = inst.generated /\ inst'.exported = inst.exported
        BY <2>2, <3>1 DEF Config
      <3>3. RecordIsTrue(inst)' /\ HasChain' /\ cas' # {}
        BY <1>3 DEF RecordIsTrue, HasChain
      <3>4. QED
        BY <1>1, <1>3, <2>2, <3>1, <3>2, <3>3, PKICall DEF Generated
    <2>3. QED
      BY <1>3, <2>1, <2>2 DEF SetSigned
  <1>4. QED
    BY <1>2, <1>3 DEF SetSigned

LEMMA WriteConfigSteps ==
  ASSUME PKIInv, WriteUrls \/ WriteCrl
  PROVE  PKIInv'
  <1>1. /\ UNCHANGED <<mount, tuned, lastMount, mKube, mWorker, drifts, kube, informer,
                       export, cas, signed>>
        /\ mount = 0 => cas = {}
    BY DEF WriteUrls, WriteCrl, WriteConfig, pki, secrets, PKIInv, SetUp
  <1>2. \/ pc \in {"urls", "crl"} /\ Fail
        \/ pc = "urls" /\ Goto("crl")
        \/ pc = "crl" /\ Goto("status")
    BY DEF WriteUrls, WriteCrl, WriteConfig
  <1>3. CASE pc \in {"urls", "crl"} /\ Fail
    BY <1>1, <1>3, PKIFail
  <1>4. CASE (pc = "urls" /\ Goto("crl")) \/ (pc = "crl" /\ Goto("status"))
    <2>1. /\ pc \in {"urls", "crl"} /\ pc' \in {"crl", "status"}
          /\ UNCHANGED <<inst, instCurrent, issue>>
      BY <1>4 DEF Goto
    <2>2. QED
      BY <1>1, <2>1, PKIGoto DEF Generated
  <1>5. QED
    BY <1>2, <1>3, <1>4

(* The status stores the copy only over the version that the copy is of.   *)
LEMMA PKIStatus ==
  ASSUME PKIInv, Status
  PROVE  PKIInv'
  <1>1. /\ pc = "status"
        /\ UNCHANGED <<engine, mApi, mCleaned, mWorker, drifts, lastGen>>
        /\ UNCHANGED <<mount, lastMount, cas, signed, spec, cache, export>>
    BY DEF Status, engine, mKube, pki, kube, informer, secrets
  <1>2. MountInv'
    <2>1. lastGen' \in Nat /\ lastGen <= lastGen'
      BY <1>1 DEF PKIInv, MountInv, MTyped
    <2>2. QED
      BY <1>1, <2>1, OtherResources DEF PKIInv
  <1>3. pc' = "idle" /\ inst' = NoConfig /\ instCurrent' = FALSE /\ issue' = FALSE
    BY DEF Status, Done
  <1>4. CASE UNCHANGED <<kube, informer>>
    <2>1. UNCHANGED <<api, cacheCurrent>>
      BY <1>4 DEF kube, informer
    <2>2. PKITyped' /\ Copies' /\ Exports'
      BY <1>1, <1>3, <2>1, NoConfigFacts DEF PKIInv, PKITyped, Copies, Exports
    <2>3. SetUp'
      BY <1>1, <1>3, <2>1, NoConfigFacts
      DEF PKIInv, SetUp, Unreplaced, RecordIsTrue, HasChain, Generated
    <2>4. QED
      BY <1>2, <2>2, <2>3 DEF PKIInv
  <1>5. CASE instCurrent /\ api' = Outcome /\ cacheCurrent' = FALSE
    <2>1. inst \in Config /\ issue \in BOOLEAN /\ inst.uid = api.uid /\ inst.uid # 0
      BY <1>1, <1>5 DEF PKIInv, PKITyped, Copies
    <2>2. /\ api' \in Config /\ api'.uid = inst.uid /\ api'.generated = inst.generated
          /\ api'.exported = inst.exported /\ api'.signed = inst.signed
          /\ issue => api'.success = inst.success
      BY <1>5, <2>1 DEF Outcome, Config
    <2>3. PKITyped' /\ Copies'
      BY <1>1, <1>3, <1>5, <2>1, <2>2, NoConfigFacts DEF PKIInv, PKITyped, Copies
    <2>4. Exports'
      BY <1>1, <1>3, <1>5, <2>1, <2>2, NoConfigFacts DEF PKIInv, Exports
    <2>5. Unreplaced => RecordIsTrue(api)'
      BY <1>1, <2>2 DEF PKIInv, SetUp, RecordIsTrue, HasChain
    <2>6. SetUp'
      BY <1>1, <1>3, <2>5, NoConfigFacts
      DEF PKIInv, SetUp, Unreplaced, RecordIsTrue, HasChain, Generated
    <2>7. QED
      BY <1>2, <2>3, <2>4, <2>6 DEF PKIInv
  <1>6. QED
    BY <1>4, <1>5 DEF Status

LEMMA PKIRestart ==
  ASSUME PKIInv, Crash
  PROVE  PKIInv'
  <1>1. /\ MRestart /\ cache' = NoConfig /\ cacheCurrent' = (api.uid = 0)
        /\ pc' = "idle" /\ inst' = NoConfig /\ instCurrent' = FALSE /\ issue' = FALSE
        /\ UNCHANGED <<mount, lastMount, cas, signed, spec, api, export>>
    BY DEF Crash, MRestart, engine, pki, kube, secrets
  <1>2. MountInv'
    BY <1>1, RestartStep DEF PKIInv
  <1>3. PKITyped' /\ Copies' /\ Exports'
    BY <1>1, NoConfigFacts DEF PKIInv, PKITyped, Copies, Exports
  <1>4. SetUp'
    BY <1>1, NoConfigFacts
    DEF PKIInv, SetUp, Unreplaced, RecordIsTrue, HasChain, Generated
  <1>5. QED
    BY <1>2, <1>3, <1>4 DEF PKIInv

LEMMA PKIStutter ==
  ASSUME PKIInv, UNCHANGED vars
  PROVE  PKIInv'
  <1>1. /\ UNCHANGED <<engine, mApi, mCleaned, mWorker, drifts, lastGen>>
        /\ UNCHANGED <<mount, lastMount, cas, signed, spec, api, cache, cacheCurrent,
                       pc, inst, instCurrent, issue, export>>
    BY DEF vars, mVars, engine, mKube, pki, kube, informer, worker, secrets
  <1>2. MountInv'
    <2>1. lastGen' \in Nat /\ lastGen <= lastGen'
      BY <1>1 DEF PKIInv, MountInv, MTyped
    <2>2. QED
      BY <1>1, <2>1, OtherResources DEF PKIInv
  <1>3. PKITyped' /\ Copies' /\ Exports'
    BY <1>1 DEF PKIInv, PKITyped, Copies, Exports
  <1>4. SetUp'
    BY <1>1 DEF PKIInv, SetUp, Unreplaced, RecordIsTrue, HasChain
  <1>5. QED
    BY <1>2, <1>3, <1>4 DEF PKIInv

-----------------------------------------------------------------------------
(* The invariant of the mount and the configuration holds in every state   *)
(* of every behaviour.                                                     *)
THEOREM EnginesInvariant == Spec => []PKIInv
  <1>1. Init => PKIInv
    BY PKIInit
  <1>2. PKIInv /\ [Next]_vars => PKIInv'
    <2>1. SUFFICES ASSUME PKIInv, [Next]_vars PROVE PKIInv'
      OBVIOUS
    <2>2. CASE UserCreate \/ UserEdit \/ SignExternally \/ UserDelete
      BY <2>1, <2>2, PKIUsers
    <2>3. CASE CollectExport \/ MountStep \/ Watch \/ Crash
      BY <2>1, <2>3, CollectExportStep, MountStepPreserves, WatchStep, PKIRestart
    <2>4. CASE Step
      BY <2>1, <2>4, PKITake, GenerateStep, ExportStep, SignStep, SetSignedStep,
         WriteConfigSteps, PKIStatus DEF Step
    <2>5. CASE UNCHANGED vars
      BY <2>1, <2>5, PKIStutter
    <2>6. QED
      BY <2>1, <2>2, <2>3, <2>4, <2>5 DEF Next
  <1>3. QED
    BY <1>1, <1>2, PTL DEF Spec

(* After the cleanup of a mount's resource there is no mount, through lost *)
(* replies, conflicts and restarts: manageCleanUpLogic lets go of the      *)
(* resource only after Vault has disabled the mount.                       *)
THEOREM MountGoesWithResource == Spec => []UnmountedWithResource
  <1>1. PKIInv => UnmountedWithResource
    BY MountPromises DEF PKIInv
  <1>2. QED
    BY <1>1, EnginesInvariant, PTL

(* While others leave the mounts alone, a mount's resource reports success *)
(* only of a mount that is there, with its accessor and its configuration. *)
THEOREM MountIsAsReported == Spec => []SuccessIsMounted
  <1>1. PKIInv => SuccessIsMounted
    BY MountPromises DEF PKIInv
  <1>2. QED
    BY <1>1, EnginesInvariant, PTL

(* The Secret that a PKI configuration reports as exported holds a key     *)
(* generated for this very resource.                                       *)
THEOREM ExportIsOwn == Spec => []ExportedIsOwn
  <1>1. PKIInv => ExportedIsOwn
    BY DEF PKIInv, Exports, ExportedIsOwn
  <1>2. QED
    BY <1>1, EnginesInvariant, PTL

(* A PKI configuration that reports success has its CA in Vault, and an    *)
(* intermediate the certificate of one of its keys, as long as its mount   *)
(* is the first one at the path.                                           *)
THEOREM EngineIsSetUp == Spec => []SuccessIsSetUp
  <1>1. PKIInv => SuccessIsSetUp
    BY DEF PKIInv, SetUp, Unreplaced, RecordIsTrue, HasChain, SuccessIsSetUp
  <1>2. QED
    BY <1>1, EnginesInvariant, PTL

(* What the status of a PKI configuration records of its progress is never *)
(* lost: what ManageOutcome stores is a copy of the stored version, with   *)
(* no less recorded.                                                       *)
THEOREM ProgressIsKept == Spec => ProgressKept
  <1> DEFINE Kept == api'.uid = api.uid
                       => \A f \in {"generated", "exported", "signed"} :
                            api[f] => api'[f]
  <1>1. PKIInv /\ [Next]_vars => [Kept]_vars
    <2>1. SUFFICES ASSUME PKIInv, Next PROVE Kept
      OBVIOUS
    <2>2. SUFFICES ASSUME api'.uid = api.uid
                   PROVE  /\ api.generated => api'.generated
                          /\ api.exported => api'.exported
                          /\ api.signed => api'.signed
      OBVIOUS
    <2>3. lastGen \in Nat /\ api \in Config /\ inst \in Config
      BY <2>1 DEF PKIInv, MountInv, MTyped, PKITyped
    <2>4. CASE api' = api
      BY <2>4
    <2>5. CASE UserCreate
      <3>1. api.uid = 0 /\ api' = [NoConfig EXCEPT !.uid = lastGen + 1, !.gen = lastGen + 1]
        BY <2>5 DEF UserCreate, StoreByOther
      <3>2. api'.uid = lastGen + 1
        BY <3>1 DEF NoConfig
      <3>3. QED
        BY <2>2, <2>3, <3>1, <3>2
    <2>6. CASE UserEdit \/ SignExternally
      <3>1. api' = [api EXCEPT !.gen = lastGen + 1]
        BY <2>6 DEF UserEdit, SignExternally, StoreByOther
      <3>2. QED
        BY <2>3, <3>1 DEF Config
    <2>7. CASE UserDelete
      <3>1. api.uid # 0 /\ api' = NoConfig
        BY <2>7 DEF UserDelete, StoreByOther
      <3>2. QED
        BY <2>2, <3>1, NoConfigFacts
    <2>8. CASE Status /\ api' # api
      <3>1. instCurrent /\ api' = Outcome
        BY <2>8 DEF Status, kube
      <3>2. /\ api'.generated = inst.generated /\ api'.exported = inst.exported
            /\ api'.signed = inst.signed
        BY <2>3, <3>1 DEF Outcome, Config
      <3>3. QED
        BY <2>1, <3>1, <3>2 DEF PKIInv, Copies
    <2>9. ASSUME CollectExport \/ MountStep \/ Watch \/ Crash \/ Take \/ Generate \/ Export
                 \/ Sign \/ SetSigned \/ WriteUrls \/ WriteCrl
          PROVE  api' = api
      BY <2>9 DEF CollectExport, MountStep, Watch, Crash, Take, Generate, Export, Sign,
                  SetSigned, WriteUrls, WriteCrl, kube
    <2>10. QED
      BY <2>1, <2>4, <2>5, <2>6, <2>7, <2>8, <2>9 DEF Next, Step
  <1>2. QED
    BY <1>1, EnginesInvariant, PTL DEF Spec, ProgressKept
=============================================================================
