------------------------ MODULE VaultResourceProofs ------------------------
(***************************************************************************)
(* Proofs about VaultResource for every set of resources and paths, every  *)
(* way resources share paths, and every bound: the inductive invariant     *)
(* IInv, and what follows from it.                                         *)
(***************************************************************************)
EXTENDS VaultResource, TLAPS

-----------------------------------------------------------------------------
(* What the operators on objects return.                                   *)
LEMMA AbsentFacts ==
    /\ Absent \in Object /\ ~Exists(Absent)
    /\ Absent.gen = 0 /\ Absent.uid = 0
    /\ ~Absent.deleting /\ ~Absent.finalizer /\ ~Absent.held
  BY DEF Absent, Object, Exists, CondTypes

LEMMA CreatedFacts ==
  ASSUME NEW g \in Nat, g # 0
  PROVE  /\ Created(g) \in Object /\ Exists(Created(g))
         /\ Created(g).uid = g /\ Created(g).gen = g
         /\ ~Created(g).deleting /\ ~Created(g).finalizer
  BY DEF Created, Absent, Object, Exists, CondTypes

LEMMA EditedFacts ==
  ASSUME NEW obj \in Object, NEW g \in Nat
  PROVE  /\ Edited(obj, g) \in Object
         /\ Edited(obj, g).uid = obj.uid /\ Edited(obj, g).gen = g
         /\ Edited(obj, g).deleting = obj.deleting
         /\ Edited(obj, g).finalizer = obj.finalizer
         /\ Edited(obj, g).conds = obj.conds
  BY DEF Edited, Object

LEMMA MarkedDeletedFacts ==
  ASSUME NEW obj \in Object, NEW g \in Nat, NEW f \in BOOLEAN
  PROVE  LET new == MarkedDeleted(obj, g, f) IN
         /\ new \in Object
         /\ new.uid = obj.uid /\ new.gen = g /\ new.deleting
         /\ new.finalizer = obj.finalizer /\ new.conds = obj.conds
  BY DEF MarkedDeleted, Object

LEMMA WithFinalizerFacts ==
  ASSUME NEW obj \in Object
  PROVE  LET new == WithFinalizer(obj) IN
         /\ new \in Object
         /\ new.uid = obj.uid /\ new.gen = obj.gen
         /\ new.deleting = obj.deleting
         /\ new.finalizer /\ new.conds = obj.conds
  BY DEF WithFinalizer, Object

LEMMA WithoutFinalizerFacts ==
  ASSUME NEW obj \in Object
  PROVE  LET new == WithoutFinalizer(obj) IN
         /\ new \in Object
         /\ \/ new = Absent
            \/ /\ new.uid = obj.uid /\ new.gen = obj.gen
               /\ new.deleting = obj.deleting /\ ~new.finalizer
               /\ new.conds = obj.conds
  BY AbsentFacts DEF WithoutFinalizer, Object

LEMMA ReleasedFacts ==
  ASSUME NEW obj \in Object
  PROVE  LET new == Released(obj) IN
         /\ new \in Object
         /\ \/ new = Absent
            \/ /\ new.uid = obj.uid /\ new.gen = obj.gen
               /\ new.deleting = obj.deleting
               /\ new.finalizer = obj.finalizer
               /\ new.conds = obj.conds
  BY AbsentFacts DEF Released, Object

(* Recording the outcome of a cycle changes nothing but the conditions,    *)
(* and never loses a recorded success.                                     *)
LEMMA ConditionFacts ==
  ASSUME NEW obj \in Object, NEW fail \in BOOLEAN, obj.gen # 0
  PROVE  LET new == AddOrReplaceCondition(obj, OutcomeCondition(fail)) IN
         /\ new \in Object
         /\ new.uid = obj.uid /\ new.gen = obj.gen
         /\ new.deleting = obj.deleting /\ new.finalizer = obj.finalizer
         /\ Succeeded(obj) => Succeeded(new)
         /\ ~fail => Succeeded(new)
         /\ new.conds["ReconcileSuccessful"]
              = IF fail THEN obj.conds["ReconcileSuccessful"] ELSE obj.gen
  <1> DEFINE type == OutcomeCondition(fail)
             new == AddOrReplaceCondition(obj, type)
  <1>1. type \in CondTypes
    BY DEF OutcomeCondition, CondTypes
  <1>2. /\ new.uid = obj.uid /\ new.gen = obj.gen
        /\ new.deleting = obj.deleting /\ new.finalizer = obj.finalizer
        /\ new.held = obj.held
        /\ new.conds = [obj.conds EXCEPT ![type] = obj.gen]
        /\ new = [obj EXCEPT !.conds = new.conds]
    BY DEF AddOrReplaceCondition, Object
  <1>3. new.conds \in [CondTypes -> Nat]
    BY <1>1, <1>2 DEF Object
  <1>4. new \in Object
    BY <1>2, <1>3 DEF Object
  <1>5. Succeeded(obj) => Succeeded(new)
    BY <1>1, <1>2 DEF Succeeded, Object, CondTypes
  <1>6. ~fail => Succeeded(new)
    BY <1>1, <1>2 DEF Succeeded, Object, CondTypes, OutcomeCondition
  <1>7. new.conds["ReconcileSuccessful"]
          = IF fail THEN obj.conds["ReconcileSuccessful"] ELSE obj.gen
    BY <1>1, <1>2 DEF Object, CondTypes, OutcomeCondition
  <1>8. QED
    BY <1>2, <1>4, <1>5, <1>6, <1>7

-----------------------------------------------------------------------------
(* The initial states.                                                     *)

LEMMA InitIInv == Init => IInv
  <1> SUFFICES ASSUME Init PROVE IInv
    OBVIOUS
  <1>1. TypeOK
    <2>1. NoEntry \in Entry
      BY DEF NoEntry, EntryOf, Entry
    <2>2. "idle" \in PCs
      BY DEF PCs
    <2>3. 0 \in 0..MaxFaults /\ 0 \in 0..MaxDrifts
      BY ConstantTypes
    <2>4. QED
      BY <2>1, <2>2, <2>3, AbsentFacts DEF Init, TypeOK
  <1>2. CopiesOrdered
    BY ConstantTypes, AbsentFacts DEF Init, CopiesOrdered, CopyOrder, WellFormed, Exists, Absent
  <1>3. VaultBehind /\ NothingLeftBehind
    BY ConstantTypes
       DEF Init, VaultBehind, NothingLeftBehind, NoEntry, EntryOf
  <1>4. RetiredNotWritten
    BY ConstantTypes, AbsentFacts DEF Init, RetiredNotWritten
  <1>5. PhaseKnows
    BY DEF Init, PhaseKnows, CleanPhase
  <1>6. QED
    BY <1>1, <1>2, <1>3, <1>4, <1>5 DEF IInv

-----------------------------------------------------------------------------
(* Requests accepted from users, the garbage collector: the version that   *)
(* replaces the stored one is either the same generation with nothing new  *)
(* to reconcile, or a generation never given out before.                   *)

LEMMA StoreByOtherIInv ==
  ASSUME NEW o \in Objects, NEW obj \in Object,
         IInv, StoreByOther(o, obj),
         lastGen' \in [Objects -> Nat],
         \A x \in Objects : x # o => lastGen'[x] = lastGen[x],
         lastGen[o] <= lastGen'[o],
         ~Exists(obj) => obj = Absent,
         Exists(obj) => obj.uid <= obj.gen /\ obj.gen = lastGen'[o],
         obj.finalizer => o \in Deletable /\ Succeeded(obj),
         Exists(obj) =>
           \/ Exists(api[o]) /\ obj.uid = api[o].uid
              /\ (api[o].deleting => obj.deleting)
           \/ lastGen[o] < obj.uid,
         Exists(obj) /\ ~obj.deleting => retired[o] < obj.gen
  PROVE  IInv'
  <1>1. TypeOK'
    BY DEF IInv, TypeOK, StoreByOther, world
  <1>2. CopiesOrdered'
    <2>1. /\ UNCHANGED <<cache, cur, inst>>
          /\ api' = [api EXCEPT ![o] = obj]
          /\ cacheCurrent' = [cacheCurrent EXCEPT ![o] = FALSE]
          /\ instCurrent' => instCurrent /\ cur # o
      BY DEF StoreByOther, IInv, TypeOK
    <2>2. ASSUME NEW x \in Objects, x # o PROVE CopyOrder(x)'
      <3>1. CopyOrder(x)
        BY DEF IInv, CopiesOrdered
      <3>2. /\ lastGen'[x] = lastGen[x] /\ api'[x] = api[x]
            /\ cacheCurrent'[x] = cacheCurrent[x]
        BY <2>1, <2>2 DEF IInv, TypeOK
      <3>3. QED
        BY <2>1, <3>1, <3>2 DEF CopyOrder, WellFormed
    <2>3. CopyOrder(o)'
      <3>1. CopyOrder(o)
        BY DEF IInv, CopiesOrdered
      <3>2. api'[o] = obj /\ ~cacheCurrent'[o] /\ (cur = o => ~instCurrent')
        BY <2>1 DEF IInv, TypeOK
      <3>3. /\ lastGen[o] \in Nat /\ lastGen'[o] \in Nat
            /\ api[o] \in Object /\ cache[o] \in Object /\ inst \in Object
        BY DEF IInv, TypeOK
      <3>4. ASSUME NEW old \in Object, WellFormed(old, o), Exists(old)
            PROVE  WellFormed(old, o)'
        BY <3>3, <3>4 DEF WellFormed, Object
      <3>5. WellFormed(cache[o], o)' /\ (cur = o => WellFormed(inst, o)')
        BY <2>1, <3>1, <3>3, <3>4 DEF CopyOrder, WellFormed
      <3>6. ASSUME NEW old \in Object, WellFormed(old, o), Exists(old),
                   Exists(api[o]) => Precedes(old, api[o]), Exists(obj)
            PROVE  Precedes(old, obj)
        BY <3>1, <3>3, <3>6 DEF Precedes, WellFormed, CopyOrder, Object
      <3>7. WellFormed(api[o], o)'
        BY <3>2, <3>3 DEF WellFormed, Object
      <3>8. QED
        BY <2>1, <3>1, <3>2, <3>3, <3>5, <3>6, <3>7 DEF CopyOrder
    <2>4. QED
      BY <2>2, <2>3 DEF CopiesOrdered
  <1>3. VaultBehind' /\ NothingLeftBehind'
    <2>1. \A x \in Objects : /\ vault[PathOf[x]].gen \in Nat
                             /\ lastGen[x] \in Nat /\ lastGen'[x] \in Nat
                             /\ lastGen[x] <= lastGen'[x]
      BY ConstantTypes DEF IInv, TypeOK, Entry
    <2>2. UNCHANGED <<vault, retired, cache, cur, inst>>
      BY DEF StoreByOther, world
    <2>3. QED
      BY <2>1, <2>2 DEF IInv, VaultBehind, NothingLeftBehind
  <1>4. RetiredNotWritten'
    <2>1. \A x \in Objects : /\ retired[x] \in Nat
                             /\ lastGen[x] \in Nat /\ lastGen'[x] \in Nat
                             /\ lastGen[x] <= lastGen'[x]
      BY DEF IInv, TypeOK
    <2>2. /\ UNCHANGED <<retired, cache, cur, inst>>
          /\ api' = [api EXCEPT ![o] = obj]
      BY DEF StoreByOther, world
    <2>3. QED
      BY <2>1, <2>2 DEF IInv, TypeOK, RetiredNotWritten
  <1>5. PhaseKnows'
    BY DEF IInv, PhaseKnows, StoreByOther, world
  <1>6. QED
    BY <1>1, <1>2, <1>3, <1>4, <1>5 DEF IInv

LEMMA UserCreateIInv ==
  ASSUME NEW o \in Objects, IInv, UserCreate(o)
  PROVE  IInv'
  <1>1. /\ ~Exists(api[o]) /\ lastGen[o] \in Nat /\ retired[o] \in Nat
        /\ retired[o] <= lastGen[o]
    BY DEF UserCreate, IInv, TypeOK, RetiredNotWritten
  <1> PICK g : g = NextGen(o)
    OBVIOUS
  <1> PICK obj : obj = Created(g)
    OBVIOUS
  <1>2. g \in Nat /\ g # 0 /\ g > lastGen[o]
    BY <1>1 DEF NextGen
  <1>3. /\ lastGen' \in [Objects -> Nat] /\ lastGen'[o] = g
        /\ \A x \in Objects : x # o => lastGen'[x] = lastGen[x]
    BY <1>2 DEF UserCreate, Bump, IInv, TypeOK
  <1>4. /\ obj \in Object /\ Exists(obj) /\ obj.uid = g /\ obj.gen = g
        /\ ~obj.deleting /\ ~obj.finalizer
    BY <1>2, CreatedFacts
  <1>5. obj.uid <= obj.gen /\ retired[o] < obj.gen
    BY <1>1, <1>2, <1>4
  <1>6. StoreByOther(o, obj)
    BY DEF UserCreate
  <1>7. QED
    BY <1>1, <1>2, <1>3, <1>4, <1>5, <1>6, StoreByOtherIInv

LEMMA UserEditIInv ==
  ASSUME NEW o \in Objects, IInv, UserEdit(o)
  PROVE  IInv'
  <1>1. /\ Exists(api[o]) /\ api[o] \in Object
        /\ lastGen[o] \in Nat /\ retired[o] \in Nat
        /\ retired[o] <= lastGen[o] /\ CopyOrder(o)
    BY DEF UserEdit, IInv, TypeOK, RetiredNotWritten, CopiesOrdered
  <1> PICK g : g = NextGen(o)
    OBVIOUS
  <1> PICK obj : obj = Edited(api[o], g)
    OBVIOUS
  <1>2. g \in Nat /\ g # 0 /\ g > lastGen[o]
    BY <1>1 DEF NextGen
  <1>3. /\ lastGen' \in [Objects -> Nat] /\ lastGen'[o] = g
        /\ \A x \in Objects : x # o => lastGen'[x] = lastGen[x]
    BY <1>2 DEF UserEdit, Bump, IInv, TypeOK
  <1>4. /\ obj \in Object /\ obj.uid = api[o].uid /\ obj.gen = g
        /\ obj.deleting = api[o].deleting
        /\ obj.finalizer = api[o].finalizer /\ obj.conds = api[o].conds
    BY <1>1, <1>2, EditedFacts
  <1>5. /\ Exists(obj) /\ obj.uid <= obj.gen /\ retired[o] < obj.gen
        /\ obj.finalizer => o \in Deletable /\ Succeeded(obj)
    BY <1>1, <1>2, <1>4 DEF WellFormed, CopyOrder, Succeeded, Exists, Object
  <1>6. StoreByOther(o, obj)
    BY DEF UserEdit
  <1>7. QED
    BY <1>1, <1>2, <1>3, <1>4, <1>5, <1>6, StoreByOtherIInv

LEMMA UserDeleteIInv ==
  ASSUME NEW o \in Objects, IInv, UserDelete(o)
  PROVE  IInv'
  <1>1. /\ Exists(api[o]) /\ api[o] \in Object
        /\ lastGen[o] \in Nat /\ retired[o] \in Nat
        /\ retired[o] <= lastGen[o] /\ CopyOrder(o)
    BY DEF UserDelete, IInv, TypeOK, RetiredNotWritten, CopiesOrdered
  <1>2. CASE lastGen' = lastGen /\ StoreByOther(o, Absent)
    <2>1. lastGen' \in [Objects -> Nat] /\ lastGen'[o] = lastGen[o]
      BY <1>2 DEF IInv, TypeOK
    <2>2. QED
      BY <1>1, <1>2, <2>1, AbsentFacts, StoreByOtherIInv
  <1>3. ASSUME NEW f \in BOOLEAN, Bump(o),
               StoreByOther(o, MarkedDeleted(api[o], NextGen(o), f))
        PROVE  IInv'
    <2> PICK g : g = NextGen(o)
      OBVIOUS
    <2> PICK obj : obj = MarkedDeleted(api[o], g, f)
      OBVIOUS
    <2>2. g \in Nat /\ g # 0 /\ g > lastGen[o]
      BY <1>1 DEF NextGen
    <2>3. /\ lastGen' \in [Objects -> Nat] /\ lastGen'[o] = g
          /\ \A x \in Objects : x # o => lastGen'[x] = lastGen[x]
      BY <1>3, <2>2 DEF Bump, IInv, TypeOK
    <2>4. /\ obj \in Object /\ obj.uid = api[o].uid /\ obj.gen = g
          /\ obj.deleting
          /\ obj.finalizer = api[o].finalizer /\ obj.conds = api[o].conds
      BY <1>1, <2>2, MarkedDeletedFacts
    <2>5. /\ Exists(obj) /\ obj.uid <= obj.gen
          /\ obj.finalizer => o \in Deletable /\ Succeeded(obj)
      BY <1>1, <2>2, <2>4 DEF WellFormed, CopyOrder, Succeeded, Exists, Object
    <2>6. StoreByOther(o, obj)
      BY <1>3
    <2>7. QED
      BY <1>1, <2>2, <2>3, <2>4, <2>5, <2>6, StoreByOtherIInv
  <1>4. QED
    BY <1>2, <1>3 DEF UserDelete

LEMMA GarbageCollectIInv ==
  ASSUME NEW o \in Objects, IInv, GarbageCollect(o)
  PROVE  IInv'
  <1>1. /\ api[o] \in Object
        /\ lastGen[o] \in Nat /\ retired[o] \in Nat
        /\ retired[o] <= lastGen[o] /\ CopyOrder(o)
        /\ Exists(api[o]) /\ ~api[o].deleting => retired[o] < api[o].gen
    BY DEF IInv, TypeOK, RetiredNotWritten, CopiesOrdered
  <1> PICK obj : obj = Released(api[o])
    OBVIOUS
  <1>2. lastGen' = lastGen /\ lastGen' \in [Objects -> Nat]
    BY DEF GarbageCollect, IInv, TypeOK
  <1>3. Exists(api[o])
    BY <1>1, AbsentFacts DEF GarbageCollect, CopyOrder, WellFormed
  <1>4. /\ obj \in Object
        /\ \/ obj = Absent
           \/ /\ obj.uid = api[o].uid /\ obj.gen = api[o].gen
              /\ obj.deleting = api[o].deleting
              /\ obj.finalizer = api[o].finalizer /\ obj.conds = api[o].conds
    BY <1>1, ReleasedFacts
  <1>5. StoreByOther(o, obj)
    BY DEF GarbageCollect
  <1>6. CASE obj = Absent
    BY <1>1, <1>2, <1>4, <1>5, <1>6, AbsentFacts, StoreByOtherIInv
  <1>7. CASE obj # Absent
    <2>1. /\ obj.uid <= obj.gen
          /\ obj.finalizer => o \in Deletable /\ Succeeded(obj)
      BY <1>1, <1>3, <1>4, <1>7 DEF WellFormed, CopyOrder, Succeeded
    <2>2. /\ Exists(obj) /\ obj.gen = lastGen'[o] /\ obj.uid = api[o].uid
          /\ obj.deleting = api[o].deleting
          /\ ~obj.deleting => retired[o] < obj.gen
      BY <1>1, <1>2, <1>3, <1>4, <1>7 DEF CopyOrder, Exists
    <2>3. QED
      BY <1>1, <1>2, <1>3, <1>4, <1>5, <2>1, <2>2, StoreByOtherIInv
  <1>8. QED
    BY <1>6, <1>7

-----------------------------------------------------------------------------
(* The informer, drift, and a crash.                                       *)

LEMMA DriftIInv ==
  ASSUME NEW p \in Paths, IInv, Drift(p)
  PROVE  IInv'
  <1>1. PICK e \in {NoEntry, Foreign} : vault' = [vault EXCEPT ![p] = e]
    BY DEF Drift
  <1>2. e \in Entry /\ e.owner = Nobody
    BY DEF NoEntry, Foreign, EntryOf, Entry
  <1>3. UNCHANGED <<api, lastGen, retired, cache, cacheCurrent, queue, cur,
                    inst, instCurrent, pc, issue, faults>>
    BY DEF Drift, kube, informer, worker
  <1>4. vault' \in [Paths -> Entry]
    BY <1>1, <1>2 DEF IInv, TypeOK
  <1>5. drifts' \in 0..MaxDrifts
    BY ConstantTypes DEF Drift, IInv, TypeOK
  <1>6. \A o \in Objects : vault'[PathOf[o]].owner = o =>
                             vault'[PathOf[o]] = vault[PathOf[o]]
    BY <1>1, <1>2, ConstantTypes DEF IInv, TypeOK
  <1>7. \A o \in Objects : vault[PathOf[o]].owner # o =>
                             vault'[PathOf[o]].owner # o
    BY <1>6
  <1>8. TypeOK'
    BY <1>3, <1>4, <1>5 DEF IInv, TypeOK
  <1>9. CopiesOrdered' /\ RetiredNotWritten'
    BY <1>3 DEF IInv, CopiesOrdered, CopyOrder, WellFormed, RetiredNotWritten
  <1>10. VaultBehind' /\ NothingLeftBehind'
    BY <1>3, <1>6 DEF IInv, VaultBehind, NothingLeftBehind
  <1>11. PhaseKnows'
    <2>1. pc = "removeFinalizer" => cur \in Objects
      BY DEF IInv, TypeOK
    <2>2. QED
      BY <1>3, <1>7, <2>1 DEF IInv, PhaseKnows
  <1>12. QED
    BY <1>8, <1>9, <1>10, <1>11 DEF IInv

LEMMA WatchIInv ==
  ASSUME NEW o \in Objects, IInv, Watch(o)
  PROVE  IInv'
  <1>1. PICK new : /\ new = Absent \/ new = api[o]
                   /\ cache' = [cache EXCEPT ![o] = new]
                   /\ queue' \in {queue, queue \union {o}}
                   /\ cacheCurrent'[o] => new = api[o]
                   /\ cacheCurrent' \in [Objects -> BOOLEAN]
                   /\ \A x \in Objects : x # o =>
                        cacheCurrent'[x] = cacheCurrent[x]
    <2>1. ~Exists(api[o]) => api[o] = Absent
      BY DEF IInv, CopiesOrdered, CopyOrder, WellFormed
    <2>2. cacheCurrent \in [Objects -> BOOLEAN]
      BY DEF IInv, TypeOK
    <2>3. QED
      BY <2>1, <2>2 DEF Watch
  <1>2. UNCHANGED <<api, lastGen, retired, cur, inst, instCurrent, pc, issue,
                    vault, drifts, faults>>
    BY DEF Watch, kube, worker, world
  <1>3. new \in Object
    BY <1>1, AbsentFacts DEF IInv, TypeOK
  <1>4. cache' \in [Objects -> Object] /\ cache'[o] = new
    BY <1>1, <1>3 DEF IInv, TypeOK
  <1>5. TypeOK'
    BY <1>1, <1>2, <1>4 DEF IInv, TypeOK
  <1>6. CopiesOrdered'
    <2>1. ASSUME NEW x \in Objects, x # o PROVE CopyOrder(x)'
      <3>1. CopyOrder(x) /\ cache'[x] = cache[x]
        BY <1>1, <2>1 DEF IInv, CopiesOrdered, TypeOK
      <3>2. QED
        BY <1>1, <1>2, <2>1, <3>1 DEF CopyOrder, WellFormed
    <2>2. CopyOrder(o)'
      <3>1. CopyOrder(o) /\ api[o] \in Object
        BY DEF IInv, CopiesOrdered, TypeOK
      <3>2. Precedes(api[o], api[o])
        BY <3>1 DEF Precedes, Object
      <3>3. QED
        BY <1>1, <1>2, <1>4, <3>1, <3>2, AbsentFacts DEF CopyOrder, WellFormed
    <2>3. QED
      BY <2>1, <2>2 DEF CopiesOrdered
  <1>7. ASSUME NEW x \in Objects PROVE cache'[x] \in {cache[x], api[x], Absent}
    BY <1>1, <1>4 DEF IInv, TypeOK
  <1>8. VaultBehind'
    <2>1. \A x \in Objects : Exists(api[x]) => api[x].gen = lastGen[x]
      BY DEF IInv, CopiesOrdered, CopyOrder
    <2>2. QED
      BY <1>2, <1>7, <2>1, AbsentFacts DEF IInv, VaultBehind
  <1>9. RetiredNotWritten'
    BY <1>2, <1>7, AbsentFacts DEF IInv, RetiredNotWritten
  <1>10. PhaseKnows' /\ NothingLeftBehind'
    BY <1>2 DEF IInv, PhaseKnows, NothingLeftBehind
  <1>11. QED
    BY <1>5, <1>6, <1>8, <1>9, <1>10 DEF IInv

LEMMA ResyncIInv ==
  ASSUME NEW o \in Objects, IInv, Resync(o)
  PROVE  IInv'
  <1>1. UNCHANGED <<api, lastGen, retired, cache, cacheCurrent, cur, inst,
                    instCurrent, pc, issue, vault, drifts, faults>>
    BY DEF Resync, kube, informer, worker, world
  <1>2. queue' \in SUBSET Objects
    BY DEF Resync, IInv, TypeOK
  <1>3. QED
    BY <1>1, <1>2 DEF IInv, TypeOK, CopiesOrdered, CopyOrder, WellFormed,
       VaultBehind, RetiredNotWritten, PhaseKnows, NothingLeftBehind

LEMMA TakeIInv ==
  ASSUME NEW o \in Objects, IInv, Take(o)
  PROVE  IInv'
  <1>1. /\ UNCHANGED <<api, lastGen, retired, cache, cacheCurrent, vault,
                       drifts, faults>>
        /\ queue' \in SUBSET Objects
    BY DEF Take, kube, informer, world, IInv, TypeOK
  <1>2. CASE UNCHANGED worker
    BY <1>1, <1>2 DEF worker, IInv, TypeOK, CopiesOrdered, CopyOrder,
       WellFormed, VaultBehind, RetiredNotWritten, PhaseKnows, NothingLeftBehind
  <1>3. CASE /\ Exists(cache[o])
             /\ cur' = o /\ inst' = cache[o] /\ instCurrent' = cacheCurrent[o]
             /\ pc' = "login" /\ issue' = FALSE
    <2>1. TypeOK'
      <3>1. o # Nobody /\ pc' \in PCs
        BY <1>3, ConstantTypes DEF PCs
      <3>2. QED
        BY <1>1, <1>3, <3>1 DEF IInv, TypeOK
    <2>2. CopiesOrdered'
      <3>1. Precedes(cache[o], cache[o])
        BY DEF IInv, TypeOK, Precedes, Object
      <3>2. QED
        BY <1>1, <1>3, <3>1 DEF IInv, CopiesOrdered, CopyOrder, WellFormed
    <2>3. VaultBehind' /\ RetiredNotWritten' /\ NothingLeftBehind'
      BY <1>1, <1>3
         DEF IInv, VaultBehind, RetiredNotWritten, NothingLeftBehind
    <2>4. PhaseKnows'
      BY <1>3 DEF PhaseKnows, CleanPhase
    <2>5. QED
      BY <2>1, <2>2, <2>3, <2>4 DEF IInv
  <1>4. QED
    BY <1>2, <1>3 DEF Take

(* A cycle ends, or the process dies, with nothing else changed.           *)
LEMMA ResetIInv ==
  ASSUME IInv,
         UNCHANGED <<api, lastGen, retired, vault, drifts>>,
         cache' \in [Objects -> Object],
         cacheCurrent' \in [Objects -> BOOLEAN],
         \A o \in Objects : /\ cache'[o] = cache[o] \/ cache'[o] = Absent
                            /\ cacheCurrent'[o] => cache'[o] = api[o],
         queue' \in SUBSET Objects, faults' \in 0..MaxFaults,
         cur' = Nobody, inst' = Absent, instCurrent' = FALSE,
         pc' = "idle", issue' = FALSE
  PROVE  IInv'
  <1>1. TypeOK'
    <2>1. pc' \in PCs
      BY DEF PCs
    <2>2. QED
      BY <2>1, AbsentFacts DEF IInv, TypeOK
  <1>2. CopiesOrdered'
    BY AbsentFacts, ConstantTypes
       DEF IInv, CopiesOrdered, CopyOrder, WellFormed
  <1>3. VaultBehind' /\ RetiredNotWritten' /\ NothingLeftBehind'
    BY AbsentFacts, ConstantTypes
       DEF IInv, VaultBehind, RetiredNotWritten, NothingLeftBehind
  <1>4. PhaseKnows'
    BY DEF PhaseKnows, CleanPhase
  <1>5. QED
    BY <1>1, <1>2, <1>3, <1>4 DEF IInv

LEMMA CrashIInv == IInv /\ Crash => IInv'
  <1> SUFFICES ASSUME IInv, Crash PROVE IInv'
    OBVIOUS
  <1>1. \A o \in Objects : ~Exists(api[o]) => api[o] = Absent
    BY DEF IInv, CopiesOrdered, CopyOrder, WellFormed
  <1>2. faults' \in 0..MaxFaults
    BY ConstantTypes DEF Crash, Fault, IInv, TypeOK
  <1>3. /\ cache' = [o \in Objects |-> Absent] /\ queue' = {}
        /\ cacheCurrent' = [o \in Objects |-> ~Exists(api[o])]
        /\ cur' = Nobody /\ inst' = Absent /\ instCurrent' = FALSE
        /\ pc' = "idle" /\ issue' = FALSE
        /\ UNCHANGED <<api, lastGen, retired, vault, drifts>>
    BY DEF Crash, kube, world
  <1>4. QED
    BY <1>1, <1>2, <1>3, AbsentFacts, ResetIInv

-----------------------------------------------------------------------------
(* The calls of a reconcile cycle.                                         *)

LEMMA FaultType ==
  ASSUME TypeOK, NoFault \/ Fault
  PROVE  faults' \in 0..MaxFaults
  BY ConstantTypes DEF TypeOK, NoFault, Fault

LEMMA CurIsObject ==
  ASSUME IInv, pc # "idle"
  PROVE  /\ cur \in Objects /\ PathOf[cur] \in Paths
         /\ CopyOrder(cur) /\ Exists(inst) /\ inst \in Object
  BY ConstantTypes DEF IInv, TypeOK, CopiesOrdered, CopyOrder

(* A cycle that ends without having stored anything in its last step.      *)
LEMMA DoneIInv ==
  ASSUME IInv, pc # "idle", NEW again \in BOOLEAN, Done(again),
         UNCHANGED <<kube, informer, world>>, NoFault \/ Fault
  PROVE  IInv'
  <1>1. faults' \in 0..MaxFaults
    BY FaultType DEF IInv
  <1>2. queue' \in SUBSET Objects
    BY CurIsObject DEF Done, IInv, TypeOK
  <1>3. /\ cur' = Nobody /\ inst' = Absent /\ instCurrent' = FALSE
        /\ pc' = "idle" /\ issue' = FALSE
        /\ UNCHANGED <<api, lastGen, retired, vault, drifts, cache, cacheCurrent>>
    BY DEF Done, kube, informer, world
  <1>4. /\ cache' \in [Objects -> Object]
        /\ cacheCurrent' \in [Objects -> BOOLEAN]
        /\ \A o \in Objects : cacheCurrent'[o] => cache'[o] = api[o]
    BY <1>3 DEF IInv, TypeOK, CopiesOrdered, CopyOrder
  <1>5. QED
    BY <1>1, <1>2, <1>3, <1>4, ResetIInv

(* A call that only moves the worker on.                                   *)
LEMMA MoveIInv ==
  ASSUME IInv, pc # "idle",
         UNCHANGED <<kube, informer, world, cur, inst, instCurrent, queue>>,
         pc' \in PCs \ {"idle"}, issue' \in BOOLEAN, NoFault \/ Fault,
         PhaseKnows'
  PROVE  IInv'
  <1>1. faults' \in 0..MaxFaults
    BY FaultType DEF IInv
  <1>2. UNCHANGED <<api, lastGen, retired, vault, drifts, cache, cacheCurrent>>
    BY DEF kube, informer, world
  <1>3. TypeOK'
    BY <1>1, <1>2 DEF IInv, TypeOK
  <1>4. CopiesOrdered'
    BY <1>2 DEF IInv, CopiesOrdered, CopyOrder, WellFormed
  <1>5. VaultBehind' /\ RetiredNotWritten' /\ NothingLeftBehind'
    BY <1>2 DEF IInv, VaultBehind, RetiredNotWritten, NothingLeftBehind
  <1>6. QED
    BY <1>3, <1>4, <1>5 DEF IInv

LEMMA FailIInv ==
  ASSUME IInv, pc # "idle", Fail, NoFault \/ Fault,
         UNCHANGED <<kube, informer, world>>
  PROVE  IInv'
  <1>1. pc' = "status" /\ pc' \in PCs \ {"idle"} /\ issue' \in BOOLEAN
    BY DEF Fail, PCs
  <1>2. PhaseKnows'
    BY <1>1 DEF PhaseKnows, CleanPhase
  <1>3. QED
    BY <1>1, <1>2, MoveIInv DEF Fail

LEMMA LoginIInv == IInv /\ Login => IInv'
  <1> SUFFICES ASSUME IInv, Login PROVE IInv'
    OBVIOUS
  <1>1. pc # "idle" /\ UNCHANGED <<kube, informer, world>>
    BY DEF Login, Begin
  <1>2. CASE Done(FALSE) /\ NoFault
    BY <1>1, <1>2, DoneIInv
  <1>3. CASE inst.deleting /\ inst.finalizer /\ Goto(CleanUpStep) /\ NoFault
    <2>1. cur \in Deletable /\ Succeeded(inst)
      BY <1>1, <1>3, CurIsObject DEF CopyOrder, WellFormed
    <2>2. pc' = "vaultDelete"
      BY <1>3, <2>1 DEF Goto, CleanUpStep
    <2>3. pc' \in PCs \ {"idle"} /\ issue' \in BOOLEAN
      BY <1>3, <2>2 DEF PCs, CleanPhase, Goto, IInv, TypeOK
    <2>4. PhaseKnows'
      BY <1>3, <2>2 DEF PhaseKnows, CleanPhase, Goto
    <2>5. QED
      BY <1>1, <1>3, <2>3, <2>4, MoveIInv DEF Goto
  <1>4. CASE ~inst.deleting /\ Goto("prepare") /\ NoFault
    <2>1. pc' \in PCs \ {"idle"} /\ issue' \in BOOLEAN
      BY <1>4 DEF PCs, WritePhase, Goto, IInv, TypeOK
    <2>2. PhaseKnows'
      BY <1>4 DEF PhaseKnows, CleanPhase, Goto
    <2>3. QED
      BY <1>1, <1>4, <2>1, <2>2, MoveIInv DEF Goto
  <1>5. CASE Fault /\ Fail
    BY <1>1, <1>5, FailIInv
  <1>6. QED
    BY <1>2, <1>3, <1>4, <1>5 DEF Login, Begin

LEMMA PrepareIInv == IInv /\ Prepare => IInv'
  <1> SUFFICES ASSUME IInv, Prepare PROVE IInv'
    OBVIOUS
  <1>1. pc = "prepare" /\ UNCHANGED <<kube, informer, world>>
    BY DEF Prepare
  <1>2. CASE Goto("vaultRead") /\ NoFault
    <2>1. pc' \in PCs \ {"idle"} /\ issue' \in BOOLEAN
      BY <1>2 DEF PCs, WritePhase, Goto, IInv, TypeOK
    <2>2. PhaseKnows'
      BY <1>1, <1>2 DEF PhaseKnows, CleanPhase, Goto, IInv
    <2>3. QED
      BY <1>1, <1>2, <2>1, <2>2, MoveIInv DEF Goto
  <1>3. CASE Fault /\ Fail
    BY <1>1, <1>3, FailIInv
  <1>4. QED
    BY <1>2, <1>3 DEF Prepare

LEMMA VaultReadIInv == IInv /\ VaultRead => IInv'
  <1> SUFFICES ASSUME IInv, VaultRead PROVE IInv'
    OBVIOUS
  <1>1. pc = "vaultRead" /\ UNCHANGED <<kube, informer, world>>
    BY DEF VaultRead
  <1>2. ASSUME NEW next \in {"status", "vaultWrite"}, Goto(next), NoFault
        PROVE  IInv'
    <2>1. pc' \in PCs \ {"idle"} /\ issue' \in BOOLEAN
      BY <1>2 DEF PCs, WritePhase, Goto, IInv, TypeOK
    <2>2. PhaseKnows'
      BY <1>1, <1>2 DEF PhaseKnows, CleanPhase, Goto, IInv
    <2>3. QED
      BY <1>1, <1>2, <2>1, <2>2, MoveIInv DEF Goto
  <1>3. CASE Fault /\ Fail
    BY <1>1, <1>3, FailIInv
  <1>4. QED
    BY <1>2, <1>3 DEF VaultRead

(* A step that changes the Vault entry of the resource under reconcile and *)
(* moves on.  The entry is removed or gets the content of the worker's     *)
(* copy, which is not retired and not older than what is there.            *)
LEMMA VaultStepIInv ==
  ASSUME IInv, pc \in {"vaultWrite", "vaultDelete"}, NEW e,
         vault' = [vault EXCEPT ![PathOf[cur]] = e],
         e = NoEntry \/ (e = EntryOf(cur, inst.gen) /\ ~inst.deleting),
         UNCHANGED <<kube, informer, drifts, cur, inst, instCurrent, queue>>,
         pc' \in PCs \ {"idle"}, issue' \in BOOLEAN, NoFault \/ Fault,
         PhaseKnows'
  PROVE  /\ IInv'
         /\ vault[PathOf[cur]].owner = cur => e = NoEntry \/ vault[PathOf[cur]].gen <= e.gen
  <1>1. /\ cur \in Objects /\ PathOf[cur] \in Paths /\ CopyOrder(cur)
        /\ Exists(inst) /\ inst \in Object
    BY CurIsObject
  <1>2. UNCHANGED <<api, lastGen, retired, cache, cacheCurrent>>
    BY DEF kube, informer
  <1>3. e \in Entry /\ inst.gen \in Nat
    BY <1>1 DEF NoEntry, EntryOf, Entry, Object
  <1>4. /\ vault' \in [Paths -> Entry]
        /\ vault'[PathOf[cur]] = e
        /\ \A p \in Paths : p # PathOf[cur] => vault'[p] = vault[p]
    BY <1>1, <1>3 DEF IInv, TypeOK
  <1>5. TypeOK'
    BY <1>2, <1>4, FaultType DEF IInv, TypeOK
  <1>6. CopiesOrdered' /\ RetiredNotWritten'
    BY <1>2 DEF IInv, CopiesOrdered, CopyOrder, WellFormed, RetiredNotWritten
  <1>7. /\ inst.gen <= lastGen[cur]
        /\ Exists(cache[cur]) => inst.gen <= cache[cur].gen
        /\ ~inst.deleting => retired[cur] < inst.gen
    BY <1>1 DEF CopyOrder, WellFormed, Precedes, IInv, RetiredNotWritten
  <1>8. \A o \in Objects :
          vault'[PathOf[o]].owner = o =>
            \/ vault'[PathOf[o]] = vault[PathOf[o]]
            \/ /\ o = cur /\ vault'[PathOf[o]].gen = inst.gen
               /\ ~inst.deleting
    BY <1>1, <1>4, ConstantTypes DEF NoEntry, EntryOf
  <1>9. VaultBehind'
    BY <1>2, <1>3, <1>7, <1>8 DEF IInv, VaultBehind
  <1>10. NothingLeftBehind'
    BY <1>2, <1>7, <1>8 DEF IInv, NothingLeftBehind
  <1>11. vault[PathOf[cur]].owner = cur => e = NoEntry \/ vault[PathOf[cur]].gen <= e.gen
    BY <1>1 DEF IInv, VaultBehind, EntryOf
  <1>12. QED
    BY <1>5, <1>6, <1>9, <1>10, <1>11 DEF IInv

LEMMA VaultWriteIInv ==
  ASSUME IInv, VaultWrite
  PROVE  /\ IInv'
         /\ vault' = vault
            \/ /\ vault' = [vault EXCEPT ![PathOf[cur]] = EntryOf(cur, inst.gen)]
               /\ vault[PathOf[cur]].owner = cur =>
                    vault[PathOf[cur]].gen <= inst.gen
  <1>1. /\ pc = "vaultWrite" /\ ~inst.deleting
        /\ UNCHANGED <<kube, informer, drifts>>
    BY DEF VaultWrite, IInv, PhaseKnows
  <1>2. CASE Fault /\ Fail /\ UNCHANGED vault
    BY <1>1, <1>2, FailIInv DEF world
  <1>3. CASE /\ vault' = [vault EXCEPT ![PathOf[cur]] = EntryOf(cur, inst.gen)]
             /\ (NoFault /\ Goto("status")) \/ (Fault /\ Fail)
    <2>1. /\ pc' = "status" /\ pc' \in PCs \ {"idle"} /\ issue' \in BOOLEAN
          /\ UNCHANGED <<cur, inst, instCurrent, queue>>
      BY <1>3 DEF Goto, Fail, PCs, IInv, TypeOK
    <2>2. PhaseKnows'
      BY <2>1 DEF PhaseKnows, CleanPhase
    <2>3. PICK e : e = EntryOf(cur, inst.gen)
      OBVIOUS
    <2>4. e.gen = inst.gen /\ e.owner = cur /\ cur # Nobody
      BY <1>1, <2>3, CurIsObject, ConstantTypes DEF EntryOf
    <2>5. QED
      BY <1>1, <1>3, <2>1, <2>2, <2>3, <2>4, VaultStepIInv DEF NoEntry, EntryOf
  <1>4. QED
    BY <1>2, <1>3 DEF VaultWrite

LEMMA VaultDeleteIInv == IInv /\ VaultDelete => IInv'
  <1> SUFFICES ASSUME IInv, VaultDelete PROVE IInv'
    OBVIOUS
  <1>1. /\ pc = "vaultDelete" /\ inst.deleting /\ inst.finalizer
        /\ UNCHANGED <<kube, informer, drifts>>
    BY DEF VaultDelete, IInv, PhaseKnows, CleanPhase
  <1>2. CASE Fault /\ Fail /\ UNCHANGED vault
    BY <1>1, <1>2, FailIInv DEF world
  <1>3. CASE /\ vault' = [vault EXCEPT ![PathOf[cur]] = NoEntry]
             /\ (NoFault /\ Goto("removeFinalizer")) \/ (Fault /\ Fail)
    <2>1. /\ pc' \in {"status", "removeFinalizer"}
          /\ pc' \in PCs \ {"idle"} /\ issue' \in BOOLEAN
          /\ UNCHANGED <<cur, inst, instCurrent, queue>>
      BY <1>3 DEF Goto, Fail, PCs, CleanPhase, IInv, TypeOK
    <2>2. vault'[PathOf[cur]] = NoEntry /\ NoEntry.owner # cur
      BY <1>1, <1>3, CurIsObject, ConstantTypes
         DEF IInv, TypeOK, NoEntry, EntryOf
    <2>3. PhaseKnows'
      BY <1>1, <2>1, <2>2 DEF PhaseKnows, CleanPhase
    <2>4. PICK e : e = NoEntry
      OBVIOUS
    <2>5. pc \in {"vaultWrite", "vaultDelete"}
      BY <1>1
    <2>6. NoFault \/ Fault
      BY <1>3
    <2>7. vault' = [vault EXCEPT ![PathOf[cur]] = e]
      BY <1>3, <2>4
    <2>8. UNCHANGED <<kube, informer, drifts, cur, inst, instCurrent, queue>>
      BY <1>1, <2>1
    <2>9. e = NoEntry \/ (e = EntryOf(cur, inst.gen) /\ ~inst.deleting)
      BY <2>4
    <2>10. pc' \in PCs \ {"idle"} /\ issue' \in BOOLEAN
      BY <2>1
    <2>11. QED
      BY <2>3, <2>5, <2>6, <2>7, <2>8, <2>9, <2>10, VaultStepIInv
  <1>4. QED
    BY <1>2, <1>3 DEF VaultDelete

-----------------------------------------------------------------------------
(* The worker's updates of its object.                                     *)

(* What the worker stores is the version it read with another status or    *)
(* finalizer, or nothing.  If it retires the resource, Vault has been      *)
(* cleaned; whatever copy the informer holds knows of the deletion, since  *)
(* it is at least as new as the worker's, which was the newest.            *)
LEMMA StoreByWorkerIInv ==
  ASSUME IInv, pc # "idle", NEW obj \in Object, StoreByWorker(obj),
         NoFault \/ Fault, UNCHANGED world,
         \/ obj = Absent
         \/ /\ obj.uid = inst.uid /\ obj.gen = inst.gen
            /\ obj.deleting = inst.deleting
            /\ obj.finalizer => cur \in Deletable /\ Succeeded(obj),
         \/ UNCHANGED retired
         \/ /\ retired' = [retired EXCEPT ![cur] = lastGen[cur]]
            /\ inst.deleting /\ vault[PathOf[cur]].owner # cur,
         queue' \in SUBSET Objects, pc' \in PCs, issue' \in BOOLEAN,
         instCurrent' \in BOOLEAN,
         \/ cur' = Nobody /\ inst' = Absent /\ pc' = "idle"
         \/ cur' = cur /\ inst' = inst /\ ~instCurrent' /\ pc' # "idle"
         \/ cur' = cur /\ inst' = obj /\ obj # Absent /\ pc' # "idle",
         PhaseKnows'
  PROVE  IInv'
  <1>1. /\ cur \in Objects /\ CopyOrder(cur) /\ cur # Nobody
        /\ Exists(inst) /\ inst \in Object /\ inst = api[cur]
        /\ inst.gen = lastGen[cur]
    BY CurIsObject, ConstantTypes DEF StoreByWorker, CopyOrder
  <1>2. /\ UNCHANGED <<lastGen, cache, vault, drifts>>
        /\ api' = [api EXCEPT ![cur] = obj]
        /\ cacheCurrent' = [cacheCurrent EXCEPT ![cur] = FALSE]
    BY DEF StoreByWorker, world
  <1>3. lastGen \in [Objects -> Nat] /\ retired \in [Objects -> Nat]
    BY DEF IInv, TypeOK
  <1>4. retired' \in [Objects -> Nat]
    BY <1>3
  <1>5. api' \in [Objects -> Object] /\ inst' \in Object
    BY <1>1, <1>2, AbsentFacts DEF IInv, TypeOK
  <1>6. TypeOK'
    BY <1>1, <1>2, <1>4, <1>5, FaultType DEF IInv, TypeOK
  <1>7. /\ api'[cur] = obj /\ ~cacheCurrent'[cur]
        /\ \A x \in Objects : x # cur => api'[x] = api[x]
                                         /\ cacheCurrent'[x] = cacheCurrent[x]
                                         /\ retired'[x] = retired[x]
    BY <1>1, <1>2 DEF IInv, TypeOK
  <1>8. CopiesOrdered'
    <2>1. ASSUME NEW x \in Objects, x # cur PROVE CopyOrder(x)'
      <3>1. CopyOrder(x)
        BY DEF IInv, CopiesOrdered
      <3>2. cur' # x
        BY <2>1, ConstantTypes
      <3>3. QED
        BY <1>2, <1>7, <2>1, <3>1, <3>2 DEF CopyOrder, WellFormed
    <2>2. ASSUME NEW c \in Objects, c = cur PROVE CopyOrder(c)'
      <3>1. /\ lastGen[c] \in Nat /\ cache[c] \in Object
            /\ inst.uid <= inst.gen /\ inst.gen \in Nat /\ inst.uid \in Nat
            /\ cache[c].gen \in Nat /\ cache[c].uid \in Nat
        BY <1>1, <2>2 DEF IInv, TypeOK, Object, CopyOrder, WellFormed
      <3>2. WellFormed(api[c], c)' /\ WellFormed(cache[c], c)'
        BY <1>1, <1>2, <1>7, <2>2, <3>1, AbsentFacts
           DEF CopyOrder, WellFormed, Exists
      <3>3. Exists(obj) => obj.gen = lastGen[c] /\ obj.uid = inst.uid
                           /\ obj.deleting = inst.deleting
        BY <1>1, <2>2, AbsentFacts
      <3>4. Exists(obj) /\ Exists(cache[c]) => Precedes(cache[c], obj)
        BY <1>1, <2>2, <3>3 DEF CopyOrder, Precedes
      <3>5. /\ Exists(obj) => Precedes(inst, obj) /\ Precedes(obj, obj)
            /\ Exists(cache[c]) /\ Exists(obj) => Precedes(obj, cache[c])
        BY <1>1, <2>2, <3>1, <3>3 DEF CopyOrder, Precedes
      <3>6. cur' = c => WellFormed(inst, c)' /\ Exists(inst')
        BY <1>1, <1>2, <1>7, <2>2, <3>1, <3>2, ConstantTypes
           DEF CopyOrder, WellFormed
      <3>7. QED
        BY <1>1, <1>2, <1>7, <2>2, <3>2, <3>3, <3>4, <3>5, <3>6, ConstantTypes
           DEF CopyOrder
    <2>3. QED
      BY <1>1, <2>1, <2>2 DEF CopiesOrdered
  <1>9. VaultBehind'
    BY <1>1, <1>2, ConstantTypes, AbsentFacts DEF IInv, VaultBehind
  <1>10. RetiredNotWritten' /\ NothingLeftBehind'
    <2>1. ASSUME NEW x \in Objects, x # cur
          PROVE  /\ retired'[x] = retired[x] /\ api'[x] = api[x]
                 /\ cur' # x
      BY <1>7, <2>1, ConstantTypes
    <2>2. CASE UNCHANGED retired
      BY <1>1, <1>2, <1>7, <2>1, <2>2, AbsentFacts
         DEF IInv, RetiredNotWritten, NothingLeftBehind
    <2>3. CASE /\ retired' = [retired EXCEPT ![cur] = lastGen[cur]]
               /\ inst.deleting /\ vault[PathOf[cur]].owner # cur
      <3>1. retired'[cur] = lastGen[cur] /\ lastGen[cur] \in Nat
        BY <1>1, <1>3, <2>3
      <3>2. Exists(cache[cur]) => cache[cur].deleting
        <4>1. /\ cache[cur].uid \in Nat /\ cache[cur].gen \in Nat
              /\ inst.gen \in Nat
          BY <1>1 DEF IInv, TypeOK, Object
        <4>2. QED
          BY <1>1, <2>3, <3>1, <4>1 DEF CopyOrder, WellFormed, Precedes
      <3>3. Exists(obj) => obj.deleting
        BY <2>3, AbsentFacts
      <3>4. RetiredNotWritten'
        <4>1. cur' = cur => inst'.deleting
          BY <1>1, <2>3, ConstantTypes
        <4>2. ASSUME NEW x \in Objects, x = cur
              PROVE  /\ retired'[x] <= lastGen'[x]
                     /\ Exists(api'[x]) => api'[x].deleting
                     /\ Exists(cache'[x]) => cache'[x].deleting
                     /\ cur' = x => inst'.deleting
          BY <1>2, <1>7, <3>1, <3>2, <3>3, <4>1, <4>2
        <4>3. ASSUME NEW x \in Objects, x # cur
              PROVE  /\ retired'[x] <= lastGen'[x]
                     /\ Exists(api'[x]) /\ ~api'[x].deleting
                          => retired'[x] < api'[x].gen
                     /\ Exists(cache'[x]) /\ ~cache'[x].deleting
                          => retired'[x] < cache'[x].gen
                     /\ cur' # x
          BY <1>2, <2>1, <4>3 DEF IInv, RetiredNotWritten
        <4>4. QED
          BY <4>2, <4>3 DEF RetiredNotWritten
      <3>5. NothingLeftBehind'
        BY <1>1, <1>2, <2>1, <2>3 DEF IInv, NothingLeftBehind
      <3>6. QED
        BY <3>4, <3>5
    <2>4. QED
      BY <2>2, <2>3
  <1>11. QED
    BY <1>6, <1>8, <1>9, <1>10 DEF IInv

(* The update was not applied. *)
LEMMA RejectedFacts ==
  ASSUME Rejected
  PROVE  /\ NoFault \/ Fault
         /\ UNCHANGED <<api, lastGen, informer>>
  BY DEF Rejected

LEMMA StatusIInv == IInv /\ Status => IInv'
  <1> SUFFICES ASSUME IInv, Status PROVE IInv'
    OBVIOUS
  <1>1. /\ pc = "status" /\ UNCHANGED <<world, retired>>
        /\ cur \in Objects /\ CopyOrder(cur) /\ Exists(inst)
        /\ inst \in Object /\ issue \in BOOLEAN
    BY CurIsObject DEF Status, IInv, TypeOK
  <1> PICK obj : obj = AddOrReplaceCondition(inst, OutcomeCondition(issue))
    OBVIOUS
  <1>2. inst.gen # 0
    BY <1>1 DEF CopyOrder, WellFormed, Exists, Object
  <1>3. /\ obj \in Object /\ obj.uid = inst.uid /\ obj.gen = inst.gen
        /\ obj.deleting = inst.deleting /\ obj.finalizer = inst.finalizer
        /\ obj.finalizer => cur \in Deletable /\ Succeeded(obj)
        /\ ~issue => Succeeded(obj)
        /\ obj # Absent
    BY <1>1, <1>2, ConditionFacts, AbsentFacts DEF CopyOrder, WellFormed, Exists
  <1>4. ASSUME NEW again \in BOOLEAN, Done(again)
        PROVE  /\ queue' \in SUBSET Objects /\ pc' \in PCs /\ issue' \in BOOLEAN
               /\ instCurrent' \in BOOLEAN
               /\ cur' = Nobody /\ inst' = Absent /\ pc' = "idle"
               /\ PhaseKnows'
    BY <1>1, <1>4 DEF Done, IInv, TypeOK, PCs, PhaseKnows, CleanPhase
  <1>5. ASSUME NEW again \in BOOLEAN, StoreByWorker(obj), Done(again),
               NoFault \/ Fault
        PROVE  IInv'
    BY <1>1, <1>3, <1>4, <1>5, StoreByWorkerIInv
  <1>6. ASSUME StoreByWorker(obj), NoFault, ~issue, cur \in Deletable,
               inst' = obj, pc' = "addFinalizer",
               UNCHANGED <<cur, instCurrent, issue, queue>>
        PROVE  IInv'
    <2>1. PhaseKnows'
      BY <1>3, <1>6 DEF PhaseKnows, CleanPhase
    <2>2. /\ pc' \in PCs /\ pc' # "idle" /\ queue' \in SUBSET Objects
          /\ issue' \in BOOLEAN /\ instCurrent' \in BOOLEAN
      BY <1>6 DEF PCs, WritePhase, IInv, TypeOK
    <2>3. QED
      BY <1>1, <1>3, <1>6, <2>1, <2>2, StoreByWorkerIInv
  <1>7. ASSUME Rejected, Done(TRUE) PROVE IInv'
    <2>1. UNCHANGED <<kube, informer, world>>
      BY <1>1, <1>7, RejectedFacts DEF kube
    <2>2. QED
      BY <1>1, <1>7, <2>1, RejectedFacts, DoneIInv
  <1>8. QED
    BY <1>1, <1>5, <1>6, <1>7 DEF Status

LEMMA AddFinalizerIInv == IInv /\ AddFinalizer => IInv'
  <1> SUFFICES ASSUME IInv, AddFinalizer PROVE IInv'
    OBVIOUS
  <1>1. /\ pc = "addFinalizer" /\ UNCHANGED <<world, retired>>
        /\ cur \in Objects /\ CopyOrder(cur) /\ inst \in Object
        /\ cur \in Deletable /\ Succeeded(inst)
    BY CurIsObject DEF AddFinalizer, IInv, PhaseKnows
  <1> PICK obj : obj = WithFinalizer(inst)
    OBVIOUS
  <1>2. /\ obj \in Object /\ obj.uid = inst.uid /\ obj.gen = inst.gen
        /\ obj.deleting = inst.deleting
        /\ obj.finalizer => cur \in Deletable /\ Succeeded(obj)
    BY <1>1, WithFinalizerFacts DEF Succeeded
  <1>3. ASSUME NEW again \in BOOLEAN, StoreByWorker(obj), Done(again),
               NoFault \/ Fault
        PROVE  IInv'
    <2>1. /\ queue' \in SUBSET Objects /\ pc' \in PCs /\ issue' \in BOOLEAN
          /\ instCurrent' \in BOOLEAN
          /\ cur' = Nobody /\ inst' = Absent /\ pc' = "idle"
          /\ PhaseKnows'
      BY <1>1, <1>3 DEF Done, IInv, TypeOK, PCs, PhaseKnows, CleanPhase
    <2>2. QED
      BY <1>1, <1>2, <1>3, <2>1, StoreByWorkerIInv
  <1>4. ASSUME Rejected, Done(TRUE) PROVE IInv'
    <2>1. UNCHANGED <<kube, informer, world>>
      BY <1>1, <1>4, RejectedFacts DEF kube
    <2>2. QED
      BY <1>1, <1>4, <2>1, RejectedFacts, DoneIInv
  <1>5. QED
    BY <1>3, <1>4 DEF AddFinalizer

LEMMA RemoveFinalizerIInv == IInv /\ RemoveFinalizer => IInv'
  <1> SUFFICES ASSUME IInv, RemoveFinalizer PROVE IInv'
    OBVIOUS
  <1>1. /\ pc = "removeFinalizer" /\ UNCHANGED world
        /\ cur \in Objects /\ CopyOrder(cur) /\ inst \in Object
        /\ inst.deleting /\ vault[PathOf[cur]].owner # cur
    BY CurIsObject DEF RemoveFinalizer, IInv, PhaseKnows, CleanPhase
  <1> PICK obj : obj = WithoutFinalizer(inst)
    OBVIOUS
  <1>2. /\ obj \in Object
        /\ \/ obj = Absent
           \/ /\ obj.uid = inst.uid /\ obj.gen = inst.gen
              /\ obj.deleting = inst.deleting
              /\ obj.finalizer => cur \in Deletable /\ Succeeded(obj)
    BY <1>1, WithoutFinalizerFacts
  <1>3. ASSUME StoreByWorker(obj), NoFault, Done(FALSE),
               retired' = [retired EXCEPT ![cur] = lastGen[cur]]
        PROVE  IInv'
    <2>1. /\ queue' \in SUBSET Objects /\ pc' \in PCs /\ issue' \in BOOLEAN
          /\ instCurrent' \in BOOLEAN
          /\ cur' = Nobody /\ inst' = Absent /\ pc' = "idle"
          /\ PhaseKnows'
      BY <1>1, <1>3 DEF Done, IInv, TypeOK, PCs, PhaseKnows, CleanPhase
    <2>2. QED
      BY <1>1, <1>2, <1>3, <2>1, StoreByWorkerIInv
  <1>4. ASSUME StoreByWorker(obj), Fault, pc' = "status", issue' = TRUE,
               instCurrent' = FALSE, UNCHANGED <<cur, inst, queue>>,
               retired' = [retired EXCEPT ![cur] = lastGen[cur]]
        PROVE  IInv'
    <2>1. /\ queue' \in SUBSET Objects /\ pc' \in PCs /\ pc' # "idle"
          /\ issue' \in BOOLEAN /\ instCurrent' \in BOOLEAN
          /\ PhaseKnows'
      BY <1>4 DEF IInv, TypeOK, PCs, PhaseKnows, CleanPhase
    <2>2. QED
      BY <1>1, <1>2, <1>4, <2>1, StoreByWorkerIInv
  <1>5. ASSUME Rejected, Fail, UNCHANGED retired PROVE IInv'
    <2>1. UNCHANGED <<kube, informer, world>>
      BY <1>1, <1>5, RejectedFacts DEF kube
    <2>2. QED
      BY <1>1, <1>5, <2>1, RejectedFacts, FailIInv
  <1>6. QED
    BY <1>3, <1>4, <1>5 DEF RemoveFinalizer

-----------------------------------------------------------------------------
(* The invariant is inductive.                                             *)

LEMMA StutterIInv == IInv /\ UNCHANGED vars => IInv'
  BY DEF vars, kube, informer, worker, world, IInv, TypeOK, CopiesOrdered,
     CopyOrder, WellFormed, VaultBehind, RetiredNotWritten, PhaseKnows,
     NothingLeftBehind

LEMMA StepIInv == IInv /\ Step => IInv'
  BY LoginIInv, PrepareIInv, VaultReadIInv, VaultWriteIInv, VaultDeleteIInv,
     StatusIInv, AddFinalizerIInv, RemoveFinalizerIInv DEF Step

LEMMA NextIInv == IInv /\ [Next]_vars => IInv'
  <1> SUFFICES ASSUME IInv, [Next]_vars PROVE IInv'
    OBVIOUS
  <1>1. ASSUME NEW o \in Objects,
               UserCreate(o) \/ UserEdit(o) \/ UserDelete(o) \/ GarbageCollect(o)
        PROVE  IInv'
    BY <1>1, UserCreateIInv, UserEditIInv, UserDeleteIInv, GarbageCollectIInv
  <1>2. ASSUME NEW o \in Objects, Watch(o) \/ Resync(o) \/ Take(o)
        PROVE  IInv'
    BY <1>2, WatchIInv, ResyncIInv, TakeIInv
  <1>3. ASSUME NEW p \in Paths, Drift(p) PROVE IInv'
    BY <1>3, DriftIInv
  <1>4. QED
    BY <1>1, <1>2, <1>3, StepIInv, CrashIInv, StutterIInv DEF Next

(* The invariant of the generic loop: what the informer's and the worker's *)
(* copies, Vault and each call of a cycle know of the stored resource.     *)
THEOREM Invariance == Spec => []IInv
  BY InitIInv, NextIInv, PTL DEF Spec

(* The state of the program stays within its types. *)
THEOREM TypeCorrect == Spec => []TypeOK
  <1>1. IInv => TypeOK
    BY DEF IInv
  <1>2. QED
    BY Invariance, <1>1, PTL

(* A resource whose finalizer the operator removed leaves nothing in Vault,*)
(* whatever crashes, conflicts, lost replies and stale copies came between.*)
THEOREM CleanupIsFinal == Spec => []NothingLeftBehind
  <1>1. IInv => NothingLeftBehind
    BY DEF IInv
  <1>2. QED
    BY Invariance, <1>1, PTL

(* The ReconcileSuccessful condition that gates the cleanup is there       *)
(* whenever the finalizer is.                                              *)
THEOREM CleanupIsReached == Spec => []CleanupNotSkipped
  <1>1. IInv => CleanupNotSkipped
    BY AbsentFacts
       DEF IInv, CopiesOrdered, CopyOrder, WellFormed, CleanupNotSkipped
  <1>2. QED
    BY Invariance, <1>1, PTL

-----------------------------------------------------------------------------
(* The operator keeps the promise of DesiredState.                         *)

LEMMA InitRefines == Init => Promise!AInit
  BY ConstantTypes DEF Init, Promise!AInit, NoEntry, EntryOf,
     Promise!NoEntry, Promise!EntryOf

(* What a step does to the part of the state that the promise is about.    *)
LEMMA StepSimulation ==
  ASSUME IInv, [Next]_vars
  PROVE  \/ UNCHANGED <<lastGen, vault, retired>>
         \/ \E o \in Objects : Promise!Request(o)
         \/ \E o \in Objects : Promise!Retire(o)
         \/ \E p \in Paths : Promise!Lose(p)
         \/ \E o \in Objects : /\ Promise!Apply(o, inst.gen)
                               /\ inst.gen \in 1..lastGen[o]
  <1>1. ASSUME NEW o \in Objects,
               UserCreate(o) \/ UserEdit(o) \/ UserDelete(o) \/ GarbageCollect(o)
        PROVE  \/ UNCHANGED <<lastGen, vault, retired>>
               \/ Promise!Request(o)
    <2>1. UNCHANGED <<vault, retired>>
      BY <1>1 DEF UserCreate, UserEdit, UserDelete, GarbageCollect,
         StoreByOther, world
    <2>2. lastGen' = lastGen \/ lastGen' = [lastGen EXCEPT ![o] = @ + 1]
      BY <1>1 DEF UserCreate, UserEdit, UserDelete, GarbageCollect,
         Bump, NextGen
    <2>3. QED
      BY <2>1, <2>2 DEF Promise!Request
  <1>2. ASSUME NEW p \in Paths, Drift(p) PROVE Promise!Lose(p)
    BY <1>2 DEF Drift, kube, Promise!Lose, NoEntry, Foreign, EntryOf,
       Promise!NoEntry, Promise!Foreign, Promise!EntryOf
  <1>3. CASE VaultWrite
    <2>1. /\ pc = "vaultWrite" /\ ~inst.deleting /\ UNCHANGED kube
          /\ cur \in Objects /\ Exists(inst) /\ inst \in Object
          /\ CopyOrder(cur)
      BY <1>3, CurIsObject DEF VaultWrite, IInv, PhaseKnows
    <2>2. /\ inst.gen \in 1..lastGen[cur] /\ retired[cur] < inst.gen
          /\ inst.gen <= lastGen[cur]
      BY <2>1 DEF CopyOrder, WellFormed, Exists, Object, IInv, TypeOK,
         RetiredNotWritten
    <2>3. CASE vault' = vault
      BY <2>1, <2>3 DEF kube
    <2>4. CASE /\ vault' = [vault EXCEPT ![PathOf[cur]] = EntryOf(cur, inst.gen)]
               /\ vault[PathOf[cur]].owner = cur =>
                    vault[PathOf[cur]].gen <= inst.gen
      <3>1. Promise!Apply(cur, inst.gen)
        BY <2>1, <2>2, <2>4 DEF kube, Promise!Apply, EntryOf, Promise!EntryOf
      <3>2. QED
        BY <2>1, <2>2, <3>1
    <2>5. QED
      BY <1>3, <2>3, <2>4, VaultWriteIInv
  <1>4. CASE VaultDelete
    <2>1. /\ PathOf[cur] \in Paths /\ UNCHANGED kube
      BY <1>4, CurIsObject DEF VaultDelete
    <2>2. CASE vault' = vault
      BY <2>1, <2>2 DEF kube
    <2>3. CASE vault' = [vault EXCEPT ![PathOf[cur]] = NoEntry]
      <3>1. Promise!Lose(PathOf[cur])
        BY <2>1, <2>3 DEF kube, Promise!Lose, NoEntry, EntryOf,
           Promise!NoEntry, Promise!EntryOf
      <3>2. QED
        BY <2>1, <3>1
    <2>4. QED
      BY <1>4, <2>2, <2>3 DEF VaultDelete
  <1>5. CASE RemoveFinalizer
    <2>1. /\ cur \in Objects /\ UNCHANGED <<lastGen, vault>>
          /\ vault[PathOf[cur]].owner # cur
      BY <1>5, CurIsObject DEF RemoveFinalizer, world, StoreByWorker,
         Rejected, IInv, PhaseKnows
    <2>2. \/ UNCHANGED retired
          \/ retired' = [retired EXCEPT ![cur] = lastGen[cur]]
      BY <1>5 DEF RemoveFinalizer
    <2>3. UNCHANGED retired \/ Promise!Retire(cur)
      BY <2>1, <2>2 DEF Promise!Retire
    <2>4. QED
      BY <2>1, <2>3
  <1>6. ASSUME NEW o \in Objects, Watch(o) \/ Resync(o) \/ Take(o)
        PROVE  UNCHANGED <<lastGen, vault, retired>>
    BY <1>6 DEF Watch, Resync, Take, kube, world
  <1>7. CASE \/ Login \/ Prepare \/ VaultRead \/ Crash \/ UNCHANGED vars
    BY <1>7 DEF Login, Begin, Prepare, VaultRead, Crash, vars, kube, world
  <1>8. CASE Status \/ AddFinalizer
    BY <1>8 DEF Status, AddFinalizer, StoreByWorker, Rejected, world
  <1>9. QED
    BY <1>1, <1>2, <1>3, <1>4, <1>5, <1>6, <1>7, <1>8 DEF Next, Step

(* Every behaviour of the reconcile loop is one that DesiredState allows.  *)
THEOREM Refinement == Spec => ImplementsDesiredState
  <1>1. IInv /\ [Next]_vars => [Promise!ANext]_<<lastGen, vault, retired>>
    BY StepSimulation DEF Promise!ANext
  <1>2. QED
    BY Invariance, InitRefines, <1>1, PTL
       DEF Spec, ImplementsDesiredState, Promise!ASpec, Promise!avars

(* No interleaving of stale copies, retries and restarts takes a Vault     *)
(* entry back to an older version of its resource.                         *)
THEOREM NeverRegresses == Spec => NoRegress
  <1> DEFINE Forward == \A p \in Paths :
         vault[p].owner \in Objects /\ vault'[p].owner = vault[p].owner
           => vault[p].gen <= vault'[p].gen
  <1>1. ASSUME IInv, [Next]_vars PROVE Forward
    <2>1. \A p \in Paths : vault[p].gen \in Nat
      <3>1. \A e \in Entry : e.gen \in Nat
        BY DEF Entry
      <3>2. vault \in [Paths -> Entry]
        BY <1>1 DEF IInv, TypeOK
      <3>3. QED
        BY <3>1, <3>2
    <2>2. CASE vault' = vault
      BY <2>1, <2>2
    <2>3. ASSUME NEW p \in Paths, Promise!Lose(p) PROVE Forward
      BY <2>1, <2>3, ConstantTypes
         DEF IInv, TypeOK, Promise!Lose, Promise!NoEntry, Promise!Foreign,
             Promise!EntryOf
    <2>4. ASSUME NEW o \in Objects, Promise!Apply(o, inst.gen) PROVE Forward
      BY <2>1, <2>4, ConstantTypes
         DEF IInv, TypeOK, Promise!Apply, Promise!EntryOf
    <2>5. QED
      BY <1>1, <2>2, <2>3, <2>4, StepSimulation
         DEF Promise!Request, Promise!Retire
  <1>2. IInv /\ [Next]_vars => [Forward]_vars
    BY <1>1
  <1>3. QED
    BY Invariance, <1>2, PTL DEF Spec, NoRegress
-----------------------------------------------------------------------------
(***************************************************************************)
(* The status of a resource does not lie: SuccessIsInVault.  The inductive *)
(* argument is SuccessInv on top of IInv.                                  *)
(***************************************************************************)

(* Steps that leave Vault and the objects under reconcile alone.           *)

(* Somebody else's update of a succeeded object keeps its incarnation, its *)
(* conditions and its deletion.                                            *)
LEMMA StoreByOtherSuccess ==
  ASSUME NEW o \in Objects, SuccessKnown(o), NEW x \in Objects, NEW obj,
         IInv, StoreByOther(x, obj),
         Exists(obj) /\ Succeeded(obj) =>
           /\ Exists(api[x]) /\ obj.uid = api[x].uid
           /\ obj.conds = api[x].conds
           /\ api[x].deleting => obj.deleting
  PROVE  SuccessKnown(o)'
  <1>1. /\ UNCHANGED <<cache, cur, inst, pc, issue, vault>>
        /\ api' = [api EXCEPT ![x] = obj]
    BY DEF StoreByOther, world
  <1>2. CASE o # x
    <2>1. api'[o] = api[o]
      BY <1>1, <1>2 DEF IInv, TypeOK
    <2>2. QED
      BY <1>1, <2>1 DEF SuccessKnown
  <1>3. CASE o = x
    <2>1. api'[o] = obj
      BY <1>1, <1>3 DEF IInv, TypeOK
    <2>2. QED
      BY <1>1, <1>3, <2>1 DEF SuccessKnown, Succeeded
  <1>4. QED
    BY <1>2, <1>3

LEMMA UserSuccess ==
  ASSUME NEW o \in Objects, SuccessKnown(o), NEW x \in Objects, IInv,
         UserCreate(x) \/ UserEdit(x) \/ UserDelete(x) \/ GarbageCollect(x)
  PROVE  SuccessKnown(o)'
  <1>1. api[x] \in Object /\ NextGen(x) \in Nat /\ NextGen(x) # 0 /\ CopyOrder(x)
    BY DEF IInv, TypeOK, NextGen, CopiesOrdered
  <1> PICK g : g = NextGen(x)
    OBVIOUS
  <1>2. CASE UserCreate(x)
    <2>1. ~Succeeded(Created(g))
      BY DEF Created, Absent, Succeeded, CondTypes
    <2>2. QED
      BY <1>2, <2>1, StoreByOtherSuccess DEF UserCreate
  <1>3. CASE UserEdit(x)
    <2>1. /\ Edited(api[x], g).uid = api[x].uid
          /\ Edited(api[x], g).deleting = api[x].deleting
          /\ Edited(api[x], g).conds = api[x].conds
      BY <1>1, EditedFacts
    <2>2. QED
      BY <1>3, <2>1, StoreByOtherSuccess DEF UserEdit
  <1>4. CASE UserDelete(x)
    <2>1. CASE StoreByOther(x, Absent)
      BY <2>1, AbsentFacts, StoreByOtherSuccess
    <2>2. ASSUME NEW f \in BOOLEAN, Exists(api[x]),
                 StoreByOther(x, MarkedDeleted(api[x], g, f))
          PROVE  SuccessKnown(o)'
      <3> PICK obj : obj = MarkedDeleted(api[x], g, f)
        OBVIOUS
      <3>1. obj.uid = api[x].uid /\ obj.deleting /\ obj.conds = api[x].conds
        BY <1>1, MarkedDeletedFacts
      <3>2. QED
        BY <2>2, <3>1, StoreByOtherSuccess
    <2>3. QED
      BY <1>4, <2>1, <2>2 DEF UserDelete
  <1>5. CASE GarbageCollect(x)
    <2> PICK obj : obj = Released(api[x])
      OBVIOUS
    <2>1. \/ obj = Absent
          \/ /\ obj.uid = api[x].uid /\ obj.deleting = api[x].deleting
             /\ obj.conds = api[x].conds
      BY <1>1, ReleasedFacts
    <2>2. Exists(obj) => Exists(api[x])
      BY <2>1, AbsentFacts DEF Exists
    <2>3. QED
      BY <1>5, <2>1, <2>2, AbsentFacts, StoreByOtherSuccess DEF GarbageCollect
  <1>6. QED
    BY <1>2, <1>3, <1>4, <1>5

LEMMA WatchSuccess ==
  ASSUME NEW o \in Objects, SuccessKnown(o), NEW x \in Objects, IInv, Watch(x)
  PROVE  SuccessKnown(o)'
  <1>1. UNCHANGED <<api, cur, inst, pc, issue, vault>>
    BY DEF Watch, kube, worker, world
  <1>2. cache'[o] \in {cache[o], api[o], Absent}
    BY DEF Watch, IInv, TypeOK
  <1>3. QED
    BY <1>1, <1>2, AbsentFacts DEF SuccessKnown

LEMMA TakeSuccess ==
  ASSUME NEW o \in Objects, SuccessKnown(o), NEW x \in Objects, IInv, Take(x)
  PROVE  SuccessKnown(o)'
  <1>1. UNCHANGED <<api, cache, vault>>
    BY DEF Take, kube, informer, world
  <1>2. CASE UNCHANGED worker
    BY <1>1, <1>2 DEF worker, SuccessKnown
  <1>3. CASE /\ Exists(cache[x]) /\ cur' = x /\ inst' = cache[x]
             /\ pc' = "login"
    BY <1>1, <1>3 DEF SuccessKnown
  <1>4. QED
    BY <1>2, <1>3 DEF Take

LEMMA CrashSuccess ==
  ASSUME NEW o \in Objects, SuccessKnown(o), IInv, Crash
  PROVE  SuccessKnown(o)'
  <1>1. /\ UNCHANGED <<api, vault>> /\ cache'[o] = Absent
        /\ cur' = Nobody /\ cur' # o
    BY ConstantTypes DEF Crash, kube, world
  <1>2. QED
    BY <1>1, AbsentFacts DEF SuccessKnown

-----------------------------------------------------------------------------
(* The calls to Vault.                                                     *)

(* A call after which nothing but the place in the cycle is different.     *)
LEMMA MoveSuccess ==
  ASSUME NEW o \in Objects, SuccessKnown(o),
         UNCHANGED <<api, cache, vault>>,
         \/ cur' = Nobody
         \/ UNCHANGED <<cur, inst>> /\ (pc' # "status" \/ issue')
  PROVE  SuccessKnown(o)'
  <1>1. o # Nobody
    BY ConstantTypes
  <1>2. QED
    BY <1>1 DEF SuccessKnown

LEMMA CallSuccess ==
  ASSUME NEW o \in Objects, SuccessKnown(o), IInv, Login \/ Prepare \/ VaultRead
  PROVE  SuccessKnown(o)'
  <1>1. UNCHANGED <<api, cache, vault>>
    BY DEF Login, Prepare, VaultRead, Begin, kube, informer, world
  <1>2. CASE Fail \/ Done(FALSE)
    BY <1>1, <1>2, MoveSuccess DEF Fail, Done
  <1>3. ASSUME NEW next, next # "status", Goto(next)
        PROVE  SuccessKnown(o)'
    BY <1>1, <1>3, MoveSuccess DEF Goto
  <1>4. CASE /\ pc = "vaultRead" /\ Goto("status")
             /\ vault[PathOf[cur]] = EntryOf(cur, inst.gen)
    BY <1>1, <1>4 DEF Goto, SuccessKnown, IInv, PhaseKnows
  <1>5. CleanUpStep # "status"
    BY DEF CleanUpStep
  <1>6. QED
    BY <1>2, <1>3, <1>4, <1>5 DEF Login, Begin, Prepare, VaultRead

(* The write of a version that is not older than the entry it replaces.    *)
LEMMA VaultWriteSuccess ==
  ASSUME NEW o \in Objects, Exclusive(o), SuccessKnown(o), IInv, VaultWrite
  PROVE  SuccessKnown(o)'
  <1>1. /\ UNCHANGED <<api, cache, cur, inst>> /\ ~inst.deleting
        /\ cur \in Objects /\ PathOf[cur] \in Paths
    BY CurIsObject DEF VaultWrite, kube, informer, Goto, Fail, IInv, PhaseKnows
  <1>2. CASE vault' = vault /\ Fail
    BY <1>1, <1>2, MoveSuccess DEF Fail
  <1>3. CASE vault' = [vault EXCEPT ![PathOf[cur]] = EntryOf(cur, inst.gen)]
    <2>1. vault \in [Paths -> Entry] /\ PathOf[o] \in Paths
      BY ConstantTypes DEF IInv, TypeOK
    <2>2. CASE o # cur
      <3>1. vault'[PathOf[o]] = vault[PathOf[o]]
        BY <1>1, <1>3, <2>1, <2>2 DEF Exclusive
      <3>2. QED
        BY <1>1, <2>2, <3>1 DEF SuccessKnown
    <2>3. CASE o = cur
      <3>1. vault'[PathOf[o]] = EntryOf(o, inst.gen)
        BY <1>3, <2>1, <2>3
      <3>2. vault'[PathOf[o]].owner = o /\ vault'[PathOf[o]].gen = inst.gen
        BY <3>1 DEF EntryOf
      <3>3. vault[PathOf[o]].owner = o => vault[PathOf[o]].gen <= inst.gen
        BY <2>3 DEF IInv, VaultBehind
      <3>4. /\ vault[PathOf[o]].gen \in Nat /\ inst.gen \in Nat
            /\ api[o].conds["ReconcileSuccessful"] \in Nat
        <4>1. \A e \in Entry : e.gen \in Nat
          BY DEF Entry
        <4>2. \A obj \in Object : /\ obj.gen \in Nat
                                  /\ obj.conds["ReconcileSuccessful"] \in Nat
          BY DEF Object, CondTypes
        <4>3. QED
          BY <2>1, <4>1, <4>2 DEF IInv, TypeOK
      <3>5. QED
        BY <1>1, <2>3, <3>1, <3>2, <3>3, <3>4 DEF SuccessKnown
    <2>4. QED
      BY <2>2, <2>3
  <1>4. QED
    BY <1>2, <1>3 DEF VaultWrite

(* Only a deletion is cleaned up, and the copy that knows of it is of the  *)
(* incarnation that succeeded: the stored object is being deleted too.     *)
LEMMA VaultDeleteSuccess ==
  ASSUME NEW o \in Objects, Exclusive(o), SuccessKnown(o), IInv, VaultDelete
  PROVE  SuccessKnown(o)'
  <1>1. /\ UNCHANGED <<api, cache, cur, inst>> /\ inst.deleting
        /\ cur \in Objects /\ PathOf[cur] \in Paths
        /\ pc' # "status" \/ issue'
        /\ CopyOrder(cur) /\ Exists(inst) /\ inst \in Object
    BY CurIsObject DEF VaultDelete, kube, informer, Goto, Fail, IInv,
       PhaseKnows, CleanPhase
  <1>2. CASE vault' = vault
    BY <1>1, <1>2, MoveSuccess
  <1>3. CASE vault' = [vault EXCEPT ![PathOf[cur]] = NoEntry]
    <2>1. vault \in [Paths -> Entry] /\ PathOf[o] \in Paths
      BY ConstantTypes DEF IInv, TypeOK
    <2>2. CASE o # cur
      <3>1. vault'[PathOf[o]] = vault[PathOf[o]]
        BY <1>1, <1>3, <2>1, <2>2 DEF Exclusive
      <3>2. QED
        BY <1>1, <2>2, <3>1 DEF SuccessKnown
    <2>3. CASE o = cur
      <3>1. ASSUME Exists(api[o]), Succeeded(api[o]) PROVE api[o].deleting
        <4>1. inst.uid = api[o].uid /\ Precedes(inst, api[o])
          BY <1>1, <2>3, <3>1 DEF SuccessKnown, CopyOrder
        <4>2. inst.uid <= inst.gen /\ inst.uid \in Nat /\ inst.gen \in Nat
          BY <1>1, <2>3 DEF CopyOrder, WellFormed, Object
        <4>3. QED
          BY <1>1, <4>1, <4>2 DEF Precedes
      <3>2. QED
        BY <1>1, <2>3, <3>1 DEF SuccessKnown
    <2>4. QED
      BY <2>2, <2>3
  <1>4. QED
    BY <1>2, <1>3 DEF VaultDelete

-----------------------------------------------------------------------------
(* The worker's updates of its object.                                     *)

(* A current copy is of the incarnation of every other copy; what is       *)
(* stored in its place keeps the success it carries, or adds one that has  *)
(* been seen in Vault.                                                     *)
LEMMA StoreByWorkerSuccess ==
  ASSUME NEW o \in Objects, SuccessKnown(o), IInv, pc # "idle", NEW obj,
         StoreByWorker(obj), UNCHANGED vault,
         o = cur /\ Exists(obj) /\ Succeeded(obj) =>
           /\ obj.uid = inst.uid /\ obj.deleting = inst.deleting
           /\ \/ obj.conds["ReconcileSuccessful"]
                   = inst.conds["ReconcileSuccessful"]
              \/ /\ obj.conds["ReconcileSuccessful"] = inst.gen
                 /\ vault[PathOf[cur]] = EntryOf(cur, inst.gen),
         \/ cur' = Nobody
         \/ /\ cur' = cur /\ inst'.uid = inst.uid
            /\ pc' # "status" \/ issue'
  PROVE  SuccessKnown(o)'
  <1>1. /\ cur \in Objects /\ CopyOrder(cur) /\ Exists(inst)
        /\ inst \in Object /\ inst = api[cur] /\ o # Nobody
    BY CurIsObject, ConstantTypes DEF StoreByWorker, CopyOrder
  <1>2. /\ UNCHANGED <<cache, vault>>
        /\ api' = [api EXCEPT ![cur] = obj]
    BY DEF StoreByWorker
  <1>3. CASE o # cur
    <2>1. api'[o] = api[o] /\ cur' # o
      BY <1>1, <1>2, <1>3 DEF IInv, TypeOK
    <2>2. QED
      BY <1>2, <2>1 DEF SuccessKnown
  <1>4. CASE o = cur
    <2>1. api'[o] = obj
      BY <1>1, <1>2, <1>4 DEF IInv, TypeOK
    <2>2. Exists(cache[o]) => cache[o].uid = inst.uid
      <3>1. cache[o].uid \in Nat /\ inst.uid \in Nat
        BY <1>1 DEF IInv, TypeOK, Object
      <3>2. QED
        BY <1>1, <1>4, <3>1 DEF CopyOrder, Precedes
    <2>3. ASSUME Exists(obj), Succeeded(obj), ~obj.deleting
          PROVE  /\ vault[PathOf[o]].owner = o
                 /\ obj.conds["ReconcileSuccessful"] <= vault[PathOf[o]].gen
      <3>1. CASE obj.conds["ReconcileSuccessful"]
                   = inst.conds["ReconcileSuccessful"]
        BY <1>1, <1>4, <2>3, <3>1 DEF SuccessKnown, Succeeded
      <3>2. CASE /\ obj.conds["ReconcileSuccessful"] = inst.gen
                 /\ vault[PathOf[cur]] = EntryOf(cur, inst.gen)
        BY <1>1, <1>4, <3>2 DEF EntryOf, Object
      <3>3. QED
        BY <1>4, <2>3, <3>1, <3>2
    <2>4. QED
      BY <1>1, <1>2, <1>4, <2>1, <2>2, <2>3 DEF SuccessKnown
  <1>5. QED
    BY <1>3, <1>4

(* An update that was not applied. *)
LEMMA RejectedSuccess ==
  ASSUME NEW o \in Objects, SuccessKnown(o), Rejected, UNCHANGED vault,
         Done(TRUE) \/ Fail
  PROVE  SuccessKnown(o)'
  BY MoveSuccess DEF Rejected, informer, Done, Fail

LEMMA StatusSuccess ==
  ASSUME NEW o \in Objects, SuccessKnown(o), IInv, Status
  PROVE  SuccessKnown(o)'
  <1>1. /\ pc = "status" /\ UNCHANGED vault /\ cur \in Objects
        /\ CopyOrder(cur) /\ Exists(inst) /\ inst \in Object
        /\ issue \in BOOLEAN
    BY CurIsObject DEF Status, world, IInv, TypeOK
  <1> PICK obj : obj = AddOrReplaceCondition(inst, OutcomeCondition(issue))
    OBVIOUS
  <1>2. obj.uid = inst.uid /\ obj.deleting = inst.deleting
    BY <1>1 DEF AddOrReplaceCondition, Object
  <1>3. o = cur =>
          \/ obj.conds["ReconcileSuccessful"]
               = inst.conds["ReconcileSuccessful"]
          \/ /\ obj.conds["ReconcileSuccessful"] = inst.gen
             /\ vault[PathOf[cur]] = EntryOf(cur, inst.gen)
    BY <1>1 DEF AddOrReplaceCondition, OutcomeCondition, Object, CondTypes,
       SuccessKnown
  <1>4. CASE StoreByWorker(obj) /\ (Done(issue) \/ Done(TRUE))
    BY <1>1, <1>2, <1>3, <1>4, StoreByWorkerSuccess DEF Done
  <1>5. CASE /\ StoreByWorker(obj) /\ inst' = obj /\ pc' = "addFinalizer"
             /\ UNCHANGED cur
    BY <1>1, <1>2, <1>3, <1>5, StoreByWorkerSuccess
  <1>6. CASE Rejected /\ Done(TRUE)
    BY <1>1, <1>6, RejectedSuccess
  <1>7. QED
    BY <1>4, <1>5, <1>6 DEF Status

LEMMA AddFinalizerSuccess ==
  ASSUME NEW o \in Objects, SuccessKnown(o), IInv, AddFinalizer
  PROVE  SuccessKnown(o)'
  <1>1. /\ pc = "addFinalizer" /\ UNCHANGED vault /\ inst \in Object
    BY CurIsObject DEF AddFinalizer, world
  <1> PICK obj : obj = WithFinalizer(inst)
    OBVIOUS
  <1>2. /\ obj.uid = inst.uid /\ obj.deleting = inst.deleting
        /\ obj.conds = inst.conds
    BY <1>1, WithFinalizerFacts
  <1>3. CASE StoreByWorker(obj) /\ (Done(FALSE) \/ Done(TRUE))
    BY <1>1, <1>2, <1>3, StoreByWorkerSuccess DEF Done
  <1>4. CASE Rejected /\ Done(TRUE)
    BY <1>1, <1>4, RejectedSuccess
  <1>5. QED
    BY <1>3, <1>4 DEF AddFinalizer

LEMMA RemoveFinalizerSuccess ==
  ASSUME NEW o \in Objects, SuccessKnown(o), IInv, RemoveFinalizer
  PROVE  SuccessKnown(o)'
  <1>1. /\ pc = "removeFinalizer" /\ UNCHANGED vault /\ inst \in Object
    BY CurIsObject DEF RemoveFinalizer, world
  <1> PICK obj : obj = WithoutFinalizer(inst)
    OBVIOUS
  <1>2. Exists(obj) => /\ obj.uid = inst.uid /\ obj.deleting = inst.deleting
                       /\ obj.conds = inst.conds
    BY <1>1, WithoutFinalizerFacts, AbsentFacts
  <1>3. CASE /\ StoreByWorker(obj)
             /\ \/ Done(FALSE)
                \/ pc' = "status" /\ issue' = TRUE /\ UNCHANGED <<cur, inst>>
    BY <1>1, <1>2, <1>3, StoreByWorkerSuccess DEF Done
  <1>4. CASE Rejected /\ Fail
    BY <1>1, <1>4, RejectedSuccess
  <1>5. QED
    BY <1>3, <1>4 DEF RemoveFinalizer

-----------------------------------------------------------------------------
(* The invariant is inductive, relative to IInv.                           *)

LEMMA InitSuccess == Init => SuccessInv
  <1> SUFFICES ASSUME Init, NEW o \in Objects PROVE SuccessKnown(o)
    BY DEF SuccessInv
  <1>1. api[o] = Absent /\ cur # o
    BY ConstantTypes DEF Init
  <1>2. QED
    BY <1>1, AbsentFacts DEF SuccessKnown

LEMMA NextSuccess == IInv /\ SuccessInv /\ [Next]_vars => SuccessInv'
  <1> SUFFICES ASSUME IInv, SuccessInv, [Next]_vars, drifts' = 0,
                      NEW o \in Objects, Exclusive(o)
               PROVE  SuccessKnown(o)'
    BY DEF SuccessInv, Exclusive
  <1>1. ASSUME drifts # 0 PROVE FALSE
    <2>1. drifts \in Nat
      BY DEF IInv, TypeOK
    <2>2. drifts' = drifts \/ drifts' = drifts + 1
      BY DEF Next, UserCreate, UserEdit, UserDelete, GarbageCollect,
         StoreByOther, Watch, Resync, Take, Drift, Step, Login, Prepare,
         VaultRead, VaultWrite, VaultDelete, Status, AddFinalizer,
         RemoveFinalizer, Crash, vars, world
    <2>3. QED
      BY <1>1, <2>1, <2>2
  <1>2. SuccessKnown(o)
    BY <1>1 DEF SuccessInv
  <1>3. ASSUME NEW p \in Paths, Drift(p) PROVE FALSE
    BY <1>3 DEF Drift, IInv, TypeOK
  <1>4. ASSUME NEW x \in Objects,
               UserCreate(x) \/ UserEdit(x) \/ UserDelete(x) \/ GarbageCollect(x)
        PROVE  SuccessKnown(o)'
    BY <1>2, <1>4, UserSuccess
  <1>5. ASSUME NEW x \in Objects, Watch(x) \/ Take(x)
        PROVE  SuccessKnown(o)'
    BY <1>2, <1>5, WatchSuccess, TakeSuccess
  <1>6. ASSUME NEW x \in Objects, Resync(x) PROVE SuccessKnown(o)'
    BY <1>2, <1>6 DEF Resync, kube, informer, worker, world, SuccessKnown
  <1>7. CASE Step
    BY <1>2, <1>7, CallSuccess, VaultWriteSuccess, VaultDeleteSuccess,
       StatusSuccess, AddFinalizerSuccess, RemoveFinalizerSuccess DEF Step
  <1>8. CASE Crash
    BY <1>2, <1>8, CrashSuccess
  <1>9. CASE UNCHANGED vars
    BY <1>2, <1>9 DEF vars, kube, informer, worker, world, SuccessKnown
  <1>10. QED
    BY <1>3, <1>4, <1>5, <1>6, <1>7, <1>8, <1>9 DEF Next

(* While nobody else writes to the resource's path, a ReconcileSuccessful  *)
(* condition for a generation means that Vault holds that generation or a  *)
(* later one: no stale copy, lost reply or restart makes the status lie.   *)
THEOREM SuccessIsTrue == Spec => []SuccessIsInVault
  <1>1. SuccessInv => SuccessIsInVault
    BY DEF SuccessInv, SuccessIsInVault, SuccessKnown
  <1>2. QED
    BY Invariance, InitSuccess, NextSuccess, <1>1, PTL DEF Spec
=============================================================================
