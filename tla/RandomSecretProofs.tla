------------------------- MODULE RandomSecretProofs -------------------------
(***************************************************************************)
(* Proofs about RandomSecret, for all periods, policies and bounds: types, *)
(* the truth of the recorded refresh time, and the finality of a cleanup.  *)
(* The cache may be behind the API server and the worker's copy behind the *)
(* cache; the invariant says what can be concluded from such a copy.       *)
(***************************************************************************)
EXTENDS RandomSecret, TLAPS

(* The conjuncts of TypeOK one by one. *)
Typed ==
    /\ api \in RandomSecrets /\ cache \in RandomSecrets /\ inst \in RandomSecrets
    /\ lastGen \in 0..MaxGen
    /\ cacheCurrent \in BOOLEAN /\ queued \in BOOLEAN /\ instCurrent \in BOOLEAN
    /\ issue \in BOOLEAN /\ twice \in BOOLEAN /\ cleaned \in BOOLEAN
    /\ timer \in 0..MaxAge /\ requeueAfter \in 0..MaxAge
    /\ pc \in PCs /\ (pc = "idle" <=> inst = NoSecret)
    /\ vault \in Writers /\ vaultAge \in 0..MaxAge
    /\ faults \in 0..MaxFaults /\ crashes \in 0..MaxCrashes

(* An old copy is of an earlier incarnation, and then nothing has been     *)
(* recorded for the stored one yet; or it is of the stored incarnation,    *)
(* which is deleted if the copy is.                                        *)
NotAfter(copy) ==
    /\ copy.meta.uid <= lastGen
    /\ Exists(copy.meta) =>
         /\ copy.meta.uid # api.meta.uid => api.since = Never
         /\ copy.meta.uid = api.meta.uid /\ copy.meta.deleting => api.meta.deleting

Copies ==
    /\ ~Exists(api.meta) => api = NoSecret
    /\ api.meta.uid <= lastGen
    /\ cacheCurrent => cache = api
    /\ NotAfter(cache) /\ NotAfter(inst)
    /\ pc # "idle" => Exists(inst.meta)
    /\ instCurrent =>
         /\ pc # "idle"
         /\ inst.meta.uid = api.meta.uid /\ inst.meta.deleting = api.meta.deleting
         /\ cache.meta.uid = inst.meta.uid
         /\ inst.meta.deleting => cache.meta.deleting

Gone(copy) == Exists(copy.meta) => copy.meta.deleting

(* Once cleaned up, no copy is left from which the password is written.    *)
Cleans ==
    /\ pc \in {"delete", "removeFinalizer"} => inst.meta.deleting
    /\ pc \in {"exists", "generate", "write"} => ~inst.meta.deleting
    /\ pc = "removeFinalizer" /\ inst.policy = "Delete" => vault # "operator"
    /\ cleaned => Gone(api) /\ Gone(cache) /\ Gone(inst)
    /\ NothingLeft

(* What the worker may record is as true as what is recorded.              *)
CopyNotAhead ==
    instCurrent /\ ~inst.meta.deleting /\ inst.since # Never
      => vault = "operator" /\ vaultAge <= inst.since

SecretInv == Typed /\ Copies /\ Cleans /\ StatusNotAhead /\ CopyNotAhead

-----------------------------------------------------------------------------
LEMMA AbsentFacts ==
    /\ Absent \in Object /\ ~Exists(Absent)
    /\ Absent.gen = 0 /\ Absent.uid = 0
    /\ ~Absent.deleting /\ ~Absent.finalizer /\ ~Absent.held
  BY DEF Absent, Object, Exists, CondTypes

LEMMA NoSecretFacts ==
  /\ NoSecret \in RandomSecrets /\ NoSecret.meta = Absent
  /\ NoSecret.meta.uid = 0 /\ ~Exists(NoSecret.meta) /\ ~NoSecret.meta.deleting
  /\ NoSecret.since = Never /\ NoSecret.refresh = 0
  <1>1. Never \in 0..Never
    BY RandomSecretConstants DEF Never
  <1>2. /\ NoSecret.meta = Absent /\ NoSecret.since = Never /\ NoSecret.refresh = 0
        /\ NoSecret.policy = "Delete"
    BY DEF NoSecret
  <1>3. NoSecret \in RandomSecrets
    BY <1>1, AbsentFacts DEF NoSecret, RandomSecrets
  <1>4. QED
    BY <1>2, <1>3, AbsentFacts

(* The fields of a copy, and an update of its meta data.                   *)
LEMMA SecretFields ==
  ASSUME NEW obj \in RandomSecrets
  PROVE  /\ obj.meta \in Object /\ obj.meta.uid \in Nat /\ obj.since \in 0..Never
         /\ obj.refresh \in 0..MaxAge /\ obj.meta.deleting \in BOOLEAN
         /\ obj.policy \in {"Delete", "Retain"}
         /\ \A m \in Object :
              /\ [obj EXCEPT !.meta = m] \in RandomSecrets
              /\ [obj EXCEPT !.meta = m].meta = m
              /\ [obj EXCEPT !.meta = m].since = obj.since
              /\ [obj EXCEPT !.meta = m].refresh = obj.refresh
              /\ [obj EXCEPT !.meta = m].policy = obj.policy
  <1>1. obj.refresh \in 0..MaxAge
    <2>1. obj.refresh \in Periods \union {0}
      BY DEF RandomSecrets
    <2>2. Periods \subseteq 0..MaxAge /\ 0 \in 0..MaxAge
      BY RandomSecretConstants
    <2>3. QED
      BY <2>1, <2>2
  <1>2. QED
    BY <1>1 DEF RandomSecrets, Object

(* Ages grow by one up to their bound, and Never stays.                    *)
LEMMA Ages ==
  /\ \A a \in 0..Never : Older(a) \in 0..Never /\ (Older(a) = Never <=> a = Never)
  /\ \A a \in 0..MaxAge : Older(a) \in 0..MaxAge
  /\ \A a \in 0..MaxAge, b \in 0..Never : a <= b /\ b # Never => Older(a) <= Older(b)
  BY RandomSecretConstants DEF Older, Never

LEMMA AgedFacts ==
  ASSUME NEW obj \in RandomSecrets
  PROVE  /\ Aged(obj) \in RandomSecrets
         /\ Aged(obj).meta = obj.meta /\ Aged(obj).refresh = obj.refresh
         /\ Aged(obj).policy = obj.policy
         /\ Aged(obj).since = Older(obj.since)
         /\ Aged(obj) = NoSecret <=> obj = NoSecret
  <1>1. obj.since \in 0..Never /\ Older(obj.since) \in 0..Never
    BY SecretFields, Ages
  <1>2. /\ Aged(obj) \in RandomSecrets
        /\ Aged(obj).meta = obj.meta /\ Aged(obj).refresh = obj.refresh
        /\ Aged(obj).policy = obj.policy /\ Aged(obj).since = Older(obj.since)
    BY <1>1 DEF Aged, RandomSecrets
  <1>3. ASSUME NEW a \in RandomSecrets
        PROVE  a = NoSecret <=> /\ a.meta = Absent /\ a.refresh = 0
                                /\ a.policy = "Delete" /\ a.since = Never
    BY DEF RandomSecrets, NoSecret
  <1>4. Older(obj.since) = Never <=> obj.since = Never
    BY <1>1, Ages
  <1>5. QED
    BY <1>2, <1>3, <1>4

LEMMA InitSecret == Init => SecretInv
  <1>1. SUFFICES ASSUME Init PROVE SecretInv
    OBVIOUS
  <1>2. /\ api = NoSecret /\ cache = NoSecret /\ inst = NoSecret /\ lastGen = 0
        /\ pc = "idle" /\ instCurrent = FALSE /\ cleaned = FALSE
    BY <1>1 DEF Init
  <1>3. Typed
    <2>1. 0 \in 0..MaxAge /\ 0 \in 0..MaxGen /\ 0 \in 0..MaxFaults /\ 0 \in 0..MaxCrashes
      BY RandomSecretConstants
    <2>2. vault \in Writers /\ pc \in PCs
      BY <1>1 DEF Init, Writers, PCs
    <2>3. QED
      BY <1>1, <2>1, <2>2, NoSecretFacts DEF Init, Typed
  <1>4. Copies
    BY <1>2, NoSecretFacts DEF Copies, NotAfter
  <1>5. Cleans /\ StatusNotAhead /\ CopyNotAhead
    BY <1>2, NoSecretFacts DEF Cleans, StatusNotAhead, CopyNotAhead, NothingLeft, Live
  <1>6. QED
    BY <1>3, <1>4, <1>5 DEF SecretInv

-----------------------------------------------------------------------------
(* Users and the garbage collector store a version of the incarnation, a   *)
(* new incarnation, or nothing.                                            *)
Follows(new, gen) ==
    /\ new \in RandomSecrets /\ gen \in 0..MaxGen /\ lastGen <= gen
    /\ new.meta.uid <= gen
    /\ ~Exists(new.meta) => new = NoSecret
    /\ \/ /\ new.since = Never
          /\ ~Exists(new.meta) \/ (new.meta.uid > lastGen /\ ~new.meta.deleting)
       \/ /\ Exists(api.meta) /\ new.meta.uid = api.meta.uid /\ new.since = api.since
          /\ api.meta.deleting => new.meta.deleting

LEMMA StoredByOther ==
  ASSUME SecretInv, NEW new, NEW gen, Follows(new, gen), StoreByOther(new),
         lastGen' = gen,
         \/ cleaned' = FALSE
         \/ cleaned' = cleaned /\ new.meta.uid <= lastGen
  PROVE  SecretInv'
  <1>1. /\ api' = new /\ cacheCurrent' = FALSE /\ instCurrent' = FALSE
        /\ UNCHANGED <<cache, queued, timer, pc, inst, issue, requeueAfter, twice,
                       vault, vaultAge, faults, crashes>>
    BY DEF StoreByOther, work
  <1>2. Typed'
    BY <1>1 DEF SecretInv, Typed, Follows
  <1>3. /\ cache.meta.uid \in Nat /\ inst.meta.uid \in Nat /\ api.meta.uid \in Nat
        /\ new.meta.uid \in Nat /\ lastGen \in Nat /\ gen \in Nat
    BY SecretFields, RandomSecretConstants DEF SecretInv, Typed, Follows
  <1>4. ASSUME NEW copy, copy.meta.uid \in Nat, NotAfter(copy)
        PROVE  NotAfter(copy)'
    <2>1. copy.meta.uid <= lastGen'
      BY <1>3, <1>4 DEF NotAfter, Follows
    <2>2. CASE ~Exists(new.meta)
      BY <1>1, <2>1, <2>2, NoSecretFacts DEF NotAfter, Exists, Follows
    <2>3. CASE new.meta.uid > lastGen /\ new.since = Never
      BY <1>1, <1>3, <1>4, <2>1, <2>3 DEF NotAfter
    <2>4. CASE /\ new.meta.uid = api.meta.uid /\ new.since = api.since
               /\ api.meta.deleting => new.meta.deleting
      BY <1>1, <1>4, <2>1, <2>4 DEF NotAfter
    <2>5. QED
      BY <2>2, <2>3, <2>4 DEF Follows
  <1>5. NotAfter(cache)' /\ NotAfter(inst)'
    <2>1. NotAfter(cache) /\ NotAfter(inst)
      BY DEF SecretInv, Copies
    <2>2. NotAfter(cache') /\ NotAfter(inst') /\ cache' = cache /\ inst' = inst
      BY <1>1, <2>1
    <2>3. QED
      BY <1>1, <1>3, <1>4, <2>1 DEF NotAfter
  <1>6. Copies'
    BY <1>1, <1>5 DEF SecretInv, Copies, Follows
  <1>7. Cleans'
    <2>1. cleaned' => Gone(new)
      <3>1. SUFFICES ASSUME cleaned' = TRUE, Exists(new.meta) PROVE new.meta.deleting
        BY <1>2 DEF Typed, Gone
      <3>2. cleaned /\ new.meta.uid <= lastGen
        BY <3>1
      <3>3. Exists(api.meta) /\ (api.meta.deleting => new.meta.deleting)
        BY <1>3, <3>1, <3>2 DEF Follows
      <3>4. QED
        BY <3>2, <3>3 DEF SecretInv, Cleans, Gone
    <2>2. QED
      BY <1>1, <2>1 DEF SecretInv, Typed, Cleans, Gone, NothingLeft
  <1>8. StatusNotAhead' /\ CopyNotAhead'
    BY <1>1 DEF SecretInv, StatusNotAhead, CopyNotAhead, Live, Follows
  <1>9. QED
    BY <1>2, <1>6, <1>7, <1>8 DEF SecretInv

(* The requests of users, and the end of a foreground deletion.           *)
LEMMA UserStep ==
  ASSUME SecretInv, UserCreate \/ UserEdit \/ UserDelete \/ GarbageCollect
  PROVE  SecretInv'
  <1>1. /\ api \in RandomSecrets /\ api.meta \in Object /\ api.meta.uid \in Nat
        /\ api.meta.uid <= lastGen /\ lastGen \in 0..MaxGen /\ MaxGen \in Nat
        /\ ~Exists(api.meta) => api = NoSecret
        /\ api.meta.deleting \in BOOLEAN /\ api.meta.gen \in Nat
    BY SecretFields, RandomSecretConstants DEF SecretInv, Typed, Copies, Object
  <1>2. lastGen \in Nat /\ NextGen \in Nat /\ NextGen # 0 /\ NextGen > lastGen
    BY <1>1 DEF NextGen
  <1>3. Bump => lastGen' = NextGen /\ NextGen \in 0..MaxGen
    BY <1>1 DEF Bump, NextGen
  <1>4. CASE UserCreate
    <2>1. PICK r \in Periods, p \in Policies :
            StoreByOther([NoSecret EXCEPT !.meta = Created(NextGen),
                                          !.refresh = r, !.policy = p])
      BY <1>4 DEF UserCreate
    <2> DEFINE new == [NoSecret EXCEPT !.meta = Created(NextGen),
                                       !.refresh = r, !.policy = p]
    <2>2. /\ Created(NextGen) \in Object /\ Created(NextGen).uid = NextGen
          /\ ~Created(NextGen).deleting /\ Exists(Created(NextGen))
      BY <1>2 DEF Created, Absent, Object, Exists, CondTypes
    <2>3. /\ new \in RandomSecrets /\ new.meta = Created(NextGen)
          /\ new.since = Never
      <3>1. /\ NoSecret \in RandomSecrets /\ Created(NextGen) \in Object
            /\ r \in Periods /\ p \in Policies
        BY <2>1, <2>2, NoSecretFacts
      <3>2. new \in RandomSecrets /\ new.meta = Created(NextGen) /\ new.since = NoSecret.since
        BY <3>1, RandomSecretConstants DEF RandomSecrets
      <3>3. QED
        BY <3>2, NoSecretFacts
    <2> HIDE DEF new
    <2>4. Follows(new, NextGen)
      <3>1. Bump
        BY <1>4 DEF UserCreate
      <3>2. Exists(new.meta) /\ new.meta.uid = NextGen /\ ~new.meta.deleting
        BY <2>2, <2>3
      <3>3. QED
        BY <1>2, <1>3, <2>3, <3>1, <3>2, RandomSecretConstants DEF Follows
    <2>5. StoreByOther(new) /\ lastGen' = NextGen /\ cleaned' = FALSE
      BY <1>3, <1>4, <2>1 DEF UserCreate, new
    <2>6. QED
      BY <2>4, <2>5, StoredByOther
  <1>5. CASE UserEdit
    <2>1. PICK r \in Periods, p \in Policies :
            StoreByOther([api EXCEPT !.meta = Edited(api.meta, NextGen),
                                     !.refresh = r, !.policy = p])
      BY <1>5 DEF UserEdit
    <2> DEFINE m == Edited(api.meta, NextGen)
               new == [api EXCEPT !.meta = m, !.refresh = r, !.policy = p]
    <2>2. m \in Object /\ m.uid = api.meta.uid /\ m.deleting = api.meta.deleting
      BY <1>1, <1>2 DEF Edited, Object
    <2>3. new \in RandomSecrets /\ new.meta = m /\ new.since = api.since
      <3>1. /\ api \in RandomSecrets /\ m \in Object
            /\ r \in Periods /\ p \in Policies
        BY <1>1, <2>1, <2>2
      <3>2. QED
        BY <3>1, RandomSecretConstants DEF RandomSecrets
    <2> HIDE DEF new
    <2>4. Exists(api.meta) /\ Exists(new.meta)
      BY <1>5, <2>2, <2>3 DEF UserEdit, Exists
    <2>5. Follows(new, NextGen) /\ new.meta.uid <= lastGen
      <3>1. Bump
        BY <1>5 DEF UserEdit
      <3>2. new.meta.uid = api.meta.uid /\ new.meta.deleting = api.meta.deleting
        BY <2>2, <2>3
      <3>3. QED
        BY <1>1, <1>2, <1>3, <2>3, <2>4, <3>1, <3>2 DEF Follows
    <2>6. StoreByOther(new) /\ lastGen' = NextGen /\ cleaned' = cleaned
      BY <1>3, <1>5, <2>1 DEF UserEdit, new
    <2>7. QED
      BY <2>5, <2>6, StoredByOther
  <1>6. ASSUME StoreByOther(NoSecret), lastGen' = lastGen, cleaned' = cleaned
        PROVE  SecretInv'
    <2>1. Follows(NoSecret, lastGen) /\ NoSecret.meta.uid <= lastGen
      BY <1>1, <1>2, NoSecretFacts DEF Follows
    <2>2. QED
      BY <1>6, <2>1, StoredByOther
  <1>7. ASSUME NEW m \in Object, m.uid = api.meta.uid, Exists(api.meta),
               api.meta.deleting => m.deleting,
               StoreByOther([api EXCEPT !.meta = m]), cleaned' = cleaned,
               lastGen' = lastGen \/ Bump
        PROVE  SecretInv'
    <2> DEFINE new == [api EXCEPT !.meta = m]
    <2>1. new \in RandomSecrets /\ new.meta = m /\ new.since = api.since
      BY <1>1, SecretFields
    <2>2. lastGen' \in 0..MaxGen /\ lastGen <= lastGen'
      BY <1>1, <1>2, <1>3, <1>7
    <2>3. Follows(new, lastGen') /\ new.meta.uid <= lastGen
      BY <1>1, <1>7, <2>1, <2>2 DEF Follows, Exists
    <2>4. QED
      BY <1>7, <2>3, StoredByOther
  <1>8. CASE UserDelete
    <2>1. CASE StoreByOther(NoSecret) /\ lastGen' = lastGen
      BY <1>6, <1>8, <2>1 DEF UserDelete
    <2>2. ASSUME NEW foreground \in BOOLEAN, Bump,
                 StoreByOther([api EXCEPT
                   !.meta = MarkedDeleted(api.meta, NextGen, foreground)])
          PROVE  SecretInv'
      <3> DEFINE m == MarkedDeleted(api.meta, NextGen, foreground)
      <3>1. m \in Object /\ m.uid = api.meta.uid /\ m.deleting
        <4>1. api.meta \in Object /\ NextGen \in Nat /\ foreground \in BOOLEAN
          BY <1>1, <1>2, <2>2
        <4>2. QED
          BY <4>1 DEF MarkedDeleted, Object
      <3>2. Exists(api.meta) /\ cleaned' = cleaned
        BY <1>8 DEF UserDelete
      <3>3. QED
        BY <1>7, <2>2, <3>1, <3>2
    <2>3. QED
      BY <1>8, <2>1, <2>2 DEF UserDelete
  <1>9. CASE GarbageCollect
    <2> DEFINE m == Released(api.meta)
    <2>1. /\ m \in Object
          /\ m = Absent \/ (m.uid = api.meta.uid /\ m.deleting = api.meta.deleting)
      BY <1>1, AbsentFacts DEF Released, Object
    <2>2. /\ StoreByOther(WithMeta(api, m))
          /\ lastGen' = lastGen /\ cleaned' = cleaned
      BY <1>9 DEF GarbageCollect
    <2>3. CASE ~Exists(m)
      BY <1>6, <2>2, <2>3 DEF WithMeta
    <2>4. CASE Exists(m)
      <3>1. m.uid = api.meta.uid /\ m.deleting = api.meta.deleting
        BY <2>1, <2>4, AbsentFacts
      <3>2. Exists(api.meta) /\ StoreByOther([api EXCEPT !.meta = m])
        BY <2>2, <2>4, <3>1 DEF WithMeta, Exists
      <3>3. QED
        BY <1>7, <2>1, <2>2, <3>1, <3>2
    <2>5. QED
      BY <2>3, <2>4
  <1>10. QED
    BY <1>4, <1>5, <1>8, <1>9

-----------------------------------------------------------------------------
(* Time: what is recorded and what was written age alike.                  *)
LEMMA TickStep ==
  ASSUME SecretInv, Tick
  PROVE  SecretInv'
  <1>1. /\ api' = Aged(api) /\ cache' = Aged(cache) /\ inst' = Aged(inst)
        /\ vaultAge' = Older(vaultAge)
        /\ timer' = IF timer > 0 THEN timer - 1 ELSE 0
        /\ queued' = (queued \/ timer = 1)
        /\ UNCHANGED <<lastGen, cacheCurrent, pc, instCurrent, issue, requeueAfter,
                       twice, vault, cleaned, faults, crashes>>
    BY DEF Tick
  <1>2. /\ api \in RandomSecrets /\ cache \in RandomSecrets /\ inst \in RandomSecrets
        /\ vaultAge \in 0..MaxAge
        /\ api.since \in 0..Never /\ inst.since \in 0..Never
    BY SecretFields DEF SecretInv, Typed
  <1>3. /\ api' \in RandomSecrets /\ cache' \in RandomSecrets /\ inst' \in RandomSecrets
        /\ api'.meta = api.meta /\ cache'.meta = cache.meta /\ inst'.meta = inst.meta
        /\ inst'.policy = inst.policy
        /\ api'.since = Older(api.since) /\ inst'.since = Older(inst.since)
        /\ api = NoSecret => api' = NoSecret
        /\ inst' = NoSecret <=> inst = NoSecret
    BY <1>1, <1>2, AgedFacts
  <1>4. /\ vaultAge' \in 0..MaxAge
        /\ api'.since = Never <=> api.since = Never
        /\ inst'.since = Never <=> inst.since = Never
    BY <1>1, <1>2, <1>3, Ages
  <1>5. /\ vaultAge <= api.since /\ api.since # Never => vaultAge' <= api'.since
        /\ vaultAge <= inst.since /\ inst.since # Never => vaultAge' <= inst'.since
    BY <1>1, <1>2, <1>3, Ages
  <1>6. Typed'
    <2>1. timer' \in 0..MaxAge /\ queued' \in BOOLEAN
      BY <1>1, RandomSecretConstants DEF SecretInv, Typed
    <2>2. QED
      BY <1>1, <1>3, <1>4, <2>1 DEF SecretInv, Typed
  <1>7. Copies'
    <2>1. NotAfter(cache)' /\ NotAfter(inst)'
      BY <1>1, <1>3, <1>4 DEF SecretInv, Copies, NotAfter
    <2>2. QED
      BY <1>1, <1>3, <2>1 DEF SecretInv, Copies
  <1>8. Cleans'
    BY <1>1, <1>3 DEF SecretInv, Cleans, Gone, NothingLeft
  <1>9. StatusNotAhead' /\ CopyNotAhead'
    BY <1>1, <1>3, <1>4, <1>5 DEF SecretInv, StatusNotAhead, CopyNotAhead, Live
  <1>10. QED
    BY <1>6, <1>7, <1>8, <1>9 DEF SecretInv

(* An event brings the stored version, or tells that an incarnation is gone. *)
LEMMA WatchStep ==
  ASSUME SecretInv, Watch
  PROVE  SecretInv'
  <1> DEFINE created == ~Exists(cache.meta)
             replaced == ~created /\ cache.meta.uid # api.meta.uid
  <1>1. /\ cache' = IF replaced THEN NoSecret ELSE api
        /\ cacheCurrent' = (replaced => ~Exists(api.meta))
        /\ UNCHANGED <<api, lastGen, cleaned, timer, pc, inst, instCurrent, issue,
                       requeueAfter, twice, vault, vaultAge, faults, crashes>>
    BY DEF Watch, kube, worker, kv
  <1>2. queued' \in BOOLEAN
    <2>1. queued \in BOOLEAN
      BY DEF SecretInv, Typed
    <2>2. PICK formatChanged \in BOOLEAN :
            queued' = (\/ queued \/ replaced
                       \/ created /\ Exists(api.meta)
                       \/ ~created /\ UpdatePasses(cache, api, formatChanged))
      BY DEF Watch
    <2>3. QED
      BY <2>1, <2>2
  <1>3. Typed'
    BY <1>1, <1>2, NoSecretFacts DEF SecretInv, Typed
  <1>4. /\ api.meta.uid \in Nat /\ lastGen \in Nat
        /\ api.meta.uid <= lastGen /\ (~Exists(api.meta) => api = NoSecret)
    BY SecretFields, RandomSecretConstants DEF SecretInv, Typed, Copies
  <1>5. NotAfter(api) /\ NotAfter(NoSecret)
    BY <1>4, NoSecretFacts DEF NotAfter
  <1>6. NotAfter(cache)' /\ NotAfter(inst)'
    BY <1>1, <1>5 DEF SecretInv, Copies, NotAfter
  <1>7. instCurrent => cache' = api
    <2>1. instCurrent => Exists(cache.meta) /\ cache.meta.uid = api.meta.uid
      BY DEF SecretInv, Copies, Exists
    <2>2. QED
      BY <1>1, <2>1
  <1>8. Copies'
    <2>1. cacheCurrent' => cache' = api
      BY <1>1, <1>4
    <2>2. QED
      BY <1>1, <1>6, <1>7, <2>1 DEF SecretInv, Copies
  <1>9. Cleans' /\ StatusNotAhead' /\ CopyNotAhead'
    BY <1>1, NoSecretFacts
       DEF SecretInv, Cleans, Gone, NothingLeft, StatusNotAhead, CopyNotAhead, Live
  <1>10. QED
    BY <1>3, <1>8, <1>9 DEF SecretInv

LEMMA ResyncStep ==
  ASSUME SecretInv, Resync
  PROVE  SecretInv'
  <1>1. /\ queued' = TRUE
        /\ UNCHANGED <<api, lastGen, cleaned, cache, cacheCurrent, timer, pc, inst,
                       instCurrent, issue, requeueAfter, twice, vault, vaultAge,
                       faults, crashes>>
    BY DEF Resync, kube, informer, worker, kv
  <1>2. Typed'
    BY <1>1 DEF SecretInv, Typed
  <1>3. Copies' /\ Cleans' /\ StatusNotAhead' /\ CopyNotAhead'
    BY <1>1 DEF SecretInv, Copies, NotAfter, Cleans, Gone, NothingLeft,
                StatusNotAhead, CopyNotAhead, Live
  <1>4. QED
    BY <1>2, <1>3 DEF SecretInv

(* A restart forgets the cache and the worker's copy.                      *)
LEMMA CrashStep ==
  ASSUME SecretInv, Crash
  PROVE  SecretInv'
  <1>1. /\ crashes < MaxCrashes /\ crashes' = crashes + 1
        /\ queued' = FALSE /\ timer' = 0
        /\ cache' = NoSecret /\ cacheCurrent' = ~Exists(api.meta)
        /\ pc' = "idle" /\ inst' = NoSecret /\ instCurrent' = FALSE
        /\ issue' = FALSE /\ requeueAfter' = 0 /\ twice' = FALSE
        /\ UNCHANGED <<api, lastGen, cleaned, vault, vaultAge, faults>>
    BY DEF Crash, kube, kv
  <1>2. Typed'
    <2>1. 0 \in 0..MaxAge /\ crashes' \in 0..MaxCrashes /\ pc' \in PCs
      BY <1>1, RandomSecretConstants DEF SecretInv, Typed, PCs
    <2>2. QED
      BY <1>1, <2>1, NoSecretFacts DEF SecretInv, Typed
  <1>3. Copies'
    <2>1. lastGen \in Nat /\ api.meta.uid \in Nat
      BY SecretFields, RandomSecretConstants DEF SecretInv, Typed
    <2>2. cacheCurrent' => cache' = api'
      BY <1>1 DEF SecretInv, Copies
    <2>3. NotAfter(cache)' /\ NotAfter(inst)'
      BY <1>1, <2>1, NoSecretFacts DEF NotAfter
    <2>4. QED
      BY <1>1, <2>2, <2>3 DEF SecretInv, Copies
  <1>4. Cleans' /\ StatusNotAhead' /\ CopyNotAhead'
    BY <1>1, NoSecretFacts
       DEF SecretInv, Cleans, Gone, NothingLeft, StatusNotAhead, CopyNotAhead, Live
  <1>5. QED
    BY <1>2, <1>3, <1>4 DEF SecretInv

-----------------------------------------------------------------------------
(* The worker.  What a cycle changes of the work queue and of its own      *)
(* variables keeps their types.                                            *)
WorkTyped ==
    /\ queued \in BOOLEAN /\ timer \in 0..MaxAge /\ requeueAfter \in 0..MaxAge
    /\ issue \in BOOLEAN /\ twice \in BOOLEAN /\ instCurrent \in BOOLEAN
    /\ inst \in RandomSecrets /\ pc \in PCs /\ (pc = "idle" <=> inst = NoSecret)

Rests == pc' = "idle" /\ inst' = NoSecret /\ instCurrent' = FALSE

Counts == faults' \in 0..MaxFaults

LEMMA DoneFacts ==
  ASSUME SecretInv, NEW err \in BOOLEAN, Done(err)
  PROVE  WorkTyped' /\ Rests
  <1>1. /\ pc' = "idle" /\ inst' = NoSecret /\ instCurrent' = FALSE
        /\ issue' = FALSE /\ requeueAfter' = 0 /\ twice' = FALSE
        /\ queued' = (queued \/ err)
        /\ timer' = IF err THEN timer ELSE Earlier(timer, requeueAfter)
    BY DEF Done
  <1>2. /\ queued \in BOOLEAN /\ timer \in 0..MaxAge /\ requeueAfter \in 0..MaxAge
        /\ 0 \in 0..MaxAge
    BY RandomSecretConstants DEF SecretInv, Typed
  <1>3. Earlier(timer, requeueAfter) \in 0..MaxAge
    BY <1>2 DEF Earlier
  <1>4. timer' \in 0..MaxAge
    BY <1>1, <1>2, <1>3
  <1>5. QED
    BY <1>1, <1>2, <1>4, NoSecretFacts DEF WorkTyped, Rests, PCs

LEMMA FailFacts ==
  ASSUME SecretInv, pc # "idle", Fail
  PROVE  /\ WorkTyped' /\ pc' = "status"
         /\ inst' = inst /\ instCurrent' = instCurrent
  <1>1. /\ pc' = "status" /\ issue' = TRUE /\ requeueAfter' = 0 /\ twice' = FALSE
        /\ UNCHANGED <<inst, instCurrent, queued, timer>>
    BY DEF Fail, work
  <1>2. 0 \in 0..MaxAge
    BY RandomSecretConstants
  <1>3. QED
    BY <1>1, <1>2 DEF SecretInv, Typed, WorkTyped, PCs

LEMMA GotoFacts ==
  ASSUME SecretInv, pc # "idle", NEW next \in PCs, next # "idle", Goto(next)
  PROVE  /\ WorkTyped' /\ pc' = next
         /\ inst' = inst /\ instCurrent' = instCurrent
  BY DEF Goto, work, SecretInv, Typed, WorkTyped

LEMMA CountFacts ==
  ASSUME SecretInv, NoFault \/ Fault
  PROVE  Counts
  BY RandomSecretConstants DEF NoFault, Fault, Counts, SecretInv, Typed

LEMMA OutcomeFacts ==
  ASSUME SecretInv, NEW err \in BOOLEAN, NEW copy \in RandomSecrets,
         Exists(copy.meta), NEW current \in BOOLEAN,
         OutcomeOver(err, copy, current)
  PROVE  /\ WorkTyped'
         /\ \/ Rests
            \/ pc' = "status" /\ inst' = copy /\ instCurrent' = current
  <1>1. CASE twice
    <2>1. /\ twice' = FALSE /\ pc' = "status" /\ inst' = copy /\ instCurrent' = current
          /\ UNCHANGED <<issue, requeueAfter, queued, timer>>
      BY <1>1 DEF OutcomeOver, work
    <2>2. copy # NoSecret
      BY NoSecretFacts
    <2>3. QED
      BY <2>1, <2>2 DEF SecretInv, Typed, WorkTyped, PCs
  <1>2. CASE ~twice
    <2>1. Done(err \/ issue) /\ (err \/ issue) \in BOOLEAN
      BY <1>2 DEF OutcomeOver, SecretInv, Typed
    <2>2. QED
      BY <2>1, DoneFacts
  <1>3. QED
    BY <1>1, <1>2

(* The end of a cycle without a call.                                      *)
LEMMA EndStep ==
  ASSUME SecretInv, WorkTyped', Counts, Rests,
         UNCHANGED <<api, lastGen, cleaned, cache, cacheCurrent, vault, vaultAge,
                     crashes>>
  PROVE  SecretInv'
  <1>1. /\ api' = api /\ lastGen' = lastGen /\ cleaned' = cleaned
        /\ cache' = cache /\ cacheCurrent' = cacheCurrent
        /\ vault' = vault /\ vaultAge' = vaultAge /\ crashes' = crashes
        /\ pc' = "idle" /\ inst' = NoSecret /\ instCurrent' = FALSE
    BY DEF Rests
  <1>2. Typed'
    BY <1>1 DEF SecretInv, Typed, WorkTyped, Counts
  <1>3. NotAfter(cache)' /\ NotAfter(inst)'
    <2>1. lastGen \in Nat
      BY RandomSecretConstants DEF SecretInv, Typed
    <2>2. QED
      BY <1>1, <2>1, NoSecretFacts DEF SecretInv, Copies, NotAfter
  <1>4. Copies'
    BY <1>1, <1>3 DEF SecretInv, Copies
  <1>5. Cleans' /\ StatusNotAhead' /\ CopyNotAhead'
    BY <1>1, NoSecretFacts
       DEF SecretInv, Cleans, Gone, NothingLeft, StatusNotAhead, CopyNotAhead, Live
  <1>6. QED
    BY <1>2, <1>4, <1>5 DEF SecretInv

(* A call that leaves the API server alone; what it does in Vault keeps    *)
(* the promises.                                                           *)
LEMMA CallStep ==
  ASSUME SecretInv, WorkTyped', Counts, pc # "idle", pc' # "idle",
         UNCHANGED <<api, lastGen, cleaned, cache, cacheCurrent, crashes>>,
         inst'.meta.uid = inst.meta.uid, inst'.meta.deleting = inst.meta.deleting,
         inst'.policy = inst.policy, instCurrent' = instCurrent,
         pc' \in {"delete", "removeFinalizer"} => inst.meta.deleting,
         pc' \in {"exists", "generate", "write"} => ~inst.meta.deleting,
         pc' = "removeFinalizer" /\ inst.policy = "Delete" => vault' # "operator",
         vault' \in Writers, vaultAge' \in 0..MaxAge,
         NothingLeft', StatusNotAhead', CopyNotAhead'
  PROVE  SecretInv'
  <1>1. /\ api' = api /\ lastGen' = lastGen /\ cleaned' = cleaned
        /\ cache' = cache /\ cacheCurrent' = cacheCurrent /\ crashes' = crashes
    OBVIOUS
  <1>2. Typed'
    BY <1>1 DEF SecretInv, Typed, WorkTyped, Counts
  <1>3. NotAfter(cache)' /\ NotAfter(inst)'
    BY <1>1 DEF SecretInv, Copies, NotAfter, Exists
  <1>4. Copies'
    BY <1>1, <1>3 DEF SecretInv, Copies, Exists
  <1>5. Cleans'
    BY <1>1 DEF SecretInv, Cleans, Gone, Exists
  <1>6. QED
    BY <1>2, <1>4, <1>5 DEF SecretInv

(* With Vault and the copy as they were, the promises are kept.            *)
LEMMA Unmoved ==
  ASSUME SecretInv, inst'.meta.deleting = inst.meta.deleting,
         inst'.since = inst.since, instCurrent' = instCurrent,
         UNCHANGED <<api, cleaned, vault, vaultAge>>
  PROVE  /\ NothingLeft' /\ StatusNotAhead' /\ CopyNotAhead'
         /\ vault' \in Writers /\ vaultAge' \in 0..MaxAge
  BY DEF SecretInv, Typed, Cleans, NothingLeft, StatusNotAhead, CopyNotAhead, Live

LEMMA TakeStep ==
  ASSUME SecretInv, Take
  PROVE  SecretInv'
  <1>1. /\ pc = "idle" /\ queued' = FALSE
        /\ UNCHANGED <<api, lastGen, cleaned, cache, cacheCurrent, timer,
                       vault, vaultAge, faults, crashes>>
    BY DEF Take, kube, informer, kv
  <1>2. CASE Exists(cache.meta)
    <2>1. /\ inst' = cache /\ instCurrent' = cacheCurrent /\ pc' = "login"
          /\ UNCHANGED <<issue, requeueAfter, twice>>
      BY <1>2 DEF Take
    <2>2. cache # NoSecret
      BY <1>2, NoSecretFacts
    <2>3. Typed'
      BY <1>1, <2>1, <2>2 DEF SecretInv, Typed, PCs
    <2>4. NotAfter(cache)' /\ NotAfter(inst)'
      BY <1>1, <2>1 DEF SecretInv, Copies, NotAfter
    <2>5. Copies'
      BY <1>1, <1>2, <2>1, <2>4 DEF SecretInv, Copies
    <2>6. Cleans'
      BY <1>1, <2>1 DEF SecretInv, Cleans, Gone, NothingLeft
    <2>7. StatusNotAhead' /\ CopyNotAhead'
      <3>1. cacheCurrent => cache = api
        BY DEF SecretInv, Copies
      <3>2. QED
        BY <1>1, <1>2, <2>1, <3>1 DEF SecretInv, StatusNotAhead, CopyNotAhead, Live
    <2>8. QED
      BY <2>3, <2>5, <2>6, <2>7 DEF SecretInv
  <1>3. CASE ~Exists(cache.meta)
    <2>1. UNCHANGED <<pc, inst, instCurrent, issue, requeueAfter, twice>>
      BY <1>3 DEF Take, worker
    <2>2. Typed'
      BY <1>1, <2>1 DEF SecretInv, Typed
    <2>3. Copies' /\ Cleans' /\ StatusNotAhead' /\ CopyNotAhead'
      BY <1>1, <2>1 DEF SecretInv, Copies, NotAfter, Cleans, Gone, NothingLeft,
                        StatusNotAhead, CopyNotAhead, Live
    <2>4. QED
      BY <2>2, <2>3 DEF SecretInv
  <1>4. QED
    BY <1>2, <1>3

(* Calls that only decide where to go on.                                  *)
LEMMA GoesOn ==
  ASSUME SecretInv, Counts, pc # "idle",
         UNCHANGED <<api, lastGen, cleaned, cache, cacheCurrent, vault, vaultAge,
                     crashes>>,
         NEW next \in PCs, next # "idle", Goto(next),
         next \in {"delete", "removeFinalizer"} => inst.meta.deleting,
         next \in {"exists", "generate", "write"} => ~inst.meta.deleting,
         next = "removeFinalizer" => inst.policy = "Retain" \/ vault # "operator"
  PROVE  SecretInv'
  <1>1. WorkTyped' /\ pc' = next /\ inst' = inst /\ instCurrent' = instCurrent
    BY GotoFacts
  <1>2. /\ NothingLeft' /\ StatusNotAhead' /\ CopyNotAhead'
        /\ vault' \in Writers /\ vaultAge' \in 0..MaxAge
    BY <1>1, Unmoved
  <1>3. QED
    BY <1>1, <1>2, CallStep

LEMMA FailsOn ==
  ASSUME SecretInv, Counts, pc # "idle", Fail,
         UNCHANGED <<api, lastGen, cleaned, cache, cacheCurrent, crashes>>,
         vault' \in Writers, vaultAge' \in 0..MaxAge,
         NothingLeft', StatusNotAhead', CopyNotAhead'
  PROVE  SecretInv'
  <1>1. /\ WorkTyped' /\ pc' = "status"
        /\ inst' = inst /\ instCurrent' = instCurrent
    BY FailFacts
  <1>2. QED
    BY <1>1, CallStep

LEMMA LoginStep ==
  ASSUME SecretInv, Login
  PROVE  SecretInv'
  <1>1. /\ pc = "login" /\ Counts
        /\ UNCHANGED <<api, lastGen, cleaned, cache, cacheCurrent, vault, vaultAge,
                       crashes>>
    BY CountFacts DEF Login, kube, informer, kv
  <1>2. ASSUME NEW next \in {"delete", "exists", "generate"}, Goto(next),
               next = "delete" <=> inst.meta.deleting
        PROVE  SecretInv'
    BY <1>1, <1>2, GoesOn DEF PCs
  <1>3. CASE Fail
    <2>1. inst' = inst /\ instCurrent' = instCurrent
      BY <1>1, <1>3, FailFacts
    <2>2. QED
      BY <1>1, <1>3, <2>1, FailsOn, Unmoved
  <1>4. CASE Begin
    <2>1. CASE Done(FALSE)
      BY <1>1, <2>1, DoneFacts, EndStep
    <2>2. CASE inst.meta.deleting /\ inst.policy = "Retain" /\ Goto("removeFinalizer")
      <3>1. "removeFinalizer" \in PCs
        BY DEF PCs
      <3>2. QED
        BY <1>1, <2>2, <3>1, GoesOn
    <2>3. CASE inst.meta.deleting /\ Goto("delete")
      BY <1>2, <2>3
    <2>4. CASE ~inst.meta.deleting /\ (Goto("exists") \/ Goto("generate"))
      BY <1>2, <2>4
    <2>5. QED
      BY <1>4, <2>1, <2>2, <2>3, <2>4 DEF Begin
  <1>5. QED
    BY <1>3, <1>4 DEF Login

LEMMA PrepareSteps ==
  ASSUME SecretInv, CheckExists \/ Generate
  PROVE  SecretInv'
  <1>1. /\ pc \in {"exists", "generate"} /\ Counts /\ ~inst.meta.deleting
        /\ UNCHANGED <<api, lastGen, cleaned, cache, cacheCurrent, vault, vaultAge,
                       crashes>>
    BY CountFacts DEF CheckExists, Generate, kube, informer, kv, SecretInv, Cleans
  <1>2. \/ Fail
        \/ \E next \in {"generate", "write", "status"} : Goto(next)
    BY DEF CheckExists, Generate
  <1>3. CASE Fail
    <2>1. inst' = inst /\ instCurrent' = instCurrent
      BY <1>1, <1>3, FailFacts
    <2>2. QED
      BY <1>1, <1>3, <2>1, FailsOn, Unmoved
  <1>4. ASSUME NEW next \in {"generate", "write", "status"}, Goto(next)
        PROVE  SecretInv'
    BY <1>1, <1>4, GoesOn DEF PCs
  <1>5. QED
    BY <1>2, <1>3, <1>4

(* The write makes every recorded time true, and cannot come after a       *)
(* cleanup, for then the worker's copy would be a deleted one.             *)
LEMMA WriteStep ==
  ASSUME SecretInv, Write
  PROVE  SecretInv'
  <1>1. /\ pc = "write" /\ Counts
        /\ UNCHANGED <<api, lastGen, cleaned, cache, cacheCurrent, crashes>>
    BY CountFacts DEF Write, kube, informer
  <1>2. /\ Exists(inst.meta) /\ ~inst.meta.deleting /\ ~cleaned
    BY <1>1 DEF SecretInv, Copies, Cleans, Gone
  <1>3. 0 \in 0..MaxAge /\ 0 \in 0..Never /\ inst.since \in 0..Never /\ api.since \in 0..Never
    BY SecretFields, RandomSecretConstants DEF Never, SecretInv, Typed
  <1>4. ASSUME vault' = "operator", vaultAge' = 0,
               inst'.since \in 0..Never, instCurrent' = instCurrent
        PROVE  /\ NothingLeft' /\ StatusNotAhead' /\ CopyNotAhead'
               /\ vault' \in Writers /\ vaultAge' \in 0..MaxAge
    BY <1>1, <1>2, <1>3, <1>4
       DEF NothingLeft, StatusNotAhead, CopyNotAhead, Live, Writers
  <1>5. CASE Fail
    <2>1. inst' = inst /\ instCurrent' = instCurrent
      BY <1>1, <1>5, FailFacts
    <2>2. CASE vault' = "operator" /\ vaultAge' = 0
      BY <1>1, <1>3, <1>4, <1>5, <2>1, <2>2, FailsOn
    <2>3. CASE UNCHANGED <<vault, vaultAge>>
      BY <1>1, <1>5, <2>1, <2>3, FailsOn, Unmoved
    <2>4. QED
      BY <2>2, <2>3 DEF Write
  <1>6. CASE /\ vault' = "operator" /\ vaultAge' = 0
             /\ inst' = [inst EXCEPT !.since = 0]
             /\ pc' = "status" /\ Reschedule
             /\ UNCHANGED <<instCurrent, issue, work>>
    <2>1. inst \in RandomSecrets /\ inst.refresh \in 0..MaxAge
      BY SecretFields DEF SecretInv, Typed
    <2>2. /\ inst' \in RandomSecrets /\ inst'.meta = inst.meta
          /\ inst'.policy = inst.policy /\ inst'.since = 0
      BY <1>3, <1>6, <2>1 DEF RandomSecrets
    <2>3. inst' # NoSecret
      BY <1>2, <2>2, NoSecretFacts
    <2>4. /\ requeueAfter' \in 0..MaxAge /\ twice' \in BOOLEAN
          /\ UNCHANGED <<instCurrent, issue, queued, timer>> /\ pc' = "status"
      <3>1. 1 \in 0..MaxAge
        BY RandomSecretConstants
      <3>2. CASE requeueAfter' = inst.refresh /\ twice' = (inst.refresh > 0)
        BY <1>6, <2>1, <3>2 DEF work
      <3>3. CASE requeueAfter' = 1 /\ twice' = FALSE
        BY <1>6, <3>1, <3>3 DEF work
      <3>4. QED
        BY <1>6, <3>2, <3>3 DEF Reschedule
    <2>5. WorkTyped'
      BY <2>2, <2>3, <2>4 DEF SecretInv, Typed, WorkTyped, PCs
    <2>6. QED
      BY <1>1, <1>3, <1>4, <1>6, <2>2, <2>4, <2>5, CallStep
  <1>7. QED
    BY <1>5, <1>6 DEF Write

(* Only a deleted resource's secret is deleted.                            *)
LEMMA DeleteStep ==
  ASSUME SecretInv, Delete
  PROVE  SecretInv'
  <1>1. /\ pc = "delete" /\ Counts
        /\ UNCHANGED <<api, lastGen, cleaned, cache, cacheCurrent, crashes>>
    BY CountFacts DEF Delete, kube, informer
  <1>2. inst.meta.deleting /\ (Live(api) => api.since = Never)
    BY <1>1 DEF SecretInv, Copies, NotAfter, Cleans, Live
  <1>3. 0 \in 0..MaxAge
    BY RandomSecretConstants
  <1>4. ASSUME vault' = "nobody", vaultAge' = 0, inst' = inst
        PROVE  /\ NothingLeft' /\ StatusNotAhead' /\ CopyNotAhead'
               /\ vault' \in Writers /\ vaultAge' \in 0..MaxAge
    BY <1>1, <1>2, <1>3, <1>4
       DEF NothingLeft, StatusNotAhead, CopyNotAhead, Live, Writers
  <1>5. CASE Fail
    <2>1. inst' = inst /\ instCurrent' = instCurrent
      BY <1>1, <1>5, FailFacts
    <2>2. CASE vault' = "nobody" /\ vaultAge' = 0
      BY <1>1, <1>4, <1>5, <2>1, <2>2, FailsOn
    <2>3. CASE UNCHANGED <<vault, vaultAge>>
      BY <1>1, <1>5, <2>1, <2>3, FailsOn, Unmoved
    <2>4. QED
      BY <2>2, <2>3 DEF Delete
  <1>6. CASE vault' = "nobody" /\ vaultAge' = 0 /\ Goto("removeFinalizer")
    <2>1. /\ WorkTyped' /\ pc' = "removeFinalizer"
          /\ inst' = inst /\ instCurrent' = instCurrent
      BY <1>1, <1>6, GotoFacts DEF PCs
    <2>2. QED
      BY <1>1, <1>2, <1>4, <1>6, <2>1, CallStep
  <1>7. QED
    BY <1>5, <1>6 DEF Delete

-----------------------------------------------------------------------------
(* The worker stores its copy, and is then at rest or goes on with it.  As *)
(* the copy is current, the stored object is of the same incarnation.      *)
SameSecret(a, b) ==
    /\ a.meta.uid = b.meta.uid /\ a.meta.deleting = b.meta.deleting
    /\ a.policy = b.policy /\ a.since = b.since

LEMMA StoredByWorkerStep ==
  ASSUME SecretInv, WorkTyped', Counts, pc # "idle", NEW obj \in RandomSecrets,
         SameSecret(obj, inst), StoreByWorker(obj),
         UNCHANGED <<cleaned, vault, vaultAge, crashes>>,
         \/ Rests
         \/ SameSecret(inst', inst) /\ pc' \in {"status", "addFinalizer"}
  PROVE  SecretInv'
  <1>1. /\ instCurrent /\ api' = obj /\ cacheCurrent' = FALSE
        /\ UNCHANGED <<cache, lastGen, cleaned, vault, vaultAge, crashes>>
    BY DEF StoreByWorker
  <1>2. /\ Exists(inst.meta) /\ inst.meta.uid <= lastGen
        /\ inst.meta.uid = api.meta.uid /\ inst.meta.deleting = api.meta.deleting
        /\ cache.meta.uid = inst.meta.uid
        /\ inst.meta.deleting => cache.meta.deleting
        /\ cache.meta.deleting => inst.meta.deleting
        /\ lastGen \in Nat
    <2>1. Exists(inst.meta)
      BY DEF SecretInv, Copies
    <2>2. cache.meta.uid = inst.meta.uid /\ inst.meta.uid = api.meta.uid
      BY <1>1 DEF SecretInv, Copies
    <2>3. cache.meta.deleting => inst.meta.deleting
      BY <1>1, <2>1, <2>2 DEF SecretInv, Copies, NotAfter, Exists
    <2>4. QED
      BY <1>1, <2>1, <2>2, <2>3, RandomSecretConstants
         DEF SecretInv, Typed, Copies, NotAfter
  <1>3. /\ obj.meta.uid = inst.meta.uid /\ obj.meta.deleting = inst.meta.deleting
        /\ obj.since = inst.since
    BY DEF SameSecret
  <1>4. \/ Rests
        \/ /\ pc' \in {"status", "addFinalizer"}
           /\ inst'.meta.uid = inst.meta.uid /\ inst'.meta.deleting = inst.meta.deleting
           /\ inst'.since = inst.since
    BY DEF SameSecret
  <1>5. Typed'
    BY <1>1 DEF SecretInv, Typed, WorkTyped, Counts
  <1>6. NotAfter(cache)' /\ NotAfter(inst)'
    <2>1. NotAfter(cache)'
      BY <1>1, <1>2, <1>3 DEF NotAfter
    <2>2. CASE Rests
      <3>1. inst' = NoSecret /\ inst'.meta.uid = 0 /\ ~Exists(inst'.meta)
        BY <2>2, NoSecretFacts DEF Rests
      <3>2. 0 <= lastGen'
        BY <1>1, <1>2
      <3>3. QED
        BY <2>1, <3>1, <3>2 DEF NotAfter
    <2>3. CASE ~Rests
      BY <1>1, <1>2, <1>3, <1>4, <2>3 DEF NotAfter
    <2>4. QED
      BY <2>1, <2>2, <2>3
  <1>7. Copies'
    <2>1. Exists(api'.meta) /\ api'.meta.uid <= lastGen'
      BY <1>1, <1>2, <1>3 DEF Exists
    <2>2. CASE Rests
      BY <1>1, <1>6, <2>1, <2>2 DEF Rests, Copies
    <2>3. CASE ~Rests
      BY <1>1, <1>2, <1>3, <1>4, <1>6, <2>1, <2>3 DEF Copies, Exists
    <2>4. QED
      BY <2>2, <2>3
  <1>8. Cleans'
    <2>1. cleaned => inst.meta.deleting
      BY <1>2 DEF SecretInv, Cleans, Gone
    <2>2. cleaned' => Gone(api)' /\ Gone(cache)'
      BY <1>1, <1>2, <1>3, <2>1 DEF Gone
    <2>3. cleaned' => Gone(inst)'
      BY <1>1, <1>4, <2>1, NoSecretFacts DEF Gone, Rests
    <2>4. QED
      BY <1>1, <1>4, <2>2, <2>3 DEF SecretInv, Cleans, NothingLeft, Rests
  <1>9. StatusNotAhead' /\ CopyNotAhead'
    <2>1. StatusNotAhead'
      BY <1>1, <1>3 DEF SecretInv, CopyNotAhead, StatusNotAhead, Live
    <2>2. CASE Rests
      BY <2>1, <2>2 DEF Rests, CopyNotAhead
    <2>3. CASE ~Rests
      <3>1. ~inst'.meta.deleting => ~inst.meta.deleting
        BY <1>4, <2>3
      <3>2. inst'.since = inst.since /\ UNCHANGED <<vault, vaultAge>>
        BY <1>1, <1>4, <2>3
      <3>3. ~inst.meta.deleting /\ inst.since # Never
              => vault = "operator" /\ vaultAge <= inst.since
        BY <1>1 DEF SecretInv, CopyNotAhead
      <3>4. QED
        BY <2>1, <3>1, <3>2, <3>3 DEF CopyNotAhead
    <2>4. QED
      BY <2>1, <2>2, <2>3
  <1>10. QED
    BY <1>5, <1>7, <1>8, <1>9 DEF SecretInv

(* An update that was not stored: the copy may have changed none the less. *)
LEMMA RejectedStep ==
  ASSUME SecretInv, WorkTyped', Counts, pc # "idle", Rejected,
         UNCHANGED <<cleaned, vault, vaultAge, crashes>>,
         \/ Rests
         \/ SameSecret(inst', inst) /\ pc' = "status" /\ instCurrent' = instCurrent
  PROVE  SecretInv'
  <1>1. UNCHANGED <<api, lastGen, cleaned, cache, cacheCurrent, vault, vaultAge,
                    crashes>>
    BY DEF Rejected, informer
  <1>2. CASE Rests
    BY <1>1, <1>2, EndStep
  <1>3. CASE ~Rests
    <2>1. /\ pc' = "status" /\ instCurrent' = instCurrent
          /\ inst'.meta.uid = inst.meta.uid /\ inst'.meta.deleting = inst.meta.deleting
          /\ inst'.policy = inst.policy /\ inst'.since = inst.since
      BY <1>3 DEF SameSecret
    <2>2. /\ NothingLeft' /\ StatusNotAhead' /\ CopyNotAhead'
          /\ vault' \in Writers /\ vaultAge' \in 0..MaxAge
      BY <1>1, <2>1, Unmoved
    <2>3. QED
      BY <1>1, <2>1, <2>2, CallStep
  <1>4. QED
    BY <1>2, <1>3

(* What the two updates make of the copy.                                  *)
LEMMA Updated ==
  ASSUME NEW obj \in RandomSecrets, Exists(obj.meta), NEW m \in Object,
         m.uid = obj.meta.uid, m.deleting = obj.meta.deleting
  PROVE  LET new == [obj EXCEPT !.meta = m] IN
         new \in RandomSecrets /\ SameSecret(new, obj) /\ Exists(new.meta)
  <1> DEFINE new == [obj EXCEPT !.meta = m]
  <1>1. new \in RandomSecrets /\ new.meta = m /\ new.since = obj.since
        /\ new.policy = obj.policy
    BY SecretFields
  <1>2. QED
    BY <1>1 DEF SameSecret, Exists

(* The three ways in which an update with the copy obj ends.               *)
LEMMA UpdateEnds ==
  ASSUME SecretInv, pc # "idle", UNCHANGED <<cleaned, vault, vaultAge, crashes>>,
         NEW obj \in RandomSecrets, SameSecret(obj, inst), Exists(obj.meta),
         NEW stored \in RandomSecrets, SameSecret(stored, inst), Exists(stored.meta),
         \/ /\ StoreByWorker(stored) /\ NoFault
            /\ \E copy \in {obj, stored} : OutcomeOver(FALSE, copy, TRUE)
         \/ StoreByWorker(stored) /\ Fault /\ OutcomeOver(TRUE, obj, FALSE)
         \/ /\ Rejected
            /\ \E copy \in {inst, obj} : OutcomeOver(TRUE, copy, instCurrent)
  PROVE  SecretInv'
  <1>1. SameSecret(inst, inst) /\ inst \in RandomSecrets /\ Exists(inst.meta)
        /\ instCurrent \in BOOLEAN
    BY DEF SameSecret, SecretInv, Typed, Copies
  <1>2. ASSUME StoreByWorker(stored), NoFault, NEW copy \in {obj, stored},
               OutcomeOver(FALSE, copy, TRUE)
        PROVE  SecretInv'
    <2>1. Counts
      BY <1>2, CountFacts
    <2>2. copy \in RandomSecrets /\ SameSecret(copy, inst) /\ Exists(copy.meta)
      BY <1>2
    <2>3. WorkTyped' /\ (Rests \/ (pc' = "status" /\ inst' = copy))
      BY <1>2, <2>2, OutcomeFacts
    <2>4. QED
      BY <1>2, <2>1, <2>2, <2>3, StoredByWorkerStep
  <1>3. CASE StoreByWorker(stored) /\ Fault /\ OutcomeOver(TRUE, obj, FALSE)
    <2>1. Counts
      BY <1>3, CountFacts
    <2>2. WorkTyped' /\ (Rests \/ (pc' = "status" /\ inst' = obj))
      BY <1>3, OutcomeFacts
    <2>3. QED
      BY <1>3, <2>1, <2>2, StoredByWorkerStep
  <1>4. ASSUME Rejected, NEW copy \in {inst, obj},
               OutcomeOver(TRUE, copy, instCurrent)
        PROVE  SecretInv'
    <2>1. Counts
      BY <1>4, CountFacts DEF Rejected
    <2>2. copy \in RandomSecrets /\ SameSecret(copy, inst) /\ Exists(copy.meta)
      BY <1>1, <1>4
    <2>3. /\ WorkTyped'
          /\ \/ Rests
             \/ pc' = "status" /\ inst' = copy /\ instCurrent' = instCurrent
      BY <1>1, <1>4, <2>2, OutcomeFacts
    <2>4. QED
      BY <1>4, <2>1, <2>2, <2>3, RejectedStep
  <1>5. QED
    BY <1>2, <1>3, <1>4

(* Recording an outcome keeps the identity and the deletion mark.          *)
LEMMA ConditionTypes ==
  ASSUME NEW o \in Object, NEW fail \in BOOLEAN
  PROVE  LET new == AddOrReplaceCondition(o, OutcomeCondition(fail)) IN
         new \in Object /\ new.uid = o.uid /\ new.deleting = o.deleting
  <1> DEFINE type == OutcomeCondition(fail)
             new == AddOrReplaceCondition(o, type)
  <1>1. type \in CondTypes
    BY DEF OutcomeCondition, CondTypes
  <1>2. /\ new.uid = o.uid /\ new.deleting = o.deleting
        /\ new.conds = [o.conds EXCEPT ![type] = o.gen]
        /\ new = [o EXCEPT !.conds = new.conds]
    BY DEF AddOrReplaceCondition, Object
  <1>3. new.conds \in [CondTypes -> Nat]
    BY <1>1, <1>2 DEF Object
  <1>4. QED
    BY <1>2, <1>3 DEF Object

LEMMA StatusOfFacts ==
  ASSUME SecretInv, NEW obj \in RandomSecrets, SameSecret(obj, inst), Exists(obj.meta)
  PROVE  LET stored == StatusOf(obj) IN
         stored \in RandomSecrets /\ SameSecret(stored, inst) /\ Exists(stored.meta)
  <1> DEFINE m == [obj.meta EXCEPT !.finalizer = api.meta.finalizer]
             stored == [obj EXCEPT !.meta = m]
  <1>1. obj.meta \in Object /\ api.meta.finalizer \in BOOLEAN
    BY SecretFields DEF SecretInv, Typed, Object
  <1>2. m \in Object /\ m.uid = obj.meta.uid /\ m.deleting = obj.meta.deleting
    BY <1>1 DEF Object
  <1>3. stored \in RandomSecrets /\ SameSecret(stored, obj) /\ Exists(stored.meta)
    BY <1>2, Updated
  <1>4. StatusOf(obj) = stored
    BY DEF StatusOf
  <1>5. QED
    BY <1>3, <1>4 DEF SameSecret

LEMMA StatusStep ==
  ASSUME SecretInv, Status
  PROVE  SecretInv'
  <1> DEFINE m == AddOrReplaceCondition(inst.meta, OutcomeCondition(issue))
             obj == [inst EXCEPT !.meta = m]
             stored == StatusOf(obj)
  <1>1. /\ pc = "status" /\ UNCHANGED <<cleaned, vault, vaultAge, crashes>>
        /\ Exists(inst.meta) /\ inst \in RandomSecrets /\ inst.meta \in Object
        /\ issue \in BOOLEAN /\ inst.meta.deleting \in BOOLEAN
    BY SecretFields DEF Status, kv, SecretInv, Typed, Copies
  <1>2. m \in Object /\ m.uid = inst.meta.uid /\ m.deleting = inst.meta.deleting
    BY <1>1, ConditionTypes
  <1>3. obj \in RandomSecrets /\ SameSecret(obj, inst) /\ Exists(obj.meta)
    BY <1>1, <1>2, Updated
  <1> HIDE DEF m
  <1>4. stored \in RandomSecrets /\ SameSecret(stored, inst) /\ Exists(stored.meta)
    BY <1>1, <1>3, StatusOfFacts
  <1>5. \/ /\ StoreByWorker(stored) /\ NoFault
           /\ \E copy \in {obj, stored} :
                \/ OutcomeOver(FALSE, copy, TRUE)
                \/ /\ inst' = copy /\ pc' = "addFinalizer"
                   /\ UNCHANGED <<instCurrent, issue, requeueAfter, twice, work>>
        \/ StoreByWorker(stored) /\ Fault /\ OutcomeOver(TRUE, obj, FALSE)
        \/ Rejected /\ OutcomeOver(TRUE, obj, instCurrent)
    BY DEF Status, m
  <1> HIDE DEF obj, stored
  <1>6. ASSUME StoreByWorker(stored), NoFault, NEW copy \in {obj, stored},
               inst' = copy, pc' = "addFinalizer",
               UNCHANGED <<instCurrent, issue, requeueAfter, twice, work>>
        PROVE  SecretInv'
    <2>1. Counts
      BY <1>6, CountFacts
    <2>2. copy \in RandomSecrets /\ SameSecret(copy, inst) /\ Exists(copy.meta)
      BY <1>3, <1>4, <1>6
    <2>3. copy # NoSecret
      BY <2>2, NoSecretFacts
    <2>4. WorkTyped'
      BY <1>6, <2>2, <2>3 DEF SecretInv, Typed, WorkTyped, PCs, work
    <2>5. QED
      BY <1>1, <1>4, <1>6, <2>1, <2>2, <2>4, StoredByWorkerStep
  <1>7. QED
    BY <1>1, <1>3, <1>4, <1>5, <1>6, UpdateEnds

LEMMA AddFinalizerStep ==
  ASSUME SecretInv, AddFinalizer
  PROVE  SecretInv'
  <1> DEFINE m == WithFinalizer(inst.meta)
             obj == [inst EXCEPT !.meta = m]
  <1>1. /\ pc = "addFinalizer" /\ UNCHANGED <<cleaned, vault, vaultAge, crashes>>
        /\ Exists(inst.meta) /\ inst \in RandomSecrets /\ inst.meta \in Object
    BY SecretFields DEF AddFinalizer, kv, SecretInv, Typed, Copies
  <1>2. m \in Object /\ m.uid = inst.meta.uid /\ m.deleting = inst.meta.deleting
    BY <1>1 DEF WithFinalizer, Object
  <1>3. obj \in RandomSecrets /\ SameSecret(obj, inst) /\ Exists(obj.meta)
    BY <1>1, <1>2, Updated
  <1>4. \/ StoreByWorker(obj) /\ NoFault /\ OutcomeOver(FALSE, obj, TRUE)
        \/ StoreByWorker(obj) /\ Fault /\ OutcomeOver(TRUE, obj, FALSE)
        \/ /\ Rejected
           /\ \E copy \in {inst, obj} : OutcomeOver(TRUE, copy, instCurrent)
    BY DEF AddFinalizer
  <1> HIDE DEF obj
  <1>5. QED
    BY <1>1, <1>3, <1>4, UpdateEnds

(* The finalizer goes last, when the secret is gone and every copy is of a *)
(* deleted resource.                                                       *)
LEMMA RemoveFinalizerStep ==
  ASSUME SecretInv, RemoveFinalizer
  PROVE  SecretInv'
  <1> DEFINE m == WithoutFinalizer(inst.meta)
             obj == WithMeta(inst, m)
  <1>1. /\ pc = "removeFinalizer" /\ UNCHANGED <<vault, vaultAge, crashes>> /\ Counts
        /\ Exists(inst.meta) /\ inst \in RandomSecrets /\ inst.meta \in Object
        /\ inst.meta.deleting /\ inst.meta.uid <= lastGen /\ lastGen \in Nat
    <2>1. NoFault \/ Fault
      BY DEF RemoveFinalizer, Rejected
    <2>2. pc = "removeFinalizer" /\ UNCHANGED <<vault, vaultAge, crashes>> /\ Counts
      BY <2>1, CountFacts DEF RemoveFinalizer, kv
    <2>3. QED
      BY <2>2, SecretFields, RandomSecretConstants
         DEF SecretInv, Typed, Copies, NotAfter, Cleans
  <1>2. CASE Rejected /\ Fail /\ UNCHANGED cleaned
    <2>1. UNCHANGED <<api, lastGen, cleaned, cache, cacheCurrent, vault, vaultAge,
                      crashes>>
      BY <1>1, <1>2 DEF Rejected, informer
    <2>2. inst' = inst /\ instCurrent' = instCurrent
      BY <1>1, <1>2, FailFacts
    <2>3. QED
      BY <1>1, <1>2, <2>1, <2>2, FailsOn, Unmoved
  <1>3. CASE /\ StoreByWorker(obj) /\ cleaned' = (inst.policy = "Delete")
             /\ \/ NoFault /\ Done(FALSE)
                \/ /\ Fault /\ pc' = "status" /\ issue' = TRUE
                   /\ instCurrent' = FALSE
                   /\ UNCHANGED <<inst, requeueAfter, twice, work>>
    <2>1. /\ instCurrent /\ api' = obj /\ cacheCurrent' = FALSE
          /\ UNCHANGED <<cache, lastGen>>
      BY <1>3 DEF StoreByWorker
    <2>2. /\ m \in Object
          /\ m = Absent \/ (m.uid = inst.meta.uid /\ m.deleting = inst.meta.deleting)
      BY <1>1, AbsentFacts DEF WithoutFinalizer, Object
    <2>3. /\ obj \in RandomSecrets
          /\ \/ obj = NoSecret
             \/ obj.meta.uid = inst.meta.uid /\ obj.meta.deleting
      <3>1. CASE ~Exists(m)
        BY <3>1, NoSecretFacts DEF WithMeta
      <3>2. CASE Exists(m)
        <4>1. m.uid = inst.meta.uid /\ m.deleting
          BY <1>1, <2>2, <3>2, AbsentFacts
        <4>2. obj = [inst EXCEPT !.meta = m]
          BY <3>2 DEF WithMeta
        <4>3. obj \in RandomSecrets /\ obj.meta = m
          BY <1>1, <2>2, <4>2, SecretFields
        <4>4. QED
          BY <4>1, <4>3
      <3>3. QED
        BY <3>1, <3>2
    <2> HIDE DEF obj
    <2>4. /\ WorkTyped' /\ instCurrent' = FALSE
          /\ \/ Rests
             \/ pc' = "status" /\ inst' = inst
      <3>1. CASE Done(FALSE)
        BY <3>1, DoneFacts DEF Rests
      <3>2. CASE /\ pc' = "status" /\ issue' = TRUE /\ instCurrent' = FALSE
                 /\ UNCHANGED <<inst, requeueAfter, twice, work>>
        BY <1>1, <3>2 DEF SecretInv, Typed, WorkTyped, PCs, work
      <3>3. QED
        BY <1>3, <3>1, <3>2
    <2>5. Typed'
      BY <1>1, <1>3, <2>1, <2>3, <2>4 DEF SecretInv, Typed, WorkTyped, Counts
    <2>6. cache.meta.uid = inst.meta.uid /\ cache.meta.deleting
      BY <1>1, <2>1 DEF SecretInv, Copies
    <2>7. \/ inst' = NoSecret /\ pc' = "idle"
          \/ inst' = inst /\ pc' = "status"
      BY <2>4 DEF Rests
    <2>8. ASSUME NEW copy,
                 copy = NoSecret \/ (copy.meta.uid = inst.meta.uid /\ copy.meta.deleting)
          PROVE  NotAfter(copy)' /\ Gone(copy)
      <3>1. CASE copy = NoSecret
        BY <1>1, <2>1, <3>1, NoSecretFacts DEF NotAfter, Gone
      <3>2. CASE copy.meta.uid = inst.meta.uid /\ copy.meta.deleting
        BY <1>1, <2>1, <2>3, <3>2, NoSecretFacts DEF NotAfter, Gone, Exists
      <3>3. QED
        BY <2>8, <3>1, <3>2
    <2>9. /\ NotAfter(cache)' /\ NotAfter(inst)'
          /\ Gone(cache)' /\ Gone(inst)' /\ Gone(api)'
      <3>1. /\ cache' = cache
            /\ cache'.meta.uid = inst.meta.uid /\ cache'.meta.deleting
        BY <2>1, <2>6
      <3>2. inst' = NoSecret \/ (inst'.meta.uid = inst.meta.uid /\ inst'.meta.deleting)
        BY <1>1, <2>7
      <3>3. Gone(api')
        BY <2>1, <2>3, NoSecretFacts DEF Gone
      <3>4. QED
        BY <1>1, <2>1, <2>3, <3>1, <3>2, <3>3, NoSecretFacts DEF NotAfter, Gone, Exists
    <2>10. Copies'
      BY <1>1, <2>1, <2>3, <2>4, <2>7, <2>9, NoSecretFacts DEF Copies, Exists
    <2>11. Cleans'
      <3>1. cleaned' => vault' # "operator"
        BY <1>1, <1>3 DEF SecretInv, Cleans
      <3>2. QED
        BY <2>7, <2>9, <3>1 DEF Cleans, NothingLeft
    <2>12. StatusNotAhead' /\ CopyNotAhead'
      BY <2>1, <2>4, <2>9 DEF StatusNotAhead, CopyNotAhead, Live, Gone
    <2>13. QED
      BY <2>5, <2>10, <2>11, <2>12 DEF SecretInv
  <1>4. QED
    BY <1>2, <1>3 DEF RemoveFinalizer

-----------------------------------------------------------------------------
LEMMA SecretStuttering ==
  ASSUME SecretInv, UNCHANGED vars
  PROVE  SecretInv'
  <1>1. UNCHANGED <<api, lastGen, cleaned, cache, cacheCurrent, queued, timer, pc,
                    inst, instCurrent, issue, requeueAfter, twice, vault, vaultAge,
                    faults, crashes>>
    BY DEF vars, kube, informer, work, worker, kv
  <1>2. Typed'
    BY <1>1 DEF SecretInv, Typed
  <1>3. Copies' /\ Cleans' /\ StatusNotAhead' /\ CopyNotAhead'
    BY <1>1 DEF SecretInv, Copies, NotAfter, Cleans, Gone, NothingLeft,
                StatusNotAhead, CopyNotAhead, Live
  <1>4. QED
    BY <1>2, <1>3 DEF SecretInv

(* The invariant: the types, how the copies stand to the stored object,    *)
(* what a cleanup leaves, and the truth of the recorded time.              *)
THEOREM SecretInvariant == Spec => []SecretInv
  <1>1. Init => SecretInv
    BY InitSecret
  <1>2. SecretInv /\ [Next]_vars => SecretInv'
    <2>1. ASSUME SecretInv, UserCreate \/ UserEdit \/ UserDelete \/ GarbageCollect
          PROVE  SecretInv'
      BY <2>1, UserStep
    <2>2. ASSUME SecretInv, Tick \/ Watch \/ Resync \/ Crash
          PROVE  SecretInv'
      BY <2>2, TickStep, WatchStep, ResyncStep, CrashStep
    <2>3. ASSUME SecretInv, Step
          PROVE  SecretInv'
      BY <2>3, TakeStep, LoginStep, PrepareSteps, WriteStep, DeleteStep,
         StatusStep, AddFinalizerStep, RemoveFinalizerStep DEF Step
    <2>4. QED
      BY <2>1, <2>2, <2>3, SecretStuttering DEF Next
  <1>3. QED
    BY <1>1, <1>2, PTL DEF Spec

(* Every variable has its type, whatever the periods and bounds.           *)
THEOREM SecretTyped == Spec => []TypeOK
  <1>1. SecretInv => TypeOK
    BY DEF SecretInv, Typed, TypeOK
  <1>2. QED
    BY <1>1, SecretInvariant, PTL

(* While the resource is there, status.lastVaultSecretUpdate stands for a  *)
(* password that the operator wrote and is never later than the last one   *)
(* written (Reconcile, randomsecret_controller.go).                        *)
THEOREM RefreshIsTrue == Spec => []StatusNotAhead
  <1>1. SecretInv => StatusNotAhead
    BY DEF SecretInv
  <1>2. QED
    BY <1>1, SecretInvariant, PTL

(* A finalizer removed under the Delete policy means that the operator's   *)
(* password is gone, and no stale copy, retry or restart writes it again   *)
(* (manageCleanUpLogic, randomsecret_controller.go).                       *)
THEOREM SecretCleanupIsFinal == Spec => []NothingLeft
  <1>1. SecretInv => NothingLeft
    BY DEF SecretInv, Cleans
  <1>2. QED
    BY <1>1, SecretInvariant, PTL

=============================================================================
