----------------------- MODULE PeriodicReconcileProofs -----------------------
(***************************************************************************)
(* The proof that drift detection keeps its promise for every sync period, *)
(* latency and back-off and any number of faults.  DriftBounded is not     *)
(* inductive.  What is: from every state the difference is found within    *)
(* Remaining ticks if nothing fails any more, and the age of a difference  *)
(* and what remains of it never exceed what the faults so far allow.  Each *)
(* tick takes one off Remaining, no other step but a fault adds to it.     *)
(***************************************************************************)
EXTENDS PeriodicReconcile, TLAPS

(* The shape of the variables.  The informer's copy is behind only between *)
(* a status update and its delivery; a resource that neither is queued nor *)
(* waits for a retry has reported success.                                 *)
Typed ==
    /\ success \in 0..Never /\ seen \in 0..Never /\ wrong \in 0..Never
    /\ behind \in BOOLEAN /\ queued \in BOOLEAN
    /\ untilResync \in 0..SyncPeriod /\ backoff \in 0..MaxBackoff
    /\ phase \in {"idle", "compare", "report"}
    /\ elapsed \in 0..Latency /\ (phase = "idle" => elapsed = 0)
    /\ faults \in 0..MaxFaults /\ (backoff > 0 => faults > 0)

Waiting == phase = "idle" /\ ~queued /\ backoff = 0

Delivered ==
    /\ ~behind => seen = success
    /\ phase # "idle" => ~behind
    /\ Waiting => success # Never /\ (behind => success = 0)

(* Ticks until a resync finds the success old enough: the next one or the  *)
(* one after it.                                                           *)
Wait ==
    IF success + untilResync >= SyncPeriod THEN untilResync
    ELSE untilResync + SyncPeriod

(* Ticks until the next comparison is over, if nothing fails any more. *)
Remaining ==
    CASE phase = "compare" -> Latency - elapsed
      [] phase = "idle" ->
           Latency + (IF queued THEN 0 ELSE IF backoff > 0 THEN backoff ELSE Wait)
      [] phase = "report" ->
           Latency - elapsed + Latency
             + (IF queued THEN 0 ELSE IF backoff > 0 THEN backoff
                ELSE 2 * SyncPeriod - 1)

Allowed == 2 * (SyncPeriod + Latency) - 1 + faults * (Latency + MaxBackoff)

Healing ==
    DriftDetection => /\ Remaining <= Allowed
                      /\ wrong # Never => wrong + Remaining <= Allowed

DriftInv == Typed /\ Delivered /\ Healing

-----------------------------------------------------------------------------
(* What the faults so far allow.  Only these lemmas multiply. *)

Base == 2 * (SyncPeriod + Latency) - 1
PerFault == Latency + MaxBackoff

LEMMA ConstantTypes ==
    /\ SyncPeriod \in Nat /\ SyncPeriod > 0 /\ Latency \in Nat
    /\ MaxBackoff \in Nat /\ MaxBackoff > 0 /\ MaxFaults \in Nat
    /\ Base \in Nat /\ PerFault \in Nat
    /\ Base >= SyncPeriod + Latency /\ Base = 2 * SyncPeriod - 1 + 2 * Latency
  BY PeriodicConstants DEF Base, PerFault

LEMMA Products ==
  ASSUME NEW k \in Nat, NEW f \in Nat, NEW m \in Nat
  PROVE  /\ f * k \in Nat /\ (f + 1) * k = f * k + k
         /\ f <= m => f * k <= m * k
         /\ f > 0 => f * k >= k
  <1>1. f * k \in Nat /\ (f + 1) * k = f * k + k
    OBVIOUS
  <1>2. ASSUME f <= m PROVE f * k <= m * k
    <2>1. PICK d \in Nat : m = f + d
      <3>1. m - f \in Nat /\ m = f + (m - f)
        BY <1>2
      <3>2. QED
        BY <3>1
    <2>2. d * k \in Nat /\ m * k = f * k + d * k
      BY <2>1
    <2>3. QED
      BY <1>1, <2>2
  <1>3. ASSUME f > 0 PROVE f * k >= k
    <2>1. (f - 1) * k \in Nat /\ f * k = (f - 1) * k + k
      BY <1>3
    <2>2. QED
      BY <2>1
  <1>4. QED
    BY <1>1, <1>2, <1>3

LEMMA AllowedFacts ==
  ASSUME Typed
  PROVE  /\ Allowed \in Nat /\ Base <= Allowed
         /\ Bound \in Nat /\ Allowed <= Bound
         /\ faults > 0 => Base + PerFault <= Allowed
         /\ faults' = faults => Allowed' = Allowed
         /\ faults' = faults + 1 => Allowed' = Allowed + PerFault
  <1>1. faults \in Nat /\ faults <= MaxFaults
    BY ConstantTypes DEF Typed
  <1>2. /\ faults * PerFault \in Nat /\ MaxFaults * PerFault \in Nat
        /\ (faults + 1) * PerFault = faults * PerFault + PerFault
        /\ faults * PerFault <= MaxFaults * PerFault
        /\ faults > 0 => faults * PerFault >= PerFault
    BY <1>1, ConstantTypes, Products
  <1>3. /\ Allowed = Base + faults * PerFault
        /\ Bound = Base + MaxFaults * PerFault
        /\ Allowed' = Base + faults' * PerFault
    BY DEF Allowed, Bound, Base, PerFault
  <1>4. QED
    BY <1>2, <1>3, ConstantTypes

(* The steps but for faults: what remains does not grow. *)
LEMMA NoLater ==
  ASSUME Typed, Healing, faults' = faults, Remaining \in Nat,
         Remaining' \in Nat, DriftDetection => Remaining' <= Remaining,
         wrong' = wrong
  PROVE  Healing'
  BY AllowedFacts, ConstantTypes DEF Healing, Typed, Never

(* A fault gives its share of time to the cycle that retries. *)
LEMMA LaterByFault ==
  ASSUME Typed, Healing, faults' = faults + 1, Remaining \in Nat,
         Remaining' \in Nat, Remaining' <= PerFault, wrong' \in {wrong, Never}
  PROVE  Healing'
  BY AllowedFacts, ConstantTypes DEF Healing, Typed, Never

LEMMA RemainingAt ==
  Typed =>
    /\ Remaining \in Nat /\ Wait \in Nat /\ Wait <= 2 * SyncPeriod - 1
    /\ phase = "compare" => Remaining = Latency - elapsed
    /\ phase = "idle" /\ queued => Remaining = Latency
    /\ phase = "idle" /\ ~queued /\ backoff > 0 => Remaining = Latency + backoff
    /\ Waiting => Remaining = Latency + Wait
  <1> SUFFICES ASSUME Typed
               PROVE  /\ Remaining \in Nat
                      /\ Wait \in Nat /\ Wait <= 2 * SyncPeriod - 1
                      /\ phase = "compare" => Remaining = Latency - elapsed
                      /\ phase = "idle" /\ queued => Remaining = Latency
                      /\ phase = "idle" /\ ~queued /\ backoff > 0 =>
                           Remaining = Latency + backoff
                      /\ Waiting => Remaining = Latency + Wait
    OBVIOUS
  <1>1. Wait \in Nat /\ Wait <= 2 * SyncPeriod - 1
    BY AllowedFacts, ConstantTypes DEF Typed, Wait, Never
  <1>2. QED
    BY <1>1, ConstantTypes DEF Typed, Remaining, Waiting

-----------------------------------------------------------------------------
(* The steps. *)

LEMMA InitStep == Init => DriftInv
  <1> SUFFICES ASSUME Init PROVE DriftInv
    OBVIOUS
  <1>1. Bound \in Nat
    BY Products, ConstantTypes DEF Bound, Base, PerFault
  <1>2. Typed
    <2>1. Never \in 0..Never
      BY <1>1 DEF Never
    <2>2. 0 \in 0..Never /\ 0 \in 0..MaxBackoff /\ 0 \in 0..Latency
          /\ 0 \in 0..MaxFaults
      BY <1>1, ConstantTypes DEF Never
    <2>3. untilResync \in 0..SyncPeriod
      BY ConstantTypes DEF Init
    <2>4. QED
      BY <2>1, <2>2, <2>3 DEF Init, Typed
  <1>3. Delivered
    BY DEF Init, Delivered, Waiting
  <1>4. Remaining = Latency
    BY <1>2, RemainingAt DEF Init
  <1>5. Allowed \in Nat /\ Base <= Allowed
    BY <1>2, AllowedFacts
  <1>6. Healing
    BY <1>4, <1>5, ConstantTypes DEF Init, Healing
  <1>7. QED
    BY <1>2, <1>3, <1>6 DEF DriftInv

LEMMA OlderFacts ==
  ASSUME NEW age \in 0..Never, Bound \in Nat
  PROVE  /\ Older(age) \in 0..Never
         /\ Older(age) <= age + 1
         /\ Older(age) = Never <=> age = Never
         /\ \/ Older(age) = age + 1
            \/ Older(age) = age /\ age > Bound
  <1>1. Never \in Nat /\ Never = Bound + 2 /\ age \in Nat /\ age <= Never
    BY DEF Never
  <1>2. CASE age < Bound + 1
    BY <1>1, <1>2 DEF Older
  <1>3. CASE ~(age < Bound + 1)
    BY <1>1, <1>3 DEF Older
  <1>4. QED
    BY <1>2, <1>3

(* Arithmetic on rigid values, for the terms of two states. *)
LEMMA Sooner ==
  ASSUME NEW l \in Nat, NEW w \in Nat, NEW v \in Nat, v <= w - 1,
         NEW r, NEW r2, r = l + w, r2 = l + v
  PROVE  r2 \in Nat /\ r \in Nat /\ r2 <= r - 1
  OBVIOUS

LEMMA SoonerAndLater ==
  ASSUME NEW w \in Nat, NEW w2 \in Nat, NEW r \in Nat, NEW r2 \in Nat,
         NEW a \in Nat, r2 <= r - 1, w2 <= w + 1
  PROVE  /\ r <= a => r2 <= a
         /\ w + r <= a => w2 + r2 <= a
  OBVIOUS

LEMMA TickStep ==
  ASSUME DriftInv, Tick
  PROVE  DriftInv'
  <1>1. Typed /\ Delivered /\ Healing /\ Bound \in Nat /\ SyncPeriod <= Bound
    BY AllowedFacts, ConstantTypes DEF DriftInv
  <1>2. /\ ~behind /\ untilResync > 0 /\ behind' = behind
        /\ success' = Older(success) /\ seen' = Older(seen)
        /\ wrong' = Older(wrong) /\ untilResync' = untilResync - 1
        /\ backoff' = IF backoff > 0 THEN backoff - 1 ELSE 0
        /\ elapsed' = IF phase = "idle" THEN 0 ELSE elapsed + 1
        /\ phase' = phase /\ faults' = faults
        /\ phase = "idle" => ~queued
        /\ phase # "idle" => elapsed < Latency
    BY DEF Tick
  <1>q. queued' \in BOOLEAN /\ (queued' <=> queued \/ backoff = 1)
    <2>1. queued' = (queued \/ backoff = 1)
      BY DEF Tick
    <2>2. QED
      BY <2>1, Zenon
  <1>3. success \in 0..Never /\ seen \in 0..Never /\ wrong \in 0..Never
    BY <1>1 DEF Typed
  <1>4. /\ success' \in 0..Never /\ seen' \in 0..Never /\ wrong' \in 0..Never
        /\ wrong' <= wrong + 1 /\ (wrong' = Never <=> wrong = Never)
        /\ success' = Never <=> success = Never
        /\ \/ success' = success + 1
           \/ success' = success /\ success > SyncPeriod
    BY <1>1, <1>2, <1>3, OlderFacts, ConstantTypes
  <1>5. Typed'
    BY <1>1, <1>2, <1>q, <1>4, ConstantTypes DEF Typed
  <1>6. Waiting' => Waiting
    <2>1. backoff \in Nat
      BY <1>1, ConstantTypes DEF Typed
    <2>2. ~queued' => ~queued /\ backoff # 1
      BY <1>q
    <2>3. QED
      BY <1>2, <2>1, <2>2 DEF Waiting
  <1>7. Delivered'
    <2>1. seen' = success'
      BY <1>1, <1>2 DEF Delivered
    <2>2. Waiting' => success' # Never
      BY <1>1, <1>4, <1>6 DEF Delivered
    <2>3. QED
      BY <1>2, <2>1, <2>2 DEF Delivered
  <1>8. Remaining' \in Nat /\ Remaining \in Nat /\ Remaining' <= Remaining - 1
    <2>0. /\ Latency \in Nat /\ backoff \in Nat
          /\ elapsed \in Nat /\ elapsed <= Latency
          /\ 2 * SyncPeriod - 1 \in Nat
      BY <1>1, ConstantTypes DEF Typed
    <2>1. CASE phase = "compare"
      BY <1>1, <1>2, <2>1, ConstantTypes DEF Typed, Remaining
    <2>2. CASE phase = "report"
      <3> DEFINE left == Latency - elapsed + Latency
                 rest(q, b) == IF q THEN 0 ELSE IF b > 0 THEN b
                               ELSE 2 * SyncPeriod - 1
      <3>1. /\ elapsed' = elapsed + 1 /\ phase' = "report"
            /\ left \in Nat /\ left - 1 \in Nat
            /\ Latency - (elapsed + 1) + Latency = left - 1
        BY <1>2, <2>0, <2>2
      <3>2. /\ Remaining = left + rest(queued, backoff)
            /\ Remaining' = left - 1 + rest(queued', backoff')
        BY <2>2, <3>1 DEF Remaining
      <3>3. /\ rest(queued, backoff) \in Nat /\ rest(queued', backoff') \in Nat
            /\ rest(queued', backoff') <= rest(queued, backoff)
        <4>1. CASE queued \/ backoff = 0
          <5>1. rest(queued', backoff') = rest(queued, backoff)
            BY <1>2, <1>q, <2>0, <4>1
          <5>2. rest(queued, backoff) \in Nat
            BY <2>0
          <5>3. QED
            BY <5>1, <5>2
        <4>2. CASE ~queued /\ backoff = 1
          <5>1. rest(queued', backoff') = 0 /\ rest(queued, backoff) = 1
            BY <1>2, <1>q, <4>2
          <5>2. QED
            BY <5>1
        <4>3. CASE ~queued /\ backoff > 1
          <5>1. ~queued' /\ backoff' = backoff - 1
            BY <1>2, <1>q, <2>0, <4>3
          <5>2. rest(queued', backoff') = backoff - 1 /\ rest(queued, backoff) = backoff
            BY <2>0, <4>3, <5>1
          <5>3. QED
            BY <2>0, <4>3, <5>2
        <4>4. QED
          BY <2>0, <4>1, <4>2, <4>3
      <3> HIDE DEF rest, left
      <3>4. ASSUME NEW w \in Nat, NEW v \in Nat, v <= w,
                   NEW r, NEW r2, r = left + w, r2 = left - 1 + v
            PROVE  r2 \in Nat /\ r \in Nat /\ r2 <= r - 1
        BY <3>1, <3>4
      <3>5. QED
        BY <3>2, <3>3, <3>4, Zenon
    <2>3. CASE phase = "idle" /\ backoff > 0
      <3>1. ~queued /\ phase' = "idle" /\ backoff' = backoff - 1
            /\ (queued' <=> backoff = 1)
        BY <1>2, <1>q, <2>0, <2>3
      <3>2. Remaining = Latency + backoff
        BY <2>3, <3>1 DEF Remaining
      <3>3. Remaining' = Latency + (backoff - 1)
        <4>1. CASE backoff = 1
          <5>1. queued' /\ backoff - 1 = 0
            BY <3>1, <4>1
          <5>2. Remaining' = Latency + 0
            BY <3>1, <5>1 DEF Remaining
          <5>3. QED
            BY <5>1, <5>2
        <4>2. CASE backoff # 1
          <5>1. ~queued' /\ backoff - 1 > 0
            BY <2>0, <2>3, <3>1, <4>2
          <5>2. Remaining' = Latency + backoff'
            BY <3>1, <5>1 DEF Remaining
          <5>3. QED
            BY <3>1, <5>2
        <4>3. QED
          BY <4>1, <4>2
      <3>4. QED
        BY <2>0, <2>3, <3>2, <3>3
    <2>4. CASE phase = "idle" /\ backoff = 0
      <3>1. Wait \in Nat /\ Wait' \in Nat /\ Wait' <= Wait - 1
        BY <1>1, <1>2, <1>3, <1>4, ConstantTypes DEF Typed, Wait, Never
      <3>2. ~queued /\ ~queued' /\ backoff' = 0
        BY <1>2, <1>q, <2>4
      <3>3. Remaining = Latency + Wait /\ Remaining' = Latency + Wait'
        BY <1>2, <2>4, <3>2 DEF Remaining
      <3>4. QED
        <4>1. Latency \in Nat
          BY ConstantTypes
        <4>2. QED
          BY <3>1, <3>3, <4>1, Sooner, Zenon
    <2>5. QED
      BY <1>1, <2>1, <2>2, <2>3, <2>4 DEF Typed
  <1>9. Healing'
    <2>1. Allowed' = Allowed /\ Allowed \in Nat
      BY <1>1, <1>2, AllowedFacts
    <2>2. SUFFICES ASSUME DriftDetection
                   PROVE  /\ Remaining' <= Allowed'
                          /\ wrong' # Never => wrong' + Remaining' <= Allowed'
      BY DEF Healing
    <2>3. Remaining <= Allowed /\ (wrong # Never => wrong + Remaining <= Allowed)
      BY <1>1, <2>2 DEF Healing
    <2>4. wrong \in Nat /\ wrong' \in Nat
      BY <1>1, <1>3, <1>4 DEF Never
    <2>5. /\ Remaining <= Allowed => Remaining' <= Allowed
          /\ wrong + Remaining <= Allowed => wrong' + Remaining' <= Allowed
      <3>1. /\ wrong \in Nat /\ wrong' \in Nat /\ Allowed \in Nat
            /\ Remaining \in Nat /\ Remaining' \in Nat
            /\ Remaining' <= Remaining - 1 /\ wrong' <= wrong + 1
        BY <1>4, <1>8, <2>1, <2>4
      <3>2. QED
        BY <3>1, SoonerAndLater, Zenon
    <2>6. QED
      BY <1>4, <2>1, <2>3, <2>5, Zenon
  <1>10. QED
    BY <1>5, <1>7, <1>9 DEF DriftInv

LEMMA RemainingNext ==
  Typed' =>
    /\ Remaining' \in Nat /\ Wait' \in Nat /\ Wait' <= 2 * SyncPeriod - 1
    /\ (phase = "idle" /\ queued)' => Remaining' = Latency
    /\ (phase = "idle" /\ ~queued /\ backoff > 0)' =>
         Remaining' = Latency + backoff'
    /\ Waiting' => Remaining' = Latency + Wait'
  <1>1. (Typed =>
           /\ Remaining \in Nat /\ Wait \in Nat /\ Wait <= 2 * SyncPeriod - 1
           /\ phase = "compare" => Remaining = Latency - elapsed
           /\ phase = "idle" /\ queued => Remaining = Latency
           /\ phase = "idle" /\ ~queued /\ backoff > 0 =>
                Remaining = Latency + backoff
           /\ Waiting => Remaining = Latency + Wait)'
    BY RemainingAt, PTL
  <1>2. QED
    BY <1>1

LEMMA DriftStep ==
  ASSUME DriftInv, Drift
  PROVE  DriftInv'
  <1>1. Typed /\ Delivered /\ Healing /\ Bound \in Nat
    BY AllowedFacts DEF DriftInv
  <1>2. /\ wrong' = 0 /\ success' = success /\ seen' = seen /\ behind' = behind
        /\ untilResync' = untilResync /\ queued' = queued /\ backoff' = backoff
        /\ phase' = phase /\ elapsed' = elapsed /\ faults' = faults
    BY DEF Drift, status, informer, work, worker
  <1>3. Typed'
    BY <1>1, <1>2 DEF Typed, Never
  <1>4. Delivered'
    BY <1>1, <1>2 DEF Delivered, Waiting
  <1>5. Remaining' = Remaining /\ Allowed' = Allowed /\ Remaining \in Nat
    BY <1>1, <1>2, AllowedFacts, RemainingAt DEF Remaining, Wait
  <1>6. Healing'
    BY <1>1, <1>2, <1>5 DEF Healing
  <1>7. QED
    BY <1>3, <1>4, <1>6 DEF DriftInv

(* An event may put the resource in the queue, and only there. *)
LEMMA Sharper ==
  ASSUME Typed, Typed', phase' = phase, elapsed' = elapsed, backoff' = backoff,
         queued => queued',
         Waiting' => Wait' <= Wait
  PROVE  Remaining' <= Remaining
  <1>1. /\ Latency \in Nat /\ 2 * SyncPeriod - 1 \in Nat
        /\ backoff \in Nat /\ elapsed \in Nat /\ elapsed <= Latency
        /\ phase \in {"idle", "compare", "report"}
    BY ConstantTypes DEF Typed
  <1>2. CASE phase = "compare"
    BY <1>1, <1>2 DEF Remaining
  <1>3. CASE phase = "report"
    <2>1. CASE queued \/ ~queued'
      <3>1. queued' <=> queued
        BY <2>1
      <3>2. Remaining' = Remaining /\ Remaining \in Nat
        BY <1>1, <1>3, <3>1 DEF Remaining
      <3>3. QED
        BY <3>2
    <2>2. CASE queued'
      <3>1. Remaining' = Latency - elapsed + Latency + 0
        BY <1>3, <2>2 DEF Remaining
      <3>2. Latency - elapsed + Latency + 0 <= Remaining
        BY <1>1, <1>3 DEF Remaining
      <3>3. QED
        BY <3>1, <3>2
    <2>3. QED
      BY <2>1, <2>2
  <1>4. CASE phase = "idle" /\ queued'
    BY <1>1, <1>4, RemainingNext, RemainingAt DEF Waiting
  <1>5. CASE phase = "idle" /\ ~queued' /\ backoff > 0
    <2>1. Remaining' = Latency + backoff /\ Remaining = Latency + backoff
      BY <1>5, RemainingNext, RemainingAt
    <2>2. QED
      BY <1>1, <2>1
  <1>6. CASE phase = "idle" /\ ~queued' /\ backoff = 0
    <2>1. Waiting /\ Waiting'
      BY <1>6 DEF Waiting
    <2>2. Remaining = Latency + Wait /\ Remaining' = Latency + Wait'
      BY <2>1 DEF Waiting, Remaining
    <2>3. Wait \in Nat /\ Wait' \in Nat /\ Wait' <= Wait
      BY <2>1, RemainingAt, RemainingNext
    <2>4. ASSUME NEW w \in Nat, NEW v \in Nat, v <= w, NEW r, NEW r2,
                 r = Latency + w, r2 = Latency + v
          PROVE  r2 <= r
      BY <1>1, <2>4
    <2>5. QED
      BY <2>2, <2>3, <2>4, Zenon
  <1>7. QED
    BY <1>1, <1>2, <1>3, <1>4, <1>5, <1>6

LEMMA DeliverStep ==
  ASSUME DriftInv, Deliver
  PROVE  DriftInv'
  <1>1. Typed /\ Delivered /\ Healing
    BY DEF DriftInv
  <1>2. /\ behind /\ behind' = FALSE /\ seen' = success
        /\ success' = success /\ untilResync' = untilResync
        /\ backoff' = backoff /\ phase' = phase /\ elapsed' = elapsed
        /\ wrong' = wrong /\ faults' = faults
    BY DEF Deliver, status, worker
  <1>3. queued' \in BOOLEAN /\ (queued => queued')
    <2>1. queued' = (queued \/ TimeElapsed(success))
      BY DEF Deliver
    <2>2. QED
      BY <2>1, Zenon
  <1>4. Typed'
    BY <1>1, <1>2, <1>3 DEF Typed
  <1>5. Delivered'
    BY <1>1, <1>2, <1>3 DEF Delivered, Waiting
  <1>6. Wait' = Wait /\ Wait \in Nat
    BY <1>1, <1>2, RemainingAt DEF Wait
  <1>7. Remaining \in Nat /\ Remaining' \in Nat /\ Remaining' <= Remaining
    BY <1>1, <1>2, <1>3, <1>4, <1>6, Sharper, RemainingAt, RemainingNext
  <1>8. Healing'
    BY <1>1, <1>2, <1>7, NoLater
  <1>9. QED
    BY <1>4, <1>5, <1>8 DEF DriftInv

(* A resync that lets the resource wait on finds its success younger than  *)
(* a period, and the next one cannot.                                      *)
LEMMA ResyncStep ==
  ASSUME DriftInv, Resync
  PROVE  DriftInv'
  <1>1. Typed /\ Delivered /\ Healing
    BY DEF DriftInv
  <1>2. /\ untilResync = 0 /\ untilResync' = SyncPeriod
        /\ success' = success /\ seen' = seen /\ behind' = behind
        /\ backoff' = backoff /\ phase' = phase /\ elapsed' = elapsed
        /\ wrong' = wrong /\ faults' = faults
    BY DEF Resync, status, worker
  <1>3. queued' \in BOOLEAN /\ (queued' <=> queued \/ TimeElapsed(seen))
    <2>1. queued' = (queued \/ TimeElapsed(seen))
      BY DEF Resync
    <2>2. QED
      BY <2>1, Zenon
  <1>4. Typed'
    BY <1>1, <1>2, <1>3, ConstantTypes DEF Typed
  <1>5. Delivered'
    BY <1>1, <1>2, <1>3 DEF Delivered, Waiting
  <1>6. ASSUME DriftDetection, Waiting' PROVE Wait' <= Wait
    <2>1. Waiting /\ ~TimeElapsed(seen)
      BY <1>2, <1>3, <1>6 DEF Waiting
    <2>2. success # Never /\ (behind => success = 0) /\ (~behind => seen = success)
      BY <1>1, <2>1 DEF Delivered
    <2>3. success < SyncPeriod /\ success \in Nat /\ SyncPeriod \in Nat
      <3>1. SyncPeriod \in Nat /\ 0 < SyncPeriod /\ success \in Nat
        BY <1>1, AllowedFacts, ConstantTypes DEF Typed, Never
      <3>2. CASE behind
        BY <2>2, <3>1, <3>2
      <3>3. CASE ~behind
        BY <1>6, <2>1, <2>2, <3>1, <3>3 DEF TimeElapsed
      <3>4. QED
        BY <3>1, <3>2, <3>3
    <2>4. Wait = SyncPeriod
      BY <1>2, <2>3 DEF Wait
    <2>5. Wait' = SyncPeriod
      BY <1>2, <2>3 DEF Wait
    <2>6. QED
      BY <2>3, <2>4, <2>5
  <1>7. DriftDetection => Remaining' <= Remaining
    BY <1>1, <1>2, <1>3, <1>4, <1>6, Sharper
  <1>8. Remaining \in Nat /\ Remaining' \in Nat
    BY <1>1, <1>4, RemainingAt, RemainingNext
  <1>9. Healing'
    BY <1>1, <1>2, <1>7, <1>8, NoLater
  <1>10. QED
    BY <1>4, <1>5, <1>9 DEF DriftInv

LEMMA StartStep ==
  ASSUME DriftInv, Start
  PROVE  DriftInv'
  <1>1. Typed /\ Delivered /\ Healing
    BY DEF DriftInv
  <1>2. /\ phase = "idle" /\ ~behind /\ queued /\ queued' = FALSE
        /\ phase' = "compare" /\ elapsed' = 0
        /\ success' = success /\ seen' = seen /\ behind' = behind
        /\ untilResync' = untilResync /\ backoff' = backoff
        /\ wrong' = wrong /\ faults' = faults
    BY DEF Start, status, informer
  <1>3. Typed'
    BY <1>1, <1>2, ConstantTypes DEF Typed
  <1>4. Delivered'
    BY <1>1, <1>2 DEF Delivered, Waiting
  <1>5. Remaining = Latency /\ Remaining' = Latency - 0
    BY <1>1, <1>2, RemainingAt DEF Remaining
  <1>6. Remaining \in Nat /\ Remaining' \in Nat /\ Remaining' <= Remaining
    BY <1>5, ConstantTypes
  <1>7. Healing'
    BY <1>1, <1>2, <1>6, NoLater
  <1>8. QED
    BY <1>3, <1>4, <1>7 DEF DriftInv

(* A cycle that fails, anywhere, is retried after its back-off. *)
LEMMA FailStep ==
  ASSUME DriftInv, Fault, Idle, Retry, phase # "idle",
         success' \in {success, 0}, behind' \in BOOLEAN,
         ~behind' => success' = success,
         UNCHANGED <<seen, untilResync, queued>>, wrong' \in {wrong, Never}
  PROVE  DriftInv'
  <1>1. Typed /\ Delivered /\ Healing /\ Bound \in Nat
    BY AllowedFacts DEF DriftInv
  <1>2. /\ faults' = faults + 1 /\ faults < MaxFaults
        /\ phase' = "idle" /\ elapsed' = 0
        /\ seen' = seen /\ untilResync' = untilResync /\ queued' = queued
    BY DEF Fault, Idle
  <1>3. backoff' \in 1..MaxBackoff
    <2>1. PICK b \in 1..MaxBackoff :
            backoff' = IF backoff \in 1..b THEN backoff ELSE b
      BY DEF Retry
    <2>2. CASE backoff \in 1..b
      BY <2>1, <2>2, ConstantTypes
    <2>3. CASE backoff \notin 1..b
      BY <2>1, <2>3
    <2>4. QED
      BY <2>2, <2>3
  <1>4. Typed'
    <2>1. success' \in 0..Never /\ wrong' \in 0..Never
      BY <1>1 DEF Typed, Never
    <2>2. backoff' \in 0..MaxBackoff
      BY <1>3, ConstantTypes
    <2>3. faults' \in 0..MaxFaults /\ faults' > 0
      BY <1>1, <1>2, ConstantTypes DEF Typed
    <2>4. QED
      BY <1>1, <1>2, <2>1, <2>2, <2>3, ConstantTypes DEF Typed
  <1>5. Delivered'
    <2>1. backoff' # 0
      BY <1>3
    <2>2. ~Waiting'
      BY <2>1 DEF Waiting
    <2>3. seen = success
      BY <1>1 DEF Delivered
    <2>4. QED
      BY <1>2, <2>2, <2>3 DEF Delivered
  <1>6. Remaining' \in Nat /\ Remaining' <= PerFault
    <2>1. backoff' > 0
      BY <1>3
    <2>2. CASE queued'
      <3>1. Remaining' = Latency
        BY <1>2, <1>4, <2>2, RemainingNext
      <3>2. QED
        BY <3>1, ConstantTypes DEF PerFault
    <2>3. CASE ~queued'
      <3>1. Remaining' = Latency + backoff'
        BY <1>2, <1>4, <2>1, <2>3, RemainingNext
      <3>2. ASSUME NEW b \in 1..MaxBackoff, NEW r, r = Latency + b
            PROVE  r \in Nat /\ r <= PerFault
        BY <3>2, ConstantTypes DEF PerFault
      <3>3. QED
        BY <1>3, <3>1, <3>2, Zenon
    <2>4. QED
      BY <2>2, <2>3
  <1>7. Healing'
    BY <1>1, <1>2, <1>6, RemainingAt, LaterByFault
  <1>8. QED
    BY <1>4, <1>5, <1>7 DEF DriftInv

LEMMA CompareStep ==
  ASSUME DriftInv, Compare
  PROVE  DriftInv'
  <1>1. Typed /\ Delivered /\ Healing
    BY DEF DriftInv
  <1>2. /\ phase = "compare" /\ seen' = seen /\ untilResync' = untilResync
        /\ queued' = queued
    BY DEF Compare
  <1>3. CASE /\ Fault /\ Idle /\ Retry /\ (Report(TRUE) \/ NoReport)
             /\ wrong' \in {wrong, Never}
    <2>1. /\ success' \in {success, 0} /\ behind' \in BOOLEAN
          /\ ~behind' => success' = success
      BY <1>1, <1>3 DEF Report, NoReport, status, Typed
    <2>2. QED
      BY <1>2, <1>3, <2>1, FailStep
  <1>4. CASE /\ phase' = "report" /\ wrong' = Never
             /\ UNCHANGED <<status, behind, backoff, elapsed, faults>>
    <2>1. /\ success' = success /\ behind' = behind /\ backoff' = backoff
          /\ elapsed' = elapsed /\ faults' = faults
      BY <1>4 DEF status
    <2>2. Bound \in Nat
      BY <1>1, AllowedFacts
    <2>3. Typed'
      BY <1>1, <1>2, <1>4, <2>1, <2>2 DEF Typed, Never
    <2>4. Delivered'
      BY <1>1, <1>2, <1>4, <2>1 DEF Delivered, Waiting
    <2>5. Remaining' <= Allowed
      <3>1. Remaining' = Latency - elapsed + Latency
                           + (IF queued THEN 0 ELSE IF backoff > 0 THEN backoff
                              ELSE 2 * SyncPeriod - 1)
        BY <1>2, <1>4, <2>1 DEF Remaining
      <3>2. /\ elapsed \in Nat /\ elapsed <= Latency
            /\ backoff \in Nat /\ backoff <= MaxBackoff
            /\ backoff > 0 => faults > 0
        BY <1>1, ConstantTypes DEF Typed
      <3>3. /\ Allowed \in Nat /\ Base <= Allowed
            /\ backoff > 0 => Base + PerFault <= Allowed
        BY <1>1, <3>2, AllowedFacts
      <3>4. CASE queued
        BY <3>1, <3>2, <3>3, <3>4, ConstantTypes
      <3>5. CASE ~queued /\ backoff > 0
        <4>1. Base + PerFault >= 2 * Latency + MaxBackoff
          BY ConstantTypes DEF PerFault
        <4>2. QED
          BY <3>1, <3>2, <3>3, <3>5, <4>1, ConstantTypes
      <3>6. CASE ~queued /\ backoff = 0
        BY <3>1, <3>2, <3>3, <3>6, ConstantTypes
      <3>7. QED
        BY <3>2, <3>4, <3>5, <3>6
    <2>6. Healing'
      BY <1>1, <1>4, <2>1, <2>5, AllowedFacts DEF Healing
    <2>7. QED
      BY <2>3, <2>4, <2>6 DEF DriftInv
  <1>5. QED
    BY <1>3, <1>4 DEF Compare

LEMMA ReportSuccessStep ==
  ASSUME DriftInv, ReportSuccess
  PROVE  DriftInv'
  <1>1. Typed /\ Delivered /\ Healing
    BY DEF DriftInv
  <1>2. /\ phase = "report" /\ Idle /\ phase' = "idle" /\ elapsed' = 0
        /\ seen' = seen /\ untilResync' = untilResync
        /\ queued' = queued /\ wrong' = wrong
    BY DEF ReportSuccess, Idle
  <1>3. CASE Fault /\ Retry /\ (Report(FALSE) \/ NoReport)
    <2>1. /\ success' \in {success, 0} /\ behind' \in BOOLEAN
          /\ ~behind' => success' = success
      BY <1>1, <1>3 DEF Report, NoReport, status, Typed
    <2>2. QED
      BY <1>2, <1>3, <2>1, FailStep
  <1>4. CASE Report(FALSE) /\ UNCHANGED <<backoff, faults>>
    <2>1. /\ success' = 0 /\ behind' = TRUE
          /\ backoff' = backoff /\ faults' = faults
      BY <1>4 DEF Report
    <2>2. Typed'
      <3>1. Bound \in Nat
        BY <1>1, AllowedFacts
      <3>2. QED
        BY <1>1, <1>2, <2>1, <3>1, ConstantTypes DEF Typed, Never
    <2>3. Delivered'
      <3>1. Never # 0
        BY <1>1, AllowedFacts DEF Never
      <3>2. QED
        BY <1>2, <2>1, <3>1 DEF Delivered
    <2>4. Remaining' <= Remaining
      <3>1. Remaining = Latency - elapsed + Latency
                           + (IF queued THEN 0 ELSE IF backoff > 0 THEN backoff
                              ELSE 2 * SyncPeriod - 1)
        BY <1>2 DEF Remaining
      <3>2. /\ elapsed \in Nat /\ elapsed <= Latency /\ Latency \in Nat
            /\ backoff \in Nat /\ SyncPeriod \in Nat /\ SyncPeriod > 0
        BY <1>1, ConstantTypes DEF Typed
      <3>3. CASE queued
        <4>1. Remaining' = Latency
          BY <1>2, <2>2, <3>3, RemainingNext
        <4>2. QED
          BY <3>1, <3>2, <3>3, <4>1
      <3>4. CASE ~queued /\ backoff > 0
        <4>1. Remaining' = Latency + backoff
          BY <1>2, <2>1, <2>2, <3>4, RemainingNext
        <4>2. QED
          BY <3>1, <3>2, <3>4, <4>1
      <3>5. CASE ~queued /\ backoff = 0
        <4>1. /\ Remaining' = Latency + Wait'
              /\ Wait' \in Nat /\ Wait' <= 2 * SyncPeriod - 1
          BY <1>2, <2>1, <2>2, <3>5, RemainingNext DEF Waiting
        <4>2. ASSUME NEW w \in Nat, w <= 2 * SyncPeriod - 1,
                     NEW r, r = Latency + w
              PROVE  r <= Remaining
          BY <3>1, <3>2, <3>5, <4>2
        <4>3. QED
          BY <4>1, <4>2, Zenon
      <3>6. QED
        BY <3>2, <3>3, <3>4, <3>5
    <2>5. Healing'
      BY <1>1, <1>2, <2>1, <2>2, <2>4, NoLater, RemainingAt, RemainingNext
    <2>6. QED
      BY <2>2, <2>3, <2>5 DEF DriftInv
  <1>5. QED
    BY <1>3, <1>4 DEF ReportSuccess

LEMMA CrashStep ==
  ASSUME DriftInv, Crash
  PROVE  DriftInv'
  <1>1. Typed /\ Healing
    BY DEF DriftInv
  <1>2. /\ faults' = faults + 1 /\ faults < MaxFaults
        /\ phase' = "idle" /\ elapsed' = 0
        /\ success' = success /\ seen' = success /\ behind' = FALSE
        /\ untilResync' = SyncPeriod /\ queued' = TRUE /\ backoff' = 0
        /\ wrong' = wrong
    BY DEF Crash, Fault, Idle, status
  <1>3. Typed'
    <2>1. faults' \in 0..MaxFaults
      BY <1>1, <1>2, ConstantTypes DEF Typed
    <2>2. /\ 0 \in 0..MaxBackoff /\ 0 \in 0..Latency
          /\ SyncPeriod \in 0..SyncPeriod /\ ~(0 > 0)
      BY ConstantTypes
    <2>3. QED
      BY <1>1, <1>2, <2>1, <2>2 DEF Typed
  <1>4. Delivered'
    BY <1>2 DEF Delivered, Waiting
  <1>5. Remaining' \in Nat /\ Remaining' <= PerFault
    <2>1. Remaining' = Latency
      BY <1>2, <1>3, RemainingNext
    <2>2. QED
      BY <2>1, ConstantTypes DEF PerFault
  <1>6. Healing'
    BY <1>1, <1>2, <1>5, RemainingAt, LaterByFault
  <1>7. QED
    BY <1>3, <1>4, <1>6 DEF DriftInv

LEMMA StutterStep ==
  ASSUME DriftInv, UNCHANGED vars
  PROVE  DriftInv'
  BY DEF DriftInv, Typed, Delivered, Healing, Remaining, Wait, Waiting,
         Allowed, vars, status, informer, work, worker

-----------------------------------------------------------------------------
(* From every reachable state a difference is found within Remaining       *)
(* ticks, and its age and what remains never exceed what the faults so far *)
(* allow: PeriodicReconcilePredicate, resync and back-off together.        *)
THEOREM DriftInvariant == Spec => []DriftInv
  <1>1. DriftInv /\ [Next]_vars => DriftInv'
    BY TickStep, DriftStep, DeliverStep, ResyncStep, StartStep, CompareStep,
       ReportSuccessStep, CrashStep, StutterStep DEF Next
  <1>2. QED
    BY InitStep, <1>1, PTL DEF Spec

(* No difference between Vault and an unchanged resource lasts longer than *)
(* two periods and cycles, plus a cycle and a back-off for every failure,  *)
(* for every period, latency, back-off and number of failures.             *)
THEOREM DriftIsBounded == Spec => []DriftBounded
  <1>1. DriftInv => DriftBounded
    <2> SUFFICES ASSUME DriftInv, DriftDetection, wrong # Never
                 PROVE  wrong <= Bound
      BY DEF DriftBounded
    <2>1. Typed /\ wrong + Remaining <= Allowed
      BY DEF DriftInv, Healing
    <2>2. Remaining \in Nat /\ Allowed \in Nat /\ Bound \in Nat /\ Allowed <= Bound
      BY <2>1, RemainingAt, AllowedFacts
    <2>3. wrong \in Nat
      BY <2>1, <2>2 DEF Typed, Never
    <2>4. QED
      BY <2>1, <2>2, <2>3
  <1>2. QED
    BY DriftInvariant, <1>1, PTL
=============================================================================
