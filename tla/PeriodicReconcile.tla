-------------------------- MODULE PeriodicReconcile --------------------------
(***************************************************************************)
(* Drift detection in time: how PeriodicReconcilePredicate, the informer's *)
(* resync every SyncPeriod, the status conditions and the queue's back-off *)
(* decide when an unchanged resource is compared with Vault again.         *)
(*                                                                         *)
(* One resource whose spec is not changed; VaultResource has the changes   *)
(* and the races between copies, this module the clock.  Time passes in    *)
(* ticks, and only while nothing that the program does at once is waiting  *)
(* to be done.  A cycle takes at most Latency ticks, and the informer sees *)
(* its end before the next one starts.  Times of conditions are kept as    *)
(* ages.                                                                   *)
(***************************************************************************)
EXTENDS Naturals

CONSTANTS SyncPeriod,       \* of the manager and of the predicate
          Latency,          \* bound: ticks from a cycle's start to its end
          MaxBackoff,       \* bound: ticks until a failed cycle is retried
          DriftDetection,   \* ENABLE_DRIFT_DETECTION
          MaxFaults         \* bound: failed calls and crashes

ASSUME PeriodicConstants ==
    /\ SyncPeriod \in Nat \ {0}
    /\ Latency \in Nat /\ MaxBackoff \in Nat \ {0}
    /\ DriftDetection \in BOOLEAN
    /\ MaxFaults \in Nat

VARIABLES
    success,    \* age of the ReconcileSuccessful condition
    failed,     \* is there a ReconcileFailed condition newer than that?
    seen,       \* age of ReconcileSuccessful in the informer's copy
    behind,     \* has it yet to deliver a status update?
    untilResync,\* ticks until the informer's next resync
    queued,     \* is the resource in the work queue?
    backoff,    \* ticks until a failed cycle is retried, 0: none pending
    phase,      \* of the worker: "idle", "compare", "report"
    elapsed,    \* ticks since the cycle began
    wrong,      \* age of a difference between Vault and the resource
    faults

status == <<success, failed>>
informer == <<seen, behind, untilResync>>
work == <<queued, backoff>>
worker == <<phase, elapsed>>
vars == <<status, informer, work, worker, wrong, faults>>

(* The longest that a difference can last: almost two periods until a      *)
(* resync is let through, the cycle before it and the cycle it causes, and *)
(* one cycle and one back-off for every failure.                           *)
Bound == 2 * (SyncPeriod + Latency) - 1 + MaxFaults * (Latency + MaxBackoff)

Never == Bound + 2

(* The resource has just been created, at some time between two resyncs. *)
Init ==
    /\ success = Never /\ failed = FALSE
    /\ seen = Never /\ behind = FALSE /\ untilResync \in 1..SyncPeriod
    /\ queued = TRUE /\ backoff = 0
    /\ phase = "idle" /\ elapsed = 0
    /\ wrong = 0
    /\ faults = 0

-----------------------------------------------------------------------------
(* Ages stop one short of Never. *)
Older(age) == IF age < Bound + 1 THEN age + 1 ELSE age

Tick ==
    /\ ~behind /\ untilResync > 0
    /\ phase = "idle" => ~queued
    /\ phase # "idle" => elapsed < Latency
    /\ success' = Older(success) /\ seen' = Older(seen)
    /\ wrong' = Older(wrong)
    /\ untilResync' = untilResync - 1
    /\ backoff' = IF backoff > 0 THEN backoff - 1 ELSE 0
    /\ queued' = (queued \/ backoff = 1)
    /\ elapsed' = IF phase = "idle" THEN 0 ELSE elapsed + 1
    /\ UNCHANGED <<failed, behind, phase, faults>>

(* Someone changes what the resource has put into Vault. *)
Drift ==
    /\ wrong = Never /\ wrong' = 0
    /\ UNCHANGED <<status, informer, work, worker, faults>>

-----------------------------------------------------------------------------
(* Broken: a tick too late. *)
TimeElapsedLate(age) == DriftDetection /\ age # Never /\ age > SyncPeriod

(* PeriodicReconcilePredicate.Update for an unchanged generation.  The     *)
(* ReconcileFailed condition is not looked at.                              *)
TimeElapsed(age) == DriftDetection /\ age # Never /\ age >= SyncPeriod

(* The informer catches up with the stored object. *)
Deliver ==
    /\ behind /\ behind' = FALSE
    /\ seen' = success
    /\ queued' = (queued \/ TimeElapsed(success))
    /\ UNCHANGED <<status, untilResync, backoff, worker, wrong, faults>>

(* The informer repeats its copy as an update event. *)
Resync ==
    /\ untilResync = 0 /\ untilResync' = SyncPeriod
    /\ queued' = (queued \/ TimeElapsed(seen))
    /\ UNCHANGED <<status, seen, behind, backoff, worker, wrong, faults>>

-----------------------------------------------------------------------------
Start ==
    /\ phase = "idle" /\ ~behind
    /\ queued /\ queued' = FALSE
    /\ phase' = "compare" /\ elapsed' = 0
    /\ UNCHANGED <<status, informer, backoff, wrong, faults>>

Fault == faults < MaxFaults /\ faults' = faults + 1

(* ManageOutcome: a condition with the time of now, and an event for the   *)
(* informer, unless the status update fails.                               *)
Report(issue) ==
    /\ IF issue THEN failed' = TRUE /\ success' = success
                ELSE failed' = FALSE /\ success' = 0
    /\ behind' = TRUE

NoReport == UNCHANGED <<status, behind>>

(* The queue takes a failed cycle up again, at the earliest time it was    *)
(* told to.                                                                *)
Retry ==
    \E b \in 1..MaxBackoff :
       backoff' = IF backoff \in 1..b THEN backoff ELSE b

Idle == phase' = "idle" /\ elapsed' = 0

(* CreateOrUpdate: the entry is read, compared and written where it is not *)
(* the resource's.  An error may hide a write that took effect.            *)
Compare ==
    /\ phase = "compare"
    /\ \/ /\ phase' = "report" /\ wrong' = Never
          /\ UNCHANGED <<status, behind, backoff, elapsed, faults>>
       \/ /\ Fault /\ Idle /\ Retry
          /\ Report(TRUE) \/ NoReport
          /\ wrong' \in {wrong, Never}
    /\ UNCHANGED <<seen, untilResync, queued>>

(* The success is reported; the status update may fail, with or without    *)
(* taking effect, and so may the finalizer's after it.                     *)
ReportSuccess ==
    /\ phase = "report" /\ Idle
    /\ \/ Report(FALSE) /\ UNCHANGED <<backoff, faults>>
       \/ Fault /\ Retry /\ (Report(FALSE) \/ NoReport)
    /\ UNCHANGED <<seen, untilResync, queued, wrong>>

(* A restart of the operator: everything comes back as a Create event. *)
Crash ==
    /\ Fault /\ Idle
    /\ seen' = success /\ behind' = FALSE /\ untilResync' = SyncPeriod
    /\ queued' = TRUE /\ backoff' = 0
    /\ UNCHANGED <<status, wrong>>

Next ==
    \/ Tick \/ Drift
    \/ Deliver \/ Resync
    \/ Start \/ Compare \/ ReportSuccess
    \/ Crash

Spec == Init /\ [][Next]_vars
-----------------------------------------------------------------------------
(* With drift detection, no difference between Vault and the resource      *)
(* lasts longer than Bound, wherever in the period it arises and whatever  *)
(* fails.                                                                  *)
DriftBounded == DriftDetection /\ wrong # Never => wrong <= Bound
=============================================================================
