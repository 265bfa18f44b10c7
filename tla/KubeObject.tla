----------------------------- MODULE KubeObject -----------------------------
(***************************************************************************)
(* A custom resource as the Kubernetes API server stores it, reduced to    *)
(* the fields that the reconcilers of this operator read or write:         *)
(*                                                                         *)
(*   uid        identity of the incarnation; 0 when there is no object     *)
(*   gen        metadata.generation.  It also names the content of the     *)
(*              spec: every change of the spec gets a new generation.      *)
(*              Numbering goes on when a name is reused, so that any two   *)
(*              versions that ever existed under a name can be compared    *)
(*   deleting   metadata.deletionTimestamp is set                          *)
(*   finalizer  the operator's finalizer is in metadata.finalizers         *)
(*   held       someone else's finalizer is (a foreground deletion's)      *)
(*   conds      status.conditions: the ObservedGeneration of the condition *)
(*              of each type, 0 when there is no condition of that type    *)
(*                                                                         *)
(* The uid of an incarnation is the generation it was created with.        *)
(***************************************************************************)
EXTENDS Naturals

CondTypes == {"ReconcileSuccessful", "ReconcileFailed"}

Object == [uid : Nat, gen : Nat, deleting : BOOLEAN, finalizer : BOOLEAN,
           held : BOOLEAN, conds : [CondTypes -> Nat]]

Absent == [uid |-> 0, gen |-> 0, deleting |-> FALSE, finalizer |-> FALSE,
           held |-> FALSE, conds |-> [t \in CondTypes |-> 0]]

Exists(obj) == obj.uid # 0

(* The API server's side: creation, a change of the spec, a deletion that  *)
(* has to wait for the finalizers.                                         *)
Created(g) == [Absent EXCEPT !.uid = g, !.gen = g]

Edited(obj, g) == [obj EXCEPT !.gen = g]

MarkedDeleted(obj, g, foreground) ==
    [obj EXCEPT !.gen = g, !.deleting = TRUE, !.held = foreground]

(* A deleted object is dropped with its last finalizer. *)
WithoutFinalizer(obj) ==
    IF obj.held THEN [obj EXCEPT !.finalizer = FALSE] ELSE Absent

Released(obj) ==
    IF obj.finalizer THEN [obj EXCEPT !.held = FALSE] ELSE Absent

(* Broken: the new condition replaces all of them. *)
OnlyCondition(obj, type) ==
    [obj EXCEPT !.conds = [t \in CondTypes |-> IF t = type THEN obj.gen ELSE 0]]

(* AddOrReplaceCondition: the condition replaces the one of the same type  *)
(* and leaves those of the other types in place.                           *)
AddOrReplaceCondition(obj, type) == [obj EXCEPT !.conds[type] = obj.gen]

(* ManageOutcome reports success and failure under two condition types.    *)
OutcomeCondition(issue) ==
    IF issue THEN "ReconcileFailed" ELSE "ReconcileSuccessful"

(* What every cleanup asks: is there a ReconcileSuccessful=True condition? *)
Succeeded(obj) == obj.conds["ReconcileSuccessful"] # 0

WithFinalizer(obj) == [obj EXCEPT !.finalizer = TRUE]
=============================================================================
