---------------------------- MODULE DesiredState ----------------------------
(***************************************************************************)
(* What the operator promises about the entries it keeps in Vault, with no *)
(* word on how: the versions of a resource reach its Vault path in order,  *)
(* and once the operator has acknowledged the deletion of a resource none  *)
(* of the versions that existed until then is in Vault again.              *)
(***************************************************************************)
EXTENDS Naturals

CONSTANTS Objects,   \* names of custom resources
          Paths,     \* Vault paths
          PathOf,    \* the path each resource configures
          Nobody     \* owner of what the operator did not write

VARIABLES desired,   \* newest version of each resource
          vault,     \* entry stored at each Vault path
          retired    \* newest version whose deletion was acknowledged

avars == <<desired, vault, retired>>

EntryOf(o, g) == [owner |-> o, gen |-> g]

NoEntry == EntryOf(Nobody, 0)

Foreign == EntryOf(Nobody, 1)

Entry == [owner : Objects \union {Nobody}, gen : Nat]

AInit ==
    /\ desired = [o \in Objects |-> 0]
    /\ vault = [p \in Paths |-> NoEntry]
    /\ retired = [o \in Objects |-> 0]

(* The user creates, changes or deletes a resource. *)
Request(o) ==
    /\ desired' = [desired EXCEPT ![o] = @ + 1]
    /\ UNCHANGED <<vault, retired>>

(* A version reaches Vault: not one retired, nor one older than the entry. *)
Apply(o, g) ==
    /\ retired[o] < g /\ g <= desired[o]
    /\ vault[PathOf[o]].owner = o => vault[PathOf[o]].gen <= g
    /\ vault' = [vault EXCEPT ![PathOf[o]] = EntryOf(o, g)]
    /\ UNCHANGED <<desired, retired>>

(* The entry goes, by the operator's hand or by someone else's. *)
Lose(p) ==
    /\ \E e \in {NoEntry, Foreign} : vault' = [vault EXCEPT ![p] = e]
    /\ UNCHANGED <<desired, retired>>

(* Deletion is acknowledged only when Vault holds no version any more. *)
Retire(o) ==
    /\ vault[PathOf[o]].owner # o
    /\ retired' = [retired EXCEPT ![o] = desired[o]]
    /\ UNCHANGED <<desired, vault>>

ANext ==
    \/ \E o \in Objects : Request(o) \/ Retire(o)
    \/ \E o \in Objects : \E g \in 1..desired[o] : Apply(o, g)
    \/ \E p \in Paths : Lose(p)

ASpec == AInit /\ [][ANext]_avars
=============================================================================
