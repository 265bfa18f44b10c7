---------------------------- MODULE KindLifecycle ----------------------------
(***************************************************************************)
(* One resource of any kind of the tables, from its creation to its end:   *)
(* edits that the webhook lets through, changes of the credentials and of  *)
(* the namespaces it uses, changes made to its object in Vault, and the    *)
(* cycles that bring Vault to what the kind's toMap says.                  *)
(*                                                                         *)
(* The cycle is one step here: its interleavings, its errors and restarts  *)
(* are VaultResource's and EngineMount's.  A value is a pair of the field  *)
(* or input it comes from and a version.  Vault is taken to keep what it   *)
(* is given, to keep a key it is not given, and to answer with the keys    *)
(* that are not write-only.                                                *)
(***************************************************************************)
EXTENDS KindTables, Naturals, FiniteSets

CONSTANTS
    Kinds,            \* the kinds to look at
    DriftDetection,   \* ENABLE_DRIFT_DETECTION
    MaxChanges        \* bound of the changes by users and in Vault

ASSUME KindLifecycleAssumption ==
    DriftDetection \in BOOLEAN /\ MaxChanges \in Nat

ASSUME KindsAssumption ==
    Kinds \subseteq DOMAIN KindTable /\ \A k \in Kinds : WellFormed(k)

VARIABLES
    kind,       \* the resource's kind
    spec,       \* its fields: 0 is left out, 1 and 2 are values
    source,     \* where its credentials (or namespaces) come from
    ofType,     \* the Secret has the type that its controller leaves out
    inputs,     \* the value of each input: 1 or 2
    object,     \* "present", "deleting" or "gone"
    finalizer,  \* a cycle succeeded and the kind is deletable
    vault,      \* address |-> Vault's key |-> value
    queued,     \* a cycle is due
    outcome,    \* of the last cycle: "none", "ok" or "failed"
    missed,     \* sources that changed without an event reaching the queue
    drifted,    \* Vault's object was changed by another client
    changes     \* changes so far

vars == <<kind, spec, source, ofType, inputs, object, finalizer, vault, queued,
          outcome, missed, drifted, changes>>

-----------------------------------------------------------------------------
(* What the kind's methods give.                                           *)
K == KindTable[kind]

CanBeUnset(k) ==
    SpecFields(k) \cap
        ({"name", k.credentials.field} \cup {k.payload[x] : x \in k.optional}
            \cup {k.lease[x] : x \in DOMAIN k.lease})

Selected == K.credentials.without = "spec"

\* toMap sends what setInternalCredentials retrieved, which is nothing when
\* there is no source: the field of the spec is then not sent either.
NotRetrieved(f) ==
    /\ source \in {"none", "blank"} /\ ~Selected
    /\ f \in {K.credentials.field, "@username", "@password"}

FromSource(f) ==
    /\ f = K.credentials.field /\ spec[f] = 0
    /\ source \notin {"none", "blank", "randomSecret"}

Value(f) ==
    IF NotRetrieved(f) THEN <<f, 0>>
    ELSE IF f \in Inputs THEN <<f, inputs[f]>>
    ELSE IF FromSource(f)
         THEN <<K.credentials.input, inputs[K.credentials.input]>>
    ELSE <<f, spec[f]>>

\* The keys that toMap leaves out of the payload.
LeftOut(x) ==
    /\ x \in K.optional
    /\ IF K.switch = "-" THEN Value(K.payload[x])[2] = 0 ELSE spec[K.switch] # 1

GetPayload ==
    [x \in {x \in DOMAIN K.payload : ~LeftOut(x)} |-> Value(K.payload[x])]

GetPath == [f \in K.path |-> spec[f]]

Comparable(x) ==
    K.payload[x] \in DOMAIN K.fields => K.fields[K.payload[x]]

Without(map, keys) == [x \in DOMAIN map \ keys |-> map[x]]

\* Broken: only the keys are compared.
IsEquivalentByKeys(answer) ==
    DOMAIN Without(GetPayload, K.hidden) = DOMAIN answer

\* reflect.DeepEqual of the desired state and Vault's answer.
IsEquivalentToDesiredState(answer) ==
    LET desired == Without(GetPayload, K.hidden)
    IN  (\A x \in DOMAIN desired : Comparable(x)) /\ desired = answer

Found == GetPath \in DOMAIN vault

Over(new, old) ==
    [x \in DOMAIN new \cup DOMAIN old |->
        IF x \in DOMAIN new THEN new[x] ELSE old[x]]

Stored(entry) ==
    vault' = [a \in DOMAIN vault \cup {GetPath} |->
                IF a = GetPath THEN entry ELSE vault[a]]

\* Broken: Vault's values win.
WriteOldWins(entry) ==
    Stored(IF Found THEN Over(vault[GetPath], entry) ELSE entry)

Write(entry) == Stored(IF Found THEN Over(entry, vault[GetPath]) ELSE entry)

-----------------------------------------------------------------------------
(* A cycle, by the loop of the kind's controller.                          *)
CreateOrUpdate ==
    IF Found /\ IsEquivalentToDesiredState(Without(vault[GetPath], K.writeOnly))
    THEN UNCHANGED vault ELSE Write(GetPayload)

Tune == [x \in DOMAIN K.tune |-> Value(K.tune[x])]

CreateOrTune == Write(IF Found THEN Tune ELSE GetPayload)

CheckTTLValuesProvided == \E x \in DOMAIN K.lease : spec[K.lease[x]] # 0

\* The lease is written when no value is given, and left out when one is.
CreateConnectionAndLease ==
    Write(IF CheckTTLValuesProvided THEN GetPayload
          ELSE Over(GetPayload, [x \in DOMAIN K.lease |-> <<K.lease[x], 0>>]))

WriteToVault ==
    CASE K.reconciler.loop = "resource" -> CreateOrUpdate
      [] K.reconciler.loop = "engine"   -> CreateOrTune
      [] K.reconciler.loop = "rabbitmq" -> CreateConnectionAndLease

\* setInternalCredentials: no source where one is needed, or the wrong Secret.
CredentialsFound ==
    /\ K.credentials.without \in {"fails", "blank"} => source # "none"
    /\ source = "secret" /\ K.credentials.type # "any" => ofType

\* Broken: every kind gets the finalizer.
SucceedWithFinalizer ==
    /\ CredentialsFound /\ WriteToVault
    /\ outcome' = "ok" /\ queued' = FALSE /\ missed' = {} /\ drifted' = FALSE
    /\ finalizer' = TRUE

Succeed ==
    /\ CredentialsFound /\ WriteToVault
    /\ outcome' = "ok" /\ queued' = FALSE /\ missed' = {} /\ drifted' = FALSE
    /\ finalizer' = K.deletable

\* The error puts the resource back into the queue.
Fail ==
    /\ ~CredentialsFound /\ outcome' = "failed"
    /\ UNCHANGED <<vault, queued, missed, drifted, finalizer>>

Cycle ==
    /\ object = "present" /\ queued
    /\ Succeed \/ Fail
    /\ UNCHANGED <<kind, spec, source, ofType, inputs, object, changes>>

\* manageCleanUpLogic; only a resource with the finalizer gets here.
CleanUp ==
    /\ object = "deleting" /\ queued
    /\ object' = "gone" /\ finalizer' = FALSE /\ queued' = FALSE
    /\ vault' = Without(vault, {GetPath})
    /\ UNCHANGED <<kind, spec, source, ofType, inputs, outcome, missed,
                   drifted, changes>>

Resync ==
    /\ DriftDetection /\ object = "present" /\ ~queued /\ queued' = TRUE
    /\ UNCHANGED <<kind, spec, source, ofType, inputs, object, finalizer, vault,
                   outcome, missed, drifted, changes>>

-----------------------------------------------------------------------------
(* Users, credential sources and other clients of Vault.                   *)
Change ==
    /\ object = "present" /\ changes < MaxChanges /\ changes' = changes + 1
    /\ UNCHANGED <<kind, ofType, finalizer, outcome>>

\* isValid: exactly one source, or exactly one way to name the namespaces.
Valid(k, operation, s, src) ==
    operation \in k.webhook.validates =>
        IF k.credentials.without = "spec"
        THEN (src = "selector") <=> (s[k.credentials.field] = 0)
        ELSE k.credentials.sources # {} => src # "none"

\* Broken: of the address, only the path is compared.
ValidateUpdateOfPath ==
    /\ \A f \in (K.webhook.guarded \ {"name"}) \cap DOMAIN spec :
        spec'[f] = spec[f]
    /\ Valid(K, "update", spec', source')

\* spec and source' change together when the namespaces change their source.
ValidateUpdate ==
    /\ \A f \in K.webhook.guarded \cap DOMAIN spec : spec'[f] = spec[f]
    /\ Valid(K, "update", spec', source')

Edit(f) ==
    /\ Change /\ queued' = TRUE
    /\ \E v \in 0..2 \ {spec[f]} :
        /\ v = 0 => f \in CanBeUnset(K)
        /\ spec' = [spec EXCEPT ![f] = v]
        /\ source' \in IF Selected /\ f = K.credentials.field
                       THEN {"none", "selector"} ELSE {source}
    /\ ValidateUpdate
    /\ UNCHANGED <<inputs, object, vault, missed, drifted>>

ChangeSource(s) ==
    /\ Change /\ queued' = TRUE
    /\ ~Selected /\ s # source /\ source' = s /\ spec' = spec
    /\ ValidateUpdate
    /\ UNCHANGED <<inputs, object, vault, missed, drifted>>

\* What the predicates and the map functions of SetupWithManager let through.
\* A selector of any role that does not parse hides a namespace from all.
Delivered(changed, unparsed) ==
    \/ /\ source = "secret" /\ K.reconciler.secrets /\ ~ofType
       /\ K.reconciler.keys \ changed # {}
    \/ source = "randomSecret" /\ K.reconciler.randomSecrets
    \/ source = "selector" /\ K.reconciler.namespaces /\ ~unparsed

InputsOf(s) ==
    CASE s \in {"secret", "vaultSecret"} -> {"@username", "@password"}
      [] s = "randomSecret"              -> {"@password"}
      [] s = "selector"                  -> {"@namespaces"}
      [] s \in {"none", "blank"}          -> {}

ChangeInput ==
    /\ Change
    /\ \E changed \in (SUBSET InputsOf(source)) \ {{}}, unparsed \in BOOLEAN :
        /\ inputs' = [i \in Inputs |->
                        IF i \in changed THEN 3 - inputs[i] ELSE inputs[i]]
        /\ IF Delivered(changed, unparsed)
           THEN queued' = TRUE /\ missed' = missed
           ELSE queued' = queued /\ missed' = missed \cup {source}
    /\ UNCHANGED <<spec, source, object, vault, drifted>>

\* A mount can only be tuned.
Tamper(x) ==
    /\ Change /\ Found /\ x \in DOMAIN vault[GetPath]
    /\ K.reconciler.loop = "engine" => x \in DOMAIN K.tune
    /\ vault' = [vault EXCEPT ![GetPath][x] = <<"@other", 1>>]
    /\ drifted' = TRUE
    /\ UNCHANGED <<spec, source, inputs, object, queued, missed>>

UserDelete ==
    /\ object = "present" /\ queued' = finalizer
    /\ object' = IF finalizer THEN "deleting" ELSE "gone"
    /\ missed' = {} /\ drifted' = FALSE
    /\ UNCHANGED <<kind, spec, source, ofType, inputs, finalizer, vault, outcome,
                   changes>>

-----------------------------------------------------------------------------
Init ==
    /\ kind \in Kinds
    /\ \E unset \in {{}, CanBeUnset(K)} :
        spec = [f \in SpecFields(K) |-> IF f \in unset THEN 0 ELSE 1]
    /\ source \in SourcesOf(K) /\ Valid(K, "create", spec, source)
    /\ Selected => ((source = "selector") <=> (spec[K.credentials.field] = 0))
    /\ ofType \in IF source = "secret" THEN BOOLEAN ELSE {FALSE}
    /\ inputs = [i \in Inputs |-> 1]
    /\ object = "present" /\ finalizer = FALSE /\ vault = <<>>
    /\ queued = TRUE /\ outcome = "none" /\ missed = {} /\ drifted = FALSE
    /\ changes = 0

Next ==
    \/ Cycle \/ CleanUp \/ Resync \/ UserDelete \/ ChangeInput
    \/ \E f \in DOMAIN spec : Edit(f)
    \/ \E s \in SourcesOf(K) : ChangeSource(s)
    \/ \E x \in DOMAIN K.payload \cup DOMAIN K.lease : Tamper(x)

Spec == Init /\ [][Next]_vars

-----------------------------------------------------------------------------
(* Types; only deletable kinds get a finalizer, and only a resource with a
   finalizer waits for its end; Vault's objects have the kind's keys only. *)
TypeOK ==
    /\ kind \in Kinds /\ DOMAIN spec = SpecFields(K)
    /\ spec \in [DOMAIN spec -> 0..2]
    /\ {f \in DOMAIN spec : spec[f] = 0} \subseteq CanBeUnset(K)
    /\ source \in SourcesOf(K) /\ missed \subseteq K.credentials.sources
    /\ {ofType, finalizer, queued, drifted} \subseteq BOOLEAN
    /\ inputs \in [Inputs -> 1..2]
    /\ object \in {"present", "deleting", "gone"}
    /\ outcome \in {"none", "ok", "failed"}
    /\ finalizer => K.deletable /\ object # "gone"
    /\ object = "deleting" => finalizer
    /\ \A a \in DOMAIN vault :
        /\ DOMAIN a = K.path
        /\ DOMAIN vault[a] \subseteq DOMAIN K.payload \cup DOMAIN K.lease
    /\ changes \in 0..MaxChanges

(* What does not reach Vault though the user writes it: what the kind never
   sends, an id with blank credentials, and the members of a group that is
   not internal. *)
Unreflected ==
    NeverSent(kind)
        \cup (IF kind \in IdNeedsSource /\ source = "blank"
              THEN {K.credentials.field} ELSE {})
        \cup (IF kind = "Group" /\ spec["type"] # 1 THEN GroupMembers ELSE {})

\* What the user set and what the source gives (the bind DN and user names a
\* source may or may not have).
Intended ==
    {f \in DOMAIN spec \ (K.path \cup Unreflected) :
        spec[f] # 0 \/ Value(f)[1] # f} \cup
        {f \in {"@password"} :
            /\ source \notin {"none", "blank", "selector"}
            /\ kind \notin PasswordNotCompared}

Reflected ==
    /\ Found
    /\ LET entry == vault[GetPath]
       IN  {Value(f) : f \in Intended} \subseteq {entry[x] : x \in DOMAIN entry}

(* When no event was missed and nobody else wrote, a resource at rest has
   every value of its spec and its source's password at its address in Vault,
   whatever was edited and in whatever order, but for what Unreflected and
   PasswordNotCompared name: there toMap forgets a field, or the comparison
   takes different states for equal.  About both of every kind. *)
SettledIsReflected ==
    object = "present" /\ ~queued /\ missed = {} /\ ~drifted => Reflected

(* Through all edits a kind whose webhook guards every field of the address
   writes to one address, so that its deletion leaves nothing behind; of the
   others the deletion removes the object at the last address.  About
   ValidateUpdate, GetPath and the cleanup. *)
NothingElsewhere ==
    /\ kind \in FixedAddress => Cardinality(DOMAIN vault) <= 1
    /\ object = "gone" /\ K.deletable => ~Found

(* Every cycle that reports success leaves Vault with the whole spec and the
   source's password, whatever event was missed and whatever key was changed
   by others before: drift detection has only to start one.  About
   CreateOrUpdate, CreateOrUpdateTuneConfig and the comparison. *)
EveryCycleHeals ==
    [][queued /\ ~queued' /\ object' = "present" => Reflected']_vars
=============================================================================
