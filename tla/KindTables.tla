----------------------------- MODULE KindTables -----------------------------
(***************************************************************************)
(* All kinds in one table, and what the tables must be like for the        *)
(* promises of KindLifecycle to hold: conditions on each kind's fields,    *)
(* payload and webhook alone, which relate what its methods were written   *)
(* to do.  TLC evaluates them for every kind,  *)
(* the proofs conclude from them what every sequence of events leads to.   *)
(***************************************************************************)
EXTENDS AuthKinds, SecretKinds, OtherKinds

KindTable == AuthKindsTable @@ SecretKindsTable @@ OtherKindsTable

SpecFields(k) ==
    DOMAIN k.fields \cup k.path \cup
        (IF k.credentials.field = "-" THEN {} ELSE {k.credentials.field})

\* none: a block of credentials that names no source.
SourcesOf(k) ==
    k.credentials.sources \cup {"none"}
        \cup ({k.credentials.without} \cap {"blank"})

-----------------------------------------------------------------------------
(* Exceptions, by the names of the kinds.                                  *)

\* Fields that never reach Vault: a field no method reads, a field only used
\* while the resource is created, lists of which the last member survives.
NeverSent(name) ==
    CASE name = "GCPAuthEngineConfig" -> {"serviceAccount"}
      [] name = "DatabaseSecretEngineConfig" ->
            {"passwordAuthentication", "rootPasswordRotation"}
      [] name = "KubernetesAuthEngineConfig" -> {"useOperatorPodCA"}
      [] name = "RabbitMQSecretEngineConfig" -> {"leaseTTL", "leaseMaxTTL"}
      [] name = "RabbitMQSecretEngineRole" ->
            {"otherVhosts", "otherVhostTopics"}
      [] OTHER -> {}

\* Their id is sent only with the source that gives its secret.
IdNeedsSource ==
    {"AzureAuthEngineConfig", "AzureSecretEngineConfig",
     "JWTOIDCAuthEngineConfig"}

\* Members are sent only when the group is internal.
GroupMembers == {"memberGroupIDs", "memberEntityIDs"}

\* Their password is left out of the comparison, and all else may be equal.
PasswordNotCompared ==
    {"DatabaseSecretEngineConfig", "KubernetesSecretEngineConfig"}

\* The kinds whose webhook guards every field that GetPath is made of.
FixedAddress ==
    {"AzureAuthEngineConfig", "AzureSecretEngineConfig", "CertAuthEngineConfig",
     "CertAuthEngineRole", "GCPAuthEngineConfig", "GitHubSecretEngineConfig",
     "GroupAlias", "JWTOIDCAuthEngineConfig", "KubernetesSecretEngineConfig",
     "LDAPAuthEngineConfig", "QuaySecretEngineConfig"}

-----------------------------------------------------------------------------
(* The conditions.                                                         *)
Entry(k) ==
    /\ k.deletable \in BOOLEAN
    /\ k.reconciler.loop \in {"resource", "engine", "rabbitmq"}
    /\ k.credentials.sources \subseteq Sources \cup {"selector"}
    /\ k.credentials.without \in {"blank", "fails", "spec", "unused"}
    /\ k.credentials.field # "-" => k.credentials.input \in Inputs
    /\ SpecFields(k) \cap (Inputs \cup {"-"}) = {}
    /\ DOMAIN k.tune \subseteq DOMAIN k.payload

\* Namespaces that are selected come from the spec otherwise, and from
\* nowhere else.
Namespaces(k) ==
    k.credentials.without = "spec" <=> "selector" \in k.credentials.sources

\* An id may be withheld only where the exceptions say so, and a kind with an
\* id has credentials.
Identified(name, k) ==
    k.credentials.field # "-" =>
        /\ k.credentials.without # "unused"
        /\ k.credentials.without = "blank" => name \in IdNeedsSource

\* Some key that is always sent has a type that no answer of Vault's equals.
NeverEqual(k) ==
    \E y \in DOMAIN k.payload \ (k.hidden \cup k.optional) :
        k.payload[y] \in DOMAIN k.fields /\ ~k.fields[k.payload[y]]

\* The key x carries the field f on every cycle that has a value for it: it
\* is compared (or no comparison succeeds), it is not left out, and what an
\* existing mount cannot be tuned in cannot be edited.
Carries(name, k, x, f) ==
    /\ k.payload[x] = f
    /\ x \in k.hidden => NeverEqual(k)
    /\ x \in k.optional => \/ k.switch = "-"
                           \/ /\ name = "Group" /\ k.switch = "type"
                              /\ f \in GroupMembers
    /\ k.reconciler.loop = "engine" =>
         IF x \in DOMAIN k.tune THEN k.tune[x] = f ELSE f \in k.webhook.guarded

Complete(name, k) ==
    /\ \A f \in SpecFields(k) \ (k.path \cup NeverSent(name)) :
         \E x \in DOMAIN k.payload : Carries(name, k, x, f)
    /\ k.credentials.sources \cap Sources # {} /\ name \notin PasswordNotCompared
         => \E x \in DOMAIN k.payload : Carries(name, k, x, "@password")

\* The configuration of a mount is all in the spec.
Mountable(k) ==
    k.reconciler.loop = "engine" =>
        /\ k.credentials.sources = {} /\ k.credentials.field = "-"
        /\ k.optional = {}
        /\ \A x \in DOMAIN k.payload : k.payload[x] \in SpecFields(k)

WellFormed(name) ==
    LET k == KindTable[name]
    IN  /\ Entry(k) /\ Namespaces(k) /\ Identified(name, k)
        /\ Complete(name, k) /\ Mountable(k)
        /\ name \in FixedAddress => k.path \subseteq k.webhook.guarded
=============================================================================
