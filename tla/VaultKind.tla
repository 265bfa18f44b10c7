------------------------------ MODULE VaultKind ------------------------------
(***************************************************************************)
(* What one kind of custom resource tells the generic controller: which    *)
(* fields its spec has, under which keys of the Vault API they are         *)
(* written, where, what Vault's answer can be compared with, which fields  *)
(* the webhook protects, and which other objects its controller follows.   *)
(* AuthKinds, SecretKinds and OtherKinds fill in one such record for each  *)
(* kind; KindLifecycle runs them.                                          *)
(*                                                                         *)
(* A field is named as in the manifest.  What does not come from the spec  *)
(* is an input, written with an @: the username and password of a          *)
(* credential source, the names of the selected namespaces, the token of   *)
(* the reviewer's service account, the id Vault gave a group alias.        *)
(***************************************************************************)
EXTENDS Sequences, TLC

Inputs == {"@username", "@password", "@namespaces", "@reviewer", "@id"}

Sources == {"secret", "vaultSecret", "randomSecret"}

\* A struct of the API: which of its fields Vault's decoded answer can equal.
\* Vault answers with strings, booleans, json.Number, []interface{} and
\* map[string]interface{}: reflect.DeepEqual is false for a []string, an int,
\* a map[string]string, a Duration, a pointer or a named string, equal or not.
Fields(plain, typed) == [f \in plain \cup typed |-> f \in plain]

\* The config of a mount, which toMap nests under one key.
Nested(struct) ==
    [f \in {"config." \o g : g \in DOMAIN struct} |->
        struct[CHOOSE g \in DOMAIN struct : f = "config." \o g]]

\* The webhook refuses an update that changes a field of guarded, and, on the
\* operations of validates, a resource without exactly one credential source.
Admission(guarded, validates) ==
    [guarded |-> guarded, validates |-> validates]

\* A controller that follows its own resources only.  (keys: the inputs the
\* predicate compares; excluded: the type of Secret it leaves out.)
Unwatched ==
    [loop |-> "resource", secrets |-> FALSE, randomSecrets |-> FALSE,
     namespaces |-> FALSE, keys |-> {}, excluded |-> "-"]

\* A controller that also follows Secrets, and RandomSecrets perhaps.
Follows(excluded, keys, randomSecrets) ==
    [Unwatched EXCEPT !.secrets = TRUE, !.randomSecrets = randomSecrets,
                      !.excluded = excluded, !.keys = keys]

\* Where a kind's credentials may come from, the type its Secret must have,
\* the field of the spec that is used before the input of the source, and
\* what happens without a source: the cycle "fails"; it fails too, unless the
\* block of the credentials is "blank", then nothing is sent; or the field of
\* the "spec" is sent.  (blank: the one literal that PrepareInternalValues
\* compares with, which is not what the CRD's defaults make of a block that
\* is left out; for a block that is a pointer, no block.)
Credentials(sources, type, field, input, without) ==
    [sources |-> sources, type |-> type, field |-> field, input |-> input,
     without |-> without]

NoCredentials == Credentials({}, "any", "-", "-", "unused")

\* path: the fields GetPath is made of; deletable: IsDeletable; hidden: the
\* keys IsEquivalentToDesiredState leaves out; optional: the keys written only
\* when their field is set (or, where there is a switch, when that field has
\* its first value); writeOnly: the keys Vault never answers with; tune: what
\* an existing mount can be changed in; lease: what has an address of its own.
Kind(fields, toMap, path, deletable, webhook, reconciler) ==
    [fields |-> fields, payload |-> toMap, path |-> path,
     deletable |-> deletable, webhook |-> webhook, reconciler |-> reconciler,
     credentials |-> NoCredentials, hidden |-> {}, optional |-> {},
     writeOnly |-> {}, switch |-> "-", tune |-> <<>>, lease |-> <<>>]
=============================================================================
