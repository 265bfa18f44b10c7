# vault-config-operator in TLA+

The operator turns Kubernetes custom resources into configuration of HashiCorp
Vault. This directory holds TLA+ models of it, the TLC configurations that check
them on small instances, and proofs that TLAPS checks for all instances.

    tlc -workers 2 -config VaultResource_one.cfg MCVaultResource
    tlapm VaultResourceProofs.tla

Modules named `MC*` give TLC its constants; modules named `*Proofs` hold
theorems.

## 1. The system

One process (`main.go`) runs a controller for each of some 36 kinds. They share
nothing but the Vault client cache. Each controller has a work queue and *one*
worker (`MaxConcurrentReconciles` is never set); the deployment manifests pass
`--leader-elect`, so one process is active. A reconcile cycle is:

    work queue -> Get from the informer's cache -> prepareContext (login to Vault)
      -> deleted?  clean up in Vault, remove the finalizer
      -> else      prepare values, read Vault, compare, write
      -> ManageOutcome: condition, status update, finalizer

| component | state it keeps | operations | what makes it correct |
|---|---|---|---|
| generic reconcile loop: `vaultresourcereconciler.go`, per-kind `Reconcile`, `prepareContext` | none of its own: the object's finalizer and conditions, the Vault entry | Reconcile, cleanup | the newest version reaches Vault and stays; after a deletion nothing is left; status is never ahead of Vault |
| `ManageOutcome`, helpers: `utils.go` | conditions, finalizer | report, add finalizer, requeue | a failure is retried; the finalizer is there when there is something to clean up |
| event filter: `PeriodicReconcilePredicate` | `SyncPeriod`, `ENABLE_DRIFT_DETECTION` | filter update events | every change of the spec gets through; drift is looked for periodically; back-off is respected |
| Vault endpoint: `vaultobject.go`, `vaultutils.go` | the Vault entry | CreateOrUpdate, Create, Exists, DeleteIfExists | compare before write; a missing entry is not an error |
| RandomSecret: `randomsecret_controller.go` | `status.lastVaultSecretUpdate`, a timer in the queue | write once, or refresh every `refreshPeriod`; delete or retain | refresh goes on; a one-off secret that exists is left alone; the recorded time is of a password in Vault |
| password generation: `randomsecret_types.go` | none | inline or Vault policy | the password meets its policy |
| VaultSecret: `vaultsecret_controller.go`, `vaultsecretutils/hash.go` | `lastVaultSecretUpdate`, `nextVaultSecretUpdate`, a hash annotation, the K8s Secret | sync, resync by lease or period, cleanup | the K8s Secret follows Vault and the spec; others' Secrets are not touched |
| engine mounts: `vaultengineresourcereconciler.go`, `vaultengineobject.go` | mount, tune configuration, `status.accessor` | enable, tune, read the accessor, disable | mounted once, tuned as asked |
| PKI engine: `vaultpkiengineresourcereconciler.go`, `vautlpkiengineobject.go` | `status.generated/exported/signed`, a K8s Secret | generate CA, export CSR, set signed certificate, configure | a CA is generated once and its export is not lost |
| database engine: `databasesecretengineconfig_controller.go` | `status.lastRootPasswordRotation`, the root password | configure, rotate root, follow secrets | a rotated password is never overwritten by the old one |
| RabbitMQ engine | lease configuration | configure, lease | both parts written |
| Vault client and cache: `api/v1alpha1/utils/commons.go` | client per key, a watcher per token | login, get, put, renew, drop | a client handed out has a valid token of the right server |
| kinds and webhooks: `*_types.go`, `*_webhook.go` | spec | path, payload, comparison; refuse changes | what is written compares equal when read back; the path does not change |
| manager set-up, templates, dynamic client | settings | wiring, formatting | - |

Interactions: controllers read objects through informers (stale copies), write
them through the API server (optimistic locking by `resourceVersion`), and write
Vault without any locking. RandomSecret and Secret changes wake other
controllers through watches.

Hard behaviours: stale copies, conflicts, requests lost or answered with an error
after they took effect, restarts (queues and timers are lost), partial failure
between Vault, status and finalizer, resync and back-off in time, two resources
on one Vault path, drift in Vault. `PROJECT.json` lists them as hazards, each at
its line.

## 2. Modules

| module | what it is |
|---|---|
| `KubeObject` | a custom resource as the reconcilers see it: incarnation, generation, deletion, finalizers, conditions |
| `DesiredState` | abstract specification: versions reach Vault in order; after an acknowledged deletion no retired version is in Vault |
| `VaultResource` | the generic reconcile loop, one action per remote call, with API server, informer, work queue and Vault around it |
| `VaultResourceProofs` | its theorems |
| `PeriodicReconcile`, `PeriodicReconcileProofs` | the event filter, the informer's resync and back-off in time; its theorems |
| `RandomSecret`, `RandomSecretProofs` | the RandomSecret controller with its refresh timer; its theorems |
| `VaultSecret`, `VaultSecretProofs` | the VaultSecret controller and the K8s Secret it outputs to; its theorems |
| `EngineMount` | a secret or auth engine mount with its resource |
| `PKIEngine`, `PKIEngineProofs` | a PKI configuration composed with the mount it is on (EXTENDS `EngineMount`); the lemmas and theorems of both |
| `DatabaseRotation`, `DatabaseRotationProofs` | a database configuration and the rotation of its root password; its theorems |
| `VaultClientCache`, `VaultClientCacheProofs` | the process's Vault clients, logins, cache and token watchers; its theorems |
| `VaultKind` | what one kind tells the generic controller, as a record |
| `AuthKinds`, `SecretKinds`, `OtherKinds` | that record for 12, 15 and 6 kinds |
| `KindTables` | all kinds in one table, and the conditions on a kind (`WellFormed`) that the promises of `KindLifecycle` rest on |
| `KindLifecycle`, `KindLifecycleProofs` | one resource of any of these kinds through edits, credential changes, drift and deletion; its theorems |
| `MCVaultResource`, `MCPKIEngine`, `MCDatabaseRotation`, `MCVaultClientCache`, `MCKindLifecycle` | instances for TLC |

Common to the models of controllers: a remote call succeeds, fails without
effect, or takes effect and fails (the answer is lost); `Crash` may come between
any two calls; operators marked "Broken:" are plausible bugs of the definition
after them, which the properties are tested against. They are no part of any
specification.

### VaultResource

`api`, `cache` and `inst` are three copies of an object: the API server's, the
informer's, the worker's. `Watch` moves the first to the second, `Take` the second
to the third. The API server accepts an update from a copy only if nothing was
stored since the copy was made; this is all that `resourceVersion` is used for, so
the model keeps the equality (`cacheCurrent`, `instCurrent`) and no number.
`metadata.generation` names the content of the spec, and goes on counting when a
name is used again, so that two versions under one name can always be compared.

`pc` is the worker's next call:

    login -> prepare -> vaultRead -> [vaultWrite] -> status -> [addFinalizer]
    login -> vaultDelete -> removeFinalizer
    any failed call -> status (ManageOutcome with the error)

Requeueing, `Done(err)`, puts the object back in the queue; the back-off's length
is left out here.

### PeriodicReconcile

One resource whose spec does not change. Time passes in ticks, never while the
program has something to do at once. `success`, `seen` and `wrong` are the ages of
the Success condition, of the informer's copy of it, and of a difference
between Vault and the resource. Jitter of the resync is left out.

### RandomSecret

The same copies, and time. Times are ages so that time can go on for ever:
`since` is the time since `lastVaultSecretUpdate` in each copy, cut at the longest
period. `timer` is the queue's `AddAfter`. `Write` is the unconditional `Create`;
`twice` is the second call of `ManageOutcomeWithRequeue` at line 115. A change
of `secretFormat` is not modelled, so whether it lets an event through is left to
chance. `SyncPeriod` is left out: `Resync` may come at any time, and, in
the fair specification, comes again and again.

### VaultSecret

Two objects with an informer's copy each: the VaultSecret (`api`, `cache`) and the
K8s Secret of its name (`secret`, `seen`). A cycle is: `Take`, with `shouldSync`'s
decision from the hash, the age and the leases; the reads of all definitions
(one action, since only their total and their shortest lease matter); `put`, which
creates or updates the K8s Secret; the status. `Tamper` is anybody else changing,
deleting or occupying the Secret, `CollectSecret` the garbage collector following
the owner reference. Hash and rendering are kept as: are the data those that were
written (`intact`), and of which generation of the spec. Time passes while the
program is at rest; a tick while it is busy counts as a fault, so that promises
about time can be exact otherwise.

Seen in the model and allowed by the properties: an edit of the spec is not
synced before the next sync is due (`shouldSync` does not look at the spec), and a
foreign Secret of the same name is overwritten when it comes between the check and
the write, or deleted with the VaultSecret (`foreign` marks these histories).

### EngineMount and PKIEngine

`EngineMount` is `VaultEngineResource.Reconcile` call by call: list, then enable or
compare and tune, then read the accessor back, then the status. A mount is known
by its accessor, a number never used again. `PKIEngine` adds a
PKISecretEngineConfig on that mount, with its own informer, queue and worker, in all
six variants: a root or an intermediate that is signed internally or externally, each
with an internal (the default) or an exported key. `generated`,
`exported` and `signed` are the recorded progress in the status; `cas` is what was
generated in the mount and goes with it; `csr` lives in the worker's copy only;
`export` is the K8s Secret. The two workers interleave call by call.

What the code does and the model has: a cycle that starts from a copy without the
record generates a CA again, and its key is lost since the Secret is there already
(`vaultpkiengineresourcereconciler.go:109`); an export that failed is not tried again
once the failed cycle's status is stored, as `generated` is recorded with it; an
intermediate whose key is not exported cannot be signed again after a failed signing, so
that of this variant `EventuallySetUp` says only that what is signed gets configured; `config/urls` is never written, the second
write goes to `config/crl` too.

### DatabaseRotation

The cycle of a DatabaseSecretEngineConfig followed by the rotation. Of a password
only this is kept: is it the one the database has now (`conf.good`, `secret`)?
`Take` starts from the informer's copy, which may lack the rotation that the worker
itself recorded a moment ago; `Watch` brings the copy up to date. `Prepare` retrieves
the password unless the copy has a rotation, `Write` compares and writes the
connection, `rotate` has Vault change the password, `record` stores the time, and
the cycle's result sets `timer`. `ChangePassword` is a new password in the database
and in the Secret or RandomSecret.

`Settings` is what else of a spec matters: does Vault verify what is written; is there
a `databaseSpecificConfig`; is the username in the spec; does the controller hear of
the Secret (those of type basic-auth are filtered out). The comparison (`Equivalent`)
never finds a `databaseSpecificConfig` where Vault returns it, nor a username that
was not retrieved, so such a configuration is written by every cycle. That is harmless
without a `databaseSpecificConfig`, as a cycle without the record retrieves both and
finds them equal. With one, a cycle started from a copy without the record retrieves the old
password and writes it over the rotated one; and after a rotation that was not recorded
every cycle does so, or is refused by `verify_connection` for ever. `ConnectionKept` and
`KeepsRotating` are therefore about configurations without it.

### VaultClientCache

Workers ask for a client at the start of each cycle: look up, log in, start a
watcher, store, with no lock around the three. A client is what it logged in with, its
server included, and a number. `Expire` ends a token, `Ended` is the watcher that notices
and removes the entry of its key (which may be a newer client's), `GivenUp` a watcher
that stops watching a valid token. `setting` is CACHE_VAULT_TOKEN: only "true"
reads the cache; "true" and an unset variable store in it, any other value does not.

The key is a string joined with colons, which path, role and Vault namespace may hold
themselves; the model has it as the sequence of its segments (`Split` says of a field
where its colons are). The connection is not part of it. So keys do not tell clients
apart, and `OwnIdentity` says what they do tell: a client is always of the own service
account; of the own path, role and namespace if these hold no colon; of the own
server if also all resources of this identity name one server. Two resources that differ
in nothing but the server share a client, and the second works on the first one's server.

### Kinds

A record per kind: the fields of its spec and which of them Vault's decoded answer
can equal (`reflect.DeepEqual` is type-sensitive), `toMap` as Vault's key |-> field,
the fields of `GetPath`, the fields the webhook guards, where credentials come from
and how, and what the controller follows through which predicate. `KindLifecycle`
runs one resource of any kind: a value is a pair of the field it comes from and a
version, so that a forgotten, stale or exchanged value is seen in Vault. A cycle is
one step here; its calls are `VaultResource`'s and `EngineMount`'s.

`KindTables` says what must be true of each kind by itself: every field of the spec
has a key that carries it, that the comparison sees and that is not left out when
the field has a value; a mount's fields can be tuned or not edited; a kind with an
identifier has credentials, and the identifier is withheld with a `blank` source
only in the kinds of `IdNeedsSource`. TLC evaluates these conditions for all 33 kinds at
the start of the run (`KindsAssumption`). The exceptions are listed by name (`NeverSent`: fields that no `toMap` sends; `IdNeedsSource`;
`PasswordNotCompared`: passwords that the comparison leaves out). Two kinds (LDAP and
GitHub) meet them in an odd way: their password is left out of the comparison, but
another field has a type that never compares equal, so that every cycle writes
(`NeverEqual`).

Assumed of Vault, which is not in the repository: it keeps what it is given, keeps
a key it is not given, and answers with the keys that are not write-only.

A configuration for Azure (auth and secret engine), GCP or JWT can do without a source.
If the block of credentials then is one exact literal (or, for JWT, not there), nothing is
retrieved and the cycle goes on: the source `blank`. If it is anything else, the CRD's own
defaults included, the webhook admits the resource and every cycle ends in an error: the
source `none`.

`Delivered` says whether an event reaches the controller. A KubernetesAuthEngineRole hears
of a namespace unless the selector of some role does not parse, which hides it from all
(`unparsed`; `kubernetesauthenginerole_controller.go:125`).

What the tables show and no property forbids: the update predicate for Secrets in seven
controllers is inverted (`Equal || Equal`: a change of all keys at once passes
unnoticed), and excludes the very type that the credentials of GitHub and of the
Kubernetes engine require; RabbitMQ's controller watches neither Secrets nor
RandomSecrets; resources are admitted whose cycles can never succeed;
KubernetesSecretEngineRole exchanges `token_max_ttl` and `token_default_ttl`; the RabbitMQ configuration's path check is registered
(`main.go:455`) but no webhook configuration names it; five kinds do not guard their
path, although `docs/contributing-vault-apis.md:58` says that all do; a lease is
written only when no value is given; a cleared optional key stays in Vault; an
edited `spec.name` leaves the old object behind.

## 3. What the runs check

| run | module | question | result |
|---|---|---|---|
| `resource_safety` | `MCVaultResource` | types; cleanup is final and never skipped, the status is not ahead of Vault, no version regresses, `DesiredState` is implemented | holds |
| `resource_liveness` | `MCVaultResource` | resources settle and deletions complete, without drift detection | holds |
| `drift_bound` | `PeriodicReconcile` | how long drift can last with drift detection | holds, and the bound is exact when nothing fails |
| `secret_liveness` | `RandomSecret` | provisioning and deletion complete; nothing is left after a cleanup | holds |
| `secret_refresh_drift` | `RandomSecret` | refresh goes on for ever with drift detection; the recorded time is true | holds |
| `vault_secret` | `VaultSecret` | the K8s Secret heals at once, the next sync is scheduled in time, the recorded time is true, refresh goes on for ever | holds |
| `engines` | `MCPKIEngine` | mounts and PKI configurations report what Vault has, progress and exports are kept, every configuration that can be is set up | holds |
| `database_rotation` | `MCDatabaseRotation` | recorded rotations are real, the next is scheduled; without databaseSpecificConfig the rotated password is kept, rotation goes on for ever | holds |
| `client_cache` | `MCVaultClientCache` | whose client a worker may get, and that it had a valid token; finally all are served from the cache | holds |
| `kinds` | `MCKindLifecycle` | for all 33 kinds: what is settled is in Vault but for the named exceptions, guarded kinds leave no object elsewhere, every cycle heals | holds |
| `secret_refresh_lost` | `RandomSecret` | refresh goes on for ever without drift detection, with no failure at all | **violated** |
| `database_secret` | `MCDatabaseRotation` | the connection follows the Secret it names | **violated** |

The violated ones are the findings of `PROJECT.json`; each quotes the line of a
doc or comment that says otherwise. `secret_refresh_lost` adds a period to a secret
written before; a restart, or an error after the write, loses the timer in the same
way. In `database_secret` the comparison leaves the password out, so that a cycle
started by the change of the Secret writes nothing.

More disagreements are in the models as the code has them, without a run of their own:

* a one-off RandomSecret overwrites an existing secret when the check for it fails
  (`randomsecret_controller.go:159`, `docs/secret-management.md:59`);
* a resource deleted before its finalizer is stored leaves its entry in Vault
  (`utils.go:163`);
* the sync period skips every other resync (`utils.go:245`, `readme.md:123`);
* the status update of a failed cycle starts the next one before the back-off is over
  (`utils.go:240`, `utils_test.go:201`);
* resources may name different Vault servers, but clients are cached under a key that
  does not (`commons.go:203`, `readme.md:168`; `readme.md:114` lists the key's parts);
* `passwordAuthentication` of a database configuration is never sent
  (`databasesecretengineconfig_types.go:338`, `docs/secret-engines.md:99`);
* the RabbitMQ configuration does not follow the Secret or RandomSecret it names
  (`rabbitmqsecretengineconfig_controller.go:112`, `docs/secret-engines.md:416` and `:418`);
* Azure, GCP and JWT configurations without a source, admitted by the webhook, fail in
  every cycle unless the credentials block is one exact literal
  (`azureauthengineconfig_types.go:181`, and the same text in the others);
* with a `databaseSpecificConfig` the old root password can be written over a rotated one
  (`databasesecretengineconfig_types.go:348`).

### Bounds

* `resource_*`: one deletable resource, 3 requests (creation, edit, deletion or
  deletion and creation again), 2 faults or crashes, so that a recovery can fail; in
  the safety run 1 drift. One resource is enough for safety: a controller's resources
  meet only in the queue and on a shared path, and both are covered by the proofs,
  which are for any number of resources and paths.
* `drift_bound`: sync period 3, latency 1, back-off 2, the least values that are all
  different; 2 faults. The bound was compared with the exact worst case for others.
* `secret_*`: periods none and 1, or none and 2 (2 tells a period from the moment
  before its end); 2 or 3 requests, 1 fault, 1 restart; both retain policies where
  no cleanup is looked at. The safety properties are proved for all values.
* `vault_secret`: periods none and 2, leases of 1 and 3 with the threshold 90 (one
  rounds to nothing, one to less than itself), 2 definitions, ages up to 3, 2
  requests, 1 fault, 1 change of the Secret by others.
* `engines`: all six variants, 2 requests, 1 fault or drift; CAs from the second on
  are not told apart, which is enough for "the first and a later one".
* `database_rotation`: no rotation, once, every 2 ticks; 4 of the 16 settings, in which
  each branch of the comparison and of the write is taken; 3 requests, 2 faults.
  `database_secret` has 2 requests and 1 fault.
* `client_cache`: 2 workers; 3 resources, of which one has a key of its own and two have
  one key on different servers (by a colon in the role and in the path); three settings,
  5 clients per login, which leaves room for both workers' logins, a replaced client and
  those whose watchers are late; 1 fault.
* `kinds`: every kind, every source of credentials, 2 changes (of fields,
  sources, inputs or Vault's object) after the creation: interference between two
  changes is covered, and each field is changed alone and with any other.

The runs that turn deadlock checking off do so because the system really stops
when all requests, faults and drifts are used up.

### Fairness

Users, other clients of Vault, faults and crashes are never required to happen.
Weak fairness of the worker's steps stands for a goroutine that goes on running, of
`Watch` for an informer whose watch is re-established, of `Tick` for time passing, of
the garbage collector for Kubernetes. In particular:

* `VaultResource`: also weak fairness of the resync, and strong fairness of `Take`:
  the queue is first in, first out, so an object that is queued is handed out although
  others come in between.
* `RandomSecret`: `Resync` is fair, and only enabled with drift detection on.
* `VaultSecret`: `WatchSecret` as `Watch`; no resync is used.
* `PKIEngine`: the mount's worker is fair by itself, so that neither controller relies
  on the other's turn.
* `DatabaseRotation`: the informer too; ticks pass only between cycles, which take no time
  by comparison.
* `VaultClientCache`: each worker, and each watcher of an ended token. A token
  need never end.
* `PeriodicReconcile` and `KindLifecycle` have no liveness property: `DriftBounded`
  is an invariant over a clock, `EveryCycleHeals` an action property.

## 4. What is proved

All theorems are for every value of the constants; the assumptions are those named
in the modules (`ConstantTypes`, `PeriodicConstants`, `RandomSecretConstants`,
`VaultSecretConstants`, `EngineMountConstants`, `PKIConstants`,
`DatabaseConstants`, `CacheConstants`, `KindLifecycleAssumption`: the types of the
constants; and `KindsAssumption`, that the kinds are `WellFormed`, which TLC finds true
of all 33).

| module | theorems |
|---|---|
| `VaultResourceProofs` | `Invariance` (`IInv`), `TypeCorrect`, `CleanupIsFinal`, `CleanupIsReached`, `NeverRegresses`, `Refinement`, `SuccessIsTrue` |
| `PeriodicReconcileProofs` | `DriftInvariant` (`DriftInv`), `DriftIsBounded` |
| `RandomSecretProofs` | `SecretInvariant` (`SecretInv`), `SecretTyped`, `RefreshIsTrue`, `SecretCleanupIsFinal` |
| `VaultSecretProofs` | `BaseInvariant` (`Base`), `VaultSecretTyped`, `AttendedInvariant`, `HealsAtOnceHolds`, `TimelyInvariant`, `DueInTimeHolds`, `HonestInvariant`, `ContentNotOlderHolds` |
| `DatabaseRotationProofs` | `RotationInvariant` (`RotationInv`), `RotationsAreReal`, `NextIsScheduled`, `PasswordIsKept` |
| `PKIEngineProofs` | `EnginesInvariant` (`PKIInv`), `MountIsAsReported`, `MountGoesWithResource`, `EngineIsSetUp`, `ExportIsOwn`, `ProgressIsKept` |
| `VaultClientCacheProofs` | `CacheInvariant` (`CacheInv`), `CacheTyped`, `ClientIsOwn`, `ClientIsAlive` |
| `KindLifecycleProofs` | `LifecycleInvariant` (`LifecycleInv`), `LifecycleTyped`, `SettledIsReflectedHolds`, `NothingIsElsewhere`, `CyclesHeal` |

**Generic loop.** `NothingLeftBehind` is not inductive: a worker with an old copy
could write a retired version. What excludes it is an order between the copies:
worker, informer and API server never know less in this order, and knowledge of
a deletion is part of it unless the name was used again (`CopiesOrdered`); Vault
has nothing newer than the worker or the informer (`VaultBehind`), so a write never
goes back; and a copy from which the worker could still write, one that is not
marked as deleted, is newer than what was retired (`RetiredNotWritten`).
`PhaseKnows` says what the worker found out on its way to each call, in
particular that before the finalizer goes the entry is gone. `IInv` is the
conjunction; there is one lemma per action, most of them through two lemmas on steps
that leave the copies alone. `NoRegress` and the refinement follow step by step.
Paths may be shared.

`SuccessIsInVault` needs `SuccessInv` besides: a success recorded in the API server
is of the incarnation that every copy is of (when it was recorded the worker's
copy was current, and the informer's lies between), so a copy whose cleanup is
still to come belongs to a resource that is being deleted; and a cycle on its way
to report success has found or put its version in Vault. It holds of resources that
have their path to themselves while nobody else changed Vault.

**Drift.** `DriftBounded` is not inductive: a state in which the next resync comes
too late satisfies it. `Remaining` is the number of ticks until the next
comparison is over if nothing fails any more: what is left of the cycle, of the
back-off, or of the wait for a resync that finds the success a period old (the
next one or the one after it). A tick takes one off `Remaining`, and no other step but
a fault adds to it, so a difference's age and what remains of it never exceed
`Allowed`, the bound for the faults so far (`Healing`). A cycle that reports after the
resource was queued again, and a status the informer has yet to see, need
`Delivered`. Periods, latency, back-off and number of faults are arbitrary.

**RandomSecret.** `StatusNotAhead` speaks of the stored object, but a cleanup that
starts from an old copy could delete the password behind a record, and a store from
the worker's copy could record a time that is not true. `SecretInv` says what can be
concluded from an old copy (`NotAfter`): it is of an earlier incarnation, and then
nothing is recorded for the stored one, because a record is only stored from a
current copy and the informer was not behind it; or of the stored one, which then is
deleted if the copy is. `CopyNotAhead` is `StatusNotAhead` of a current copy. For
`NothingLeft`, `Cleans` keeps that after the finalizer went under the Delete policy
every copy, the worker's and the informer's, is absent or of a deleted resource
until the name is used again, and that only other copies lead to a write.

**VaultSecret.** `HealsAtOnce` and `DueInTime` speak of a program at rest, and say
nothing inductive. `Attended` says the same of every moment: a Secret that is
not right has the VaultSecret queued, an event on its way, a timer about to end,
or a cycle under way that will write it or try again. It needs that incarnations succeed
one another in the copies (`Order`), so that a cycle from an old copy cannot have
written a Secret that looks right, and what the Secret's informer has yet to
tell (`Watched`). `Timely` is the same for the time of the next sync: the timer
that a cycle sets is computed from the copy that it stores, and no later than
the period or the rounded share of any lease (`Scaled`). `Honest` extends
`ContentNotOlder` from the stored status to the worker's and the informer's copies. All
three rest on `Base`: a copy is a version the VaultSecret had, and one that counts
as current is the stored one.

**Database.** Copies lag behind: the worker's behind the informer's behind the stored
one, and Vault behind the worker's (`CacheOrder`, `CopyOrder`, by generations).
`NextRotationDue` needs that a resource which is not queued is the one in
the worker's copy, but for a rotation that is not recorded yet (`CopyFollows`), as the
timer is computed from the copy; a cycle with an older copy fails at its status update
and is repeated. `ConnectionKept` needs `RotationKnown`: once a rotation is recorded, a
copy without the record, the informer's or the worker's, is of a generation that Vault
has, because the record was stored behind a write of it (`Written`); such a cycle
retrieves the old password with the username, finds its payload in Vault, and does not
write. `RecordedIsReal` needs the same of the copies (`CopiesAreReal`).

**Engines.** `MountInv` says what Vault has at each call of the mount's worker while
nobody else interferes (`Mounted`), and that a cleanup under way is of a deleted
resource (`Cleaning`). `PKIInv` adds that a current copy has recorded all that is
stored (`Copies`), whose export the Secret holds (`Exports`), and what was generated in
a mount (`SetUp`), for which it matters that a mount goes with all its CAs.

**Client cache.** An entry is under the key of the login of its client (`Keyed`), and a
worker's client is of the worker's own key (`Held`). What that says about the login is a
fact about joined sequences (`KeyTells`): the first two segments are the service account;
if the own path, role and namespace are single segments, the other's, none of which is
empty, are so too and are the same. Nothing is assumed about the resources. A worker that uses a client found
it valid or has just logged in (`Held`).

**Kinds.** The tables are put together with `@@` and computed keys, which the provers
cannot unfold, so the proofs use only the conditions of `KindTables`, and hold
for any number of changes and for any kind that meets them, a future one
included. `CyclesHeal` is the core: an intended value is not nothing (`FieldValue`),
some key carries it (`IntendedIsCarried`), so the payload shows it, so does an entry that
the comparison takes for equal (`EquivalentShows`), and a mount that is only tuned
(`TunedShows`). The last needs `Mounted`: where a mount cannot be tuned it is as it was
created, because the webhook guards those fields. `SettledIsReflected` follows, as
whatever disturbs it queues the resource, counts as missed or as drift.
`NothingElsewhere` needs `Addressed`: a deletable kind without the finalizer has
nothing in Vault yet.

Every invariant and action property of the passing runs is proved. Only
model-checked: liveness, which is out of the prover's reach, and that the tables
are `WellFormed`.

## 5. What is not modelled, and what is left

* Password generation: how the characters are drawn from a policy. It has no
  state; an attempt that misses a rule never succeeds later in the same call
  (`randomsecret_types.go:276`), which the models see as a failed `Generate`.
* Template functions, formatting, the dynamic client and API discovery: text and
  look-ups without state of their own.
* In the tables: the accessor placeholders in the text of a Policy, the id that
  GroupAlias looks up or creates, the TLS Secret of LDAP, the part of the
  GCP update predicate that compares the old service account with the new credentials;
  and the panic on a missing secret in the `vaultSecret` branch of GitHub and the
  Kubernetes engine.
* A failure between the two writes of the RabbitMQ configuration.
* Manager wiring, manifests, and generated code (`zz_generated.deepcopy.go` alone is
  a fifth of the implementation's lines).
* The Vault server, the API server and controller-runtime beyond what the code
  relies on.

Left to do: the composition of `DatabaseRotation` with `RandomSecret`, whose record of a new
password is what starts the other's cycle.
