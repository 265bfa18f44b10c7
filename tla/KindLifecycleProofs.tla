------------------------- MODULE KindLifecycleProofs -------------------------
(***************************************************************************)
(* What the conditions of KindTables on each kind lead to: the proofs are  *)
(* for any set of kinds that are WellFormed and any number of changes.     *)
(***************************************************************************)
EXTENDS KindLifecycle, FiniteSetTheorems, TLAPS

(* The tables are about what Vault's object must be like at any time.  A   *)
(* kind with a fixed address has no object elsewhere, and one that is      *)
(* deleted in Vault has none before it has the finalizer.                  *)
Addressed ==
    /\ kind \in FixedAddress => DOMAIN vault \subseteq {GetPath}
    /\ K.deletable /\ ~finalizer /\ object # "gone" => DOMAIN vault = {}
    /\ K.deletable /\ object = "gone" => ~Found

(* A mount has what it was created with, wherever it cannot be tuned.      *)
CannotBeTuned(x) ==
    x \in DOMAIN K.payload \ DOMAIN K.tune /\ K.payload[x] \in K.webhook.guarded

Mounted ==
    K.reconciler.loop = "engine" =>
        \A a \in DOMAIN vault : \A x \in DOMAIN K.payload :
            CannotBeTuned(x) =>
                /\ x \in DOMAIN vault[a]
                /\ vault[a][x] = <<K.payload[x], spec[K.payload[x]]>>

-----------------------------------------------------------------------------
(* The kind's table, and what depends on it.                               *)
LEMMA TableFacts ==
  ASSUME kind \in Kinds
  PROVE  /\ Entry(K) /\ Namespaces(K) /\ Identified(kind, K)
         /\ Complete(kind, K) /\ Mountable(K)
         /\ kind \in FixedAddress => K.path \subseteq K.webhook.guarded
  BY KindsAssumption DEF WellFormed, K

LEMMA KindKept ==
  ASSUME [Next]_vars
  PROVE  kind' = kind /\ K' = K
  <1>1. kind' = kind
    BY DEF Next, vars, Cycle, CleanUp, Resync, UserDelete, ChangeInput, Edit,
           ChangeSource, Tamper, Change
  <1>2. QED
    BY <1>1 DEF K

LEMMA PathKept ==
  ASSUME K' = K, spec' = spec
  PROVE  GetPath' = GetPath
  BY DEF GetPath

(* Where the credentials come from. *)
LEMMA SourceFacts ==
  ASSUME kind \in Kinds, source \in SourcesOf(K)
  PROVE  /\ source \in Sources \cup {"selector", "none", "blank"}
         /\ Selected => "selector" \in K.credentials.sources
         /\ \A changed \in (SUBSET InputsOf(source)) \ {{}} :
              source \in K.credentials.sources
  <1>1. source \in Sources \cup {"selector", "none", "blank"}
    BY TableFacts DEF SourcesOf, Entry
  <1>2. Selected => "selector" \in K.credentials.sources
    BY TableFacts DEF Namespaces, Selected
  <1>3. source \in {"none", "blank"} => InputsOf(source) = {}
    BY DEF InputsOf
  <1>4. ASSUME NEW changed \in (SUBSET InputsOf(source)) \ {{}}
        PROVE  source \in K.credentials.sources
    <2>1. changed \subseteq InputsOf(source) /\ changed # {}
      BY <1>4
    <2>2. source \notin {"none", "blank"}
      BY <1>3, <2>1
    <2>3. QED
      BY <2>2 DEF SourcesOf
  <1>5. QED
    BY <1>1, <1>2, <1>4

-----------------------------------------------------------------------------
(* What an action may store.                                               *)
LEMMA StoredFacts ==
  ASSUME NEW entry, Stored(entry)
  PROVE  /\ DOMAIN vault' = DOMAIN vault \cup {GetPath}
         /\ vault'[GetPath] = entry
         /\ \A a \in DOMAIN vault \ {GetPath} : vault'[a] = vault[a]
  BY DEF Stored

LEMMA OverFacts ==
  ASSUME NEW new, NEW old
  PROVE  /\ DOMAIN Over(new, old) = DOMAIN new \cup DOMAIN old
         /\ \A x \in DOMAIN new : Over(new, old)[x] = new[x]
         /\ \A x \in DOMAIN old \ DOMAIN new : Over(new, old)[x] = old[x]
  BY DEF Over

(* Vault is left alone, or gets an entry at the address. *)
Entries ==
    {GetPayload, Tune} \cup
    {Over(GetPayload, [x \in DOMAIN K.lease |-> <<K.lease[x], 0>>])}

LEMMA WriteFacts ==
  ASSUME kind \in Kinds, WriteToVault
  PROVE  \/ vault' = vault
         \/ \E entry \in Entries : Write(entry)
  <1>1. K.reconciler.loop \in {"resource", "engine", "rabbitmq"}
    BY TableFacts DEF Entry
  <1>2. CASE K.reconciler.loop = "resource"
    BY <1>2 DEF WriteToVault, CreateOrUpdate, Entries
  <1>3. CASE K.reconciler.loop = "engine"
    BY <1>3 DEF WriteToVault, CreateOrTune, Entries
  <1>4. CASE K.reconciler.loop = "rabbitmq"
    BY <1>4 DEF WriteToVault, CreateConnectionAndLease, Entries
  <1>5. QED
    BY <1>1, <1>2, <1>3, <1>4

-----------------------------------------------------------------------------
(* Types.                                                                  *)
LEMMA InitTyped == Init => TypeOK
  <1> SUFFICES ASSUME Init PROVE TypeOK
    OBVIOUS
  <1>1. kind \in Kinds /\ K.deletable \in BOOLEAN
    BY TableFacts DEF Init, Entry
  <1>2. PICK unset \in {{}, CanBeUnset(K)} :
          spec = [f \in SpecFields(K) |-> IF f \in unset THEN 0 ELSE 1]
    BY DEF Init
  <1>3. /\ DOMAIN spec = SpecFields(K) /\ spec \in [DOMAIN spec -> 0..2]
        /\ {f \in DOMAIN spec : spec[f] = 0} \subseteq CanBeUnset(K)
    BY <1>2
  <1>4. DOMAIN vault = {}
    BY DEF Init
  <1>5. inputs \in [Inputs -> 1..2]
    BY DEF Init
  <1>6. changes \in 0..MaxChanges
    BY KindLifecycleAssumption DEF Init
  <1>7. ofType \in BOOLEAN
    BY DEF Init
  <1>8. QED
    BY <1>1, <1>3, <1>4, <1>5, <1>6, <1>7 DEF Init, TypeOK

(* The shape of what is written. *)
Shaped(v) ==
    \A a \in DOMAIN v :
        /\ DOMAIN a = K.path
        /\ DOMAIN v[a] \subseteq DOMAIN K.payload \cup DOMAIN K.lease

LEMMA WriteShaped ==
  ASSUME TypeOK, WriteToVault
  PROVE  Shaped(vault')
  <1>1. /\ kind \in Kinds /\ Shaped(vault)
        /\ DOMAIN K.tune \subseteq DOMAIN K.payload
    BY TableFacts DEF TypeOK, Shaped, Entry
  <1>2. CASE vault' = vault
    BY <1>1, <1>2 DEF Shaped
  <1>3. ASSUME NEW entry \in Entries, Write(entry) PROVE Shaped(vault')
    <2>1. DOMAIN entry \subseteq DOMAIN K.payload \cup DOMAIN K.lease
      <3>1. DOMAIN GetPayload \subseteq DOMAIN K.payload
        BY DEF GetPayload
      <3>2. DOMAIN Tune \subseteq DOMAIN K.payload
        BY <1>1 DEF Tune
      <3>3. QED
        BY <1>3, <3>1, <3>2 DEF Entries, Over
    <2>2. PICK e : /\ Stored(e)
                   /\ e = IF Found THEN Over(entry, vault[GetPath]) ELSE entry
      BY <1>3 DEF Write
    <2>3. DOMAIN e \subseteq DOMAIN K.payload \cup DOMAIN K.lease
      BY <1>1, <2>1, <2>2 DEF Shaped, Found, Over
    <2>4. DOMAIN GetPath = K.path
      BY DEF GetPath
    <2>5. QED
      BY <1>1, <2>2, <2>3, <2>4, StoredFacts DEF Shaped
  <1>4. QED
    BY <1>1, <1>2, <1>3, WriteFacts

LEMMA NextTyped == TypeOK /\ [Next]_vars => TypeOK'
  <1> SUFFICES ASSUME TypeOK, [Next]_vars PROVE TypeOK'
    OBVIOUS
  <1> USE KindKept
  <1>1. kind \in Kinds /\ source \in SourcesOf(K) /\ Shaped(vault)
    BY DEF TypeOK, Shaped
  <1>2. CASE Cycle
    <2>1. CASE Succeed
      <3>1. Shaped(vault') /\ K.deletable \in BOOLEAN
        BY <1>1, <2>1, WriteShaped, TableFacts DEF Succeed, Entry
      <3>2. QED
        BY <1>2, <2>1, <3>1 DEF Cycle, Succeed, TypeOK, Shaped
    <2>2. CASE Fail
      BY <1>2, <2>2 DEF Cycle, Fail, TypeOK
    <2>3. QED
      BY <1>2, <2>1, <2>2 DEF Cycle
  <1>3. CASE CleanUp
    BY <1>3 DEF CleanUp, Without, TypeOK
  <1>4. CASE Resync
    BY <1>4 DEF Resync, TypeOK
  <1>5. CASE UserDelete
    BY <1>5 DEF UserDelete, TypeOK
  <1>6. ASSUME Change PROVE changes' \in 0..MaxChanges
    BY <1>6, KindLifecycleAssumption DEF Change, TypeOK
  <1>7. CASE ChangeInput
    <2>1. inputs' \in [Inputs -> 1..2]
      BY <1>7 DEF ChangeInput, TypeOK
    <2>2. source \in K.credentials.sources
      BY <1>1, <1>7, SourceFacts DEF ChangeInput
    <2>3. missed' \subseteq K.credentials.sources /\ queued' \in BOOLEAN
      BY <1>7, <2>2 DEF ChangeInput, TypeOK
    <2>4. QED
      BY <1>6, <1>7, <2>1, <2>3 DEF ChangeInput, Change, TypeOK
  <1>8. ASSUME NEW f \in DOMAIN spec, Edit(f) PROVE TypeOK'
    <2>1. source' \in SourcesOf(K)
      BY <1>1, <1>8, SourceFacts DEF Edit, SourcesOf
    <2>2. PICK v \in 0..2 : /\ v = 0 => f \in CanBeUnset(K)
                            /\ spec' = [spec EXCEPT ![f] = v]
      BY <1>8 DEF Edit
    <2>3. /\ DOMAIN spec' = SpecFields(K) /\ spec' \in [DOMAIN spec' -> 0..2]
          /\ {g \in DOMAIN spec' : spec'[g] = 0} \subseteq CanBeUnset(K)
      BY <2>2 DEF TypeOK
    <2>4. QED
      BY <1>6, <1>8, <2>1, <2>3 DEF Edit, Change, TypeOK
  <1>9. ASSUME NEW s \in SourcesOf(K), ChangeSource(s) PROVE TypeOK'
    BY <1>6, <1>9 DEF ChangeSource, Change, TypeOK
  <1>10. ASSUME NEW x, Tamper(x) PROVE TypeOK'
    <2>1. Shaped(vault')
      BY <1>1, <1>10 DEF Tamper, Shaped, Found
    <2>2. QED
      BY <1>6, <1>10, <2>1 DEF Tamper, Change, TypeOK, Shaped
  <1>11. CASE UNCHANGED vars
    BY <1>11 DEF vars, TypeOK
  <1>12. QED
    BY <1>2, <1>3, <1>4, <1>5, <1>7, <1>8, <1>9, <1>10, <1>11 DEF Next

-----------------------------------------------------------------------------
(* Where objects are.                                                      *)
LEMMA WriteAt ==
  ASSUME kind \in Kinds, WriteToVault
  PROVE  DOMAIN vault' \subseteq DOMAIN vault \cup {GetPath}
  <1>1. ASSUME NEW entry, Write(entry)
        PROVE  DOMAIN vault' = DOMAIN vault \cup {GetPath}
    BY <1>1 DEF Write, Stored
  <1>2. QED
    BY <1>1, WriteFacts

LEMMA EditKeepsAddress ==
  ASSUME TypeOK, NEW f \in DOMAIN spec, Edit(f), kind \in FixedAddress, K' = K
  PROVE  GetPath' = GetPath
  <1>1. K.path \subseteq K.webhook.guarded \cap DOMAIN spec
    BY TableFacts DEF TypeOK, SpecFields
  <1>2. \A g \in K.path : spec'[g] = spec[g]
    BY <1>1 DEF Edit, ValidateUpdate
  <1>3. QED
    BY <1>2 DEF GetPath

LEMMA NextAddressed == TypeOK /\ Addressed /\ [Next]_vars => Addressed'
  <1> SUFFICES ASSUME TypeOK, Addressed, [Next]_vars PROVE Addressed'
    OBVIOUS
  <1>1. kind' = kind /\ K' = K /\ kind \in Kinds
    BY KindKept DEF TypeOK
  <1>2. spec' = spec => GetPath' = GetPath
    BY <1>1, PathKept
  <1>3. CASE Cycle
    <2>1. CASE Succeed
      <3>1. DOMAIN vault' \subseteq DOMAIN vault \cup {GetPath}
        BY <1>1, <2>1, WriteAt DEF Succeed
      <3>2. QED
        BY <1>1, <1>2, <1>3, <2>1, <3>1 DEF Cycle, Succeed, Addressed
    <2>2. CASE Fail
      BY <1>1, <1>2, <1>3, <2>2 DEF Cycle, Fail, Addressed
    <2>3. QED
      BY <1>3, <2>1, <2>2 DEF Cycle
  <1>4. CASE CleanUp
    <2>1. DOMAIN vault' = DOMAIN vault \ {GetPath}
      BY <1>4 DEF CleanUp, Without
    <2>2. QED
      BY <1>1, <1>2, <1>4, <2>1 DEF CleanUp, Addressed, Found
  <1>5. CASE UserDelete
    BY <1>1, <1>2, <1>5 DEF UserDelete, Addressed, Found
  <1>6. ASSUME NEW f \in DOMAIN spec, Edit(f) PROVE Addressed'
    <2>1. kind \in FixedAddress => GetPath' = GetPath
      BY <1>1, <1>6, EditKeepsAddress
    <2>2. QED
      BY <1>1, <1>6, <2>1 DEF Edit, Change, Addressed
  <1>7. ASSUME NEW x, Tamper(x) PROVE Addressed'
    <2>1. DOMAIN vault' = DOMAIN vault
      BY <1>7 DEF Tamper
    <2>2. QED
      BY <1>1, <1>2, <1>7, <2>1 DEF Tamper, Change, Addressed
  <1>8. CASE Resync \/ ChangeInput \/ (\E s \in SourcesOf(K) : ChangeSource(s))
             \/ UNCHANGED vars
    <2>1. /\ spec' = spec /\ vault' = vault /\ finalizer' = finalizer
          /\ object' = object
      BY <1>8 DEF Resync, ChangeInput, ChangeSource, Change, vars
    <2>2. QED
      BY <1>1, <1>2, <2>1 DEF Addressed, Found
  <1>9. QED
    BY <1>3, <1>4, <1>5, <1>6, <1>7, <1>8 DEF Next

LEMMA AddressedSuffices ==
  ASSUME Addressed
  PROVE  NothingElsewhere
  <1>1. ASSUME kind \in FixedAddress PROVE Cardinality(DOMAIN vault) <= 1
    <2>1. IsFiniteSet({GetPath}) /\ Cardinality({GetPath}) = 1
      BY FS_Singleton
    <2>2. Cardinality(DOMAIN vault) <= Cardinality({GetPath})
      BY <1>1, <2>1, FS_Subset DEF Addressed
    <2>3. QED
      BY <2>1, <2>2
  <1>2. QED
    BY <1>1 DEF Addressed, NothingElsewhere

-----------------------------------------------------------------------------
(* What a mount cannot be tuned in.                                        *)
LEMMA MountValue ==
  ASSUME TypeOK, K.reconciler.loop = "engine", NEW x \in DOMAIN K.payload
  PROVE  /\ x \in DOMAIN GetPayload
         /\ GetPayload[x] = <<K.payload[x], spec[K.payload[x]]>>
  <1>1. /\ K.credentials.field = "-" /\ K.optional = {}
        /\ K.payload[x] \in SpecFields(K)
        /\ K.payload[x] \notin Inputs /\ K.payload[x] # "-"
    BY TableFacts DEF TypeOK, Mountable, Entry
  <1>2. ~LeftOut(x)
    BY <1>1 DEF LeftOut
  <1>3. Value(K.payload[x]) = <<K.payload[x], spec[K.payload[x]]>>
    BY <1>1 DEF Value, NotRetrieved, FromSource, Inputs
  <1>4. QED
    BY <1>2, <1>3 DEF GetPayload

LEMMA WriteMounted ==
  ASSUME TypeOK, Mounted, WriteToVault, K' = K, spec' = spec
  PROVE  Mounted'
  <1> SUFFICES ASSUME K.reconciler.loop = "engine",
                      NEW a \in DOMAIN vault', NEW x \in DOMAIN K.payload,
                      CannotBeTuned(x)
               PROVE  /\ x \in DOMAIN vault'[a]
                      /\ vault'[a][x] = <<K.payload[x], spec[K.payload[x]]>>
    BY DEF Mounted, CannotBeTuned
  <1>1. Stored(IF Found THEN Over(Tune, vault[GetPath]) ELSE GetPayload)
    BY DEF WriteToVault, CreateOrTune, Write
  <1>2. CASE a # GetPath
    <2>1. a \in DOMAIN vault /\ vault'[a] = vault[a]
      BY <1>1, <1>2 DEF Stored
    <2>2. QED
      BY <2>1 DEF Mounted
  <1>3. CASE a = GetPath /\ Found
    <2>1. vault'[a] = Over(Tune, vault[GetPath])
      BY <1>1, <1>3 DEF Stored
    <2>2. /\ x \in DOMAIN vault[GetPath]
          /\ vault[GetPath][x] = <<K.payload[x], spec[K.payload[x]]>>
      BY <1>3 DEF Mounted, Found
    <2>3. x \notin DOMAIN Tune
      BY DEF Tune, CannotBeTuned
    <2>4. QED
      BY <2>1, <2>2, <2>3 DEF Over
  <1>4. CASE a = GetPath /\ ~Found
    <2>1. vault'[a] = GetPayload
      BY <1>1, <1>4 DEF Stored
    <2>2. QED
      BY <2>1, MountValue
  <1>5. QED
    BY <1>2, <1>3, <1>4

LEMMA NextMounted == TypeOK /\ Mounted /\ [Next]_vars => Mounted'
  <1> SUFFICES ASSUME TypeOK, Mounted, [Next]_vars PROVE Mounted'
    OBVIOUS
  <1>1. kind' = kind /\ K' = K
    BY KindKept
  <1>2. CASE Cycle
    <2>1. CASE Succeed
      BY <1>1, <1>2, <2>1, WriteMounted DEF Cycle, Succeed
    <2>2. CASE Fail
      BY <1>1, <1>2, <2>2 DEF Cycle, Fail, Mounted, CannotBeTuned
    <2>3. QED
      BY <1>2, <2>1, <2>2 DEF Cycle
  <1>3. CASE CleanUp
    <2>1. /\ DOMAIN vault' \subseteq DOMAIN vault /\ spec' = spec
          /\ \A a \in DOMAIN vault' : vault'[a] = vault[a]
      BY <1>3 DEF CleanUp, Without
    <2>2. QED
      BY <1>1, <2>1 DEF Mounted, CannotBeTuned
  <1>4. ASSUME NEW f \in DOMAIN spec, Edit(f) PROVE Mounted'
    <2>1. vault' = vault
      BY <1>4 DEF Edit
    <2>2. \A g \in K.webhook.guarded \cap DOMAIN spec : spec'[g] = spec[g]
      BY <1>4 DEF Edit, ValidateUpdate
    <2>3. ASSUME K.reconciler.loop = "engine", NEW x \in DOMAIN K.payload,
                 CannotBeTuned(x)
          PROVE  spec'[K.payload[x]] = spec[K.payload[x]]
      <3>1. K.payload[x] \in DOMAIN spec
        BY <2>3, TableFacts DEF TypeOK, Mountable
      <3>2. QED
        BY <2>2, <2>3, <3>1 DEF CannotBeTuned
    <2>4. QED
      BY <1>1, <2>1, <2>3 DEF Mounted, CannotBeTuned
  <1>5. ASSUME NEW y, Tamper(y) PROVE Mounted'
    <2>1. /\ vault' = [vault EXCEPT ![GetPath][y] = <<"@other", 1>>]
          /\ K.reconciler.loop = "engine" => y \in DOMAIN K.tune
          /\ spec' = spec
      BY <1>5 DEF Tamper
    <2>2. /\ DOMAIN vault' = DOMAIN vault
          /\ \A a \in DOMAIN vault :
               /\ DOMAIN vault'[a] = DOMAIN vault[a]
               /\ \A x \in DOMAIN vault[a] \ {y} : vault'[a][x] = vault[a][x]
      BY <2>1
    <2>3. K.reconciler.loop = "engine" =>
            \A x \in DOMAIN K.payload : CannotBeTuned(x) => x # y
      BY <2>1 DEF CannotBeTuned
    <2>4. QED
      BY <1>1, <2>1, <2>2, <2>3 DEF Mounted, CannotBeTuned
  <1>6. CASE Resync \/ ChangeInput \/ UserDelete
             \/ (\E s \in SourcesOf(K) : ChangeSource(s)) \/ UNCHANGED vars
    <2>1. spec' = spec /\ vault' = vault
      BY <1>6 DEF Resync, ChangeInput, UserDelete, ChangeSource, vars
    <2>2. QED
      BY <1>1, <2>1 DEF Mounted, CannotBeTuned
  <1>7. QED
    BY <1>2, <1>3, <1>4, <1>5, <1>6 DEF Next

-----------------------------------------------------------------------------
(* What a cycle leaves in Vault.  A value that is intended is not nothing, *)
(* and one of the keys that are sent carries it.                           *)
LEMMA FieldValue ==
  ASSUME TypeOK, CredentialsFound, NEW f \in SpecFields(K),
         f \notin Unreflected, spec[f] # 0 \/ Value(f)[1] # f
  PROVE  Value(f)[2] # 0
  <1>1. /\ f \notin Inputs /\ f # "-"
        /\ K.credentials.field # "-" => K.credentials.input \in Inputs
        /\ K.credentials.without \in {"blank", "fails", "spec", "unused"}
        /\ Identified(kind, K)
    BY TableFacts DEF TypeOK, Entry
  <1>2. ~NotRetrieved(f)
    <2>1. SUFFICES ASSUME NotRetrieved(f) PROVE FALSE
      OBVIOUS
    <2>2. f = K.credentials.field /\ source \in {"none", "blank"} /\ ~Selected
      BY <1>1, <2>1 DEF NotRetrieved, Inputs
    <2>3. source = "blank"
      BY <1>1, <2>2 DEF Selected, CredentialsFound, Identified
    <2>4. K.credentials.without = "blank"
      BY <2>3, TableFacts DEF TypeOK, SourcesOf, Entry, Sources
    <2>5. f \in Unreflected
      BY <1>1, <2>2, <2>3, <2>4 DEF Unreflected, Identified
    <2>6. QED
      BY <2>5
  <1>3. CASE FromSource(f)
    <2>1. K.credentials.input \in Inputs
      BY <1>1, <1>3 DEF FromSource
    <2>2. inputs[K.credentials.input] \in 1..2
      BY <2>1 DEF TypeOK
    <2>3. Value(f) = <<K.credentials.input, inputs[K.credentials.input]>>
      BY <1>1, <1>2, <1>3 DEF Value
    <2>4. QED
      BY <2>2, <2>3
  <1>4. CASE ~FromSource(f)
    <2>1. Value(f) = <<f, spec[f]>>
      BY <1>1, <1>2, <1>4 DEF Value
    <2>2. QED
      BY <2>1
  <1>5. QED
    BY <1>3, <1>4

LEMMA PasswordValue ==
  ASSUME TypeOK, source \notin {"none", "blank", "selector"}
  PROVE  Value("@password")[2] # 0 /\ K.credentials.sources \cap Sources # {}
  <1>1. Value("@password") = <<"@password", inputs["@password"]>>
    BY DEF Value, NotRetrieved, Inputs
  <1>2. inputs["@password"] \in 1..2
    BY DEF TypeOK, Inputs
  <1>3. source \in K.credentials.sources \cap Sources
    BY TableFacts DEF TypeOK, SourcesOf, Entry
  <1>4. QED
    BY <1>1, <1>2, <1>3

LEMMA IntendedIsCarried ==
  ASSUME TypeOK, CredentialsFound, NEW f \in Intended
  PROVE  \E x \in DOMAIN K.payload : Carries(kind, K, x, f) /\ ~LeftOut(x)
  <1>1. Complete(kind, K)
    BY TableFacts DEF TypeOK
  <1>2. CASE /\ f \in SpecFields(K) \ (K.path \cup Unreflected)
             /\ spec[f] # 0 \/ Value(f)[1] # f
    <2>1. f \notin NeverSent(kind) /\ Value(f)[2] # 0
      BY <1>2, FieldValue DEF Unreflected
    <2>2. PICK x \in DOMAIN K.payload : Carries(kind, K, x, f)
      BY <1>1, <1>2, <2>1 DEF Complete
    <2>3. ASSUME LeftOut(x) PROVE FALSE
      <3>1. x \in K.optional /\ K.payload[x] = f
        BY <2>2, <2>3 DEF LeftOut, Carries
      <3>2. K.switch # "-"
        BY <2>1, <2>3, <3>1 DEF LeftOut
      <3>3. kind = "Group" /\ K.switch = "type" /\ f \in GroupMembers
        BY <2>2, <3>1, <3>2 DEF Carries
      <3>4. spec["type"] = 1
        BY <1>2, <3>3 DEF Unreflected
      <3>5. QED
        BY <2>3, <3>2, <3>3, <3>4 DEF LeftOut
    <2>4. QED
      BY <2>2, <2>3
  <1>3. CASE /\ f = "@password" /\ source \notin {"none", "blank", "selector"}
             /\ kind \notin PasswordNotCompared
    <2>1. Value(f)[2] # 0 /\ K.credentials.sources \cap Sources # {}
      BY <1>3, PasswordValue
    <2>2. PICK x \in DOMAIN K.payload : Carries(kind, K, x, f)
      BY <1>1, <1>3, <2>1 DEF Complete
    <2>3. ASSUME LeftOut(x) PROVE FALSE
      <3>1. x \in K.optional /\ K.payload[x] = f
        BY <2>2, <2>3 DEF LeftOut, Carries
      <3>2. K.switch # "-"
        BY <2>1, <2>3, <3>1 DEF LeftOut
      <3>3. QED
        BY <1>3, <2>2, <3>1, <3>2 DEF Carries, GroupMembers
    <2>4. QED
      BY <2>2, <2>3
  <1>4. QED
    BY <1>2, <1>3 DEF Intended, TypeOK

(* An entry shows the values that the spec and the source intend. *)
Shows(entry) ==
    \A f \in Intended : \E x \in DOMAIN entry : entry[x] = Value(f)

LEMMA PayloadShows ==
  ASSUME TypeOK, CredentialsFound
  PROVE  Shows(GetPayload)
  <1> SUFFICES ASSUME NEW f \in Intended
               PROVE  \E x \in DOMAIN GetPayload : GetPayload[x] = Value(f)
    BY DEF Shows
  <1>1. PICK x \in DOMAIN K.payload : Carries(kind, K, x, f) /\ ~LeftOut(x)
    BY IntendedIsCarried
  <1>2. x \in DOMAIN GetPayload /\ GetPayload[x] = Value(f)
    BY <1>1 DEF GetPayload, Carries
  <1>3. QED
    BY <1>2

LEMMA OverShows ==
  ASSUME NEW new, NEW old, Shows(new)
  PROVE  Shows(Over(new, old))
  <1> SUFFICES ASSUME NEW f \in Intended
               PROVE  \E x \in DOMAIN Over(new, old) :
                        Over(new, old)[x] = Value(f)
    BY DEF Shows
  <1>1. PICK x \in DOMAIN new : new[x] = Value(f)
    BY DEF Shows
  <1>2. QED
    BY <1>1 DEF Over

(* A comparison succeeds only on an entry that shows them. *)
LEMMA EquivalentShows ==
  ASSUME TypeOK, CredentialsFound, NEW entry,
         IsEquivalentToDesiredState(Without(entry, K.writeOnly))
  PROVE  Shows(entry)
  <1> DEFINE desired == Without(GetPayload, K.hidden)
             answer == Without(entry, K.writeOnly)
  <1>1. desired = answer /\ \A x \in DOMAIN desired : Comparable(x)
    BY DEF IsEquivalentToDesiredState
  <1> SUFFICES ASSUME NEW f \in Intended
               PROVE  \E x \in DOMAIN entry : entry[x] = Value(f)
    BY DEF Shows
  <1>2. PICK x \in DOMAIN K.payload : Carries(kind, K, x, f) /\ ~LeftOut(x)
    BY IntendedIsCarried
  <1>3. ~NeverEqual(K)
    <2>1. ASSUME NEW y \in DOMAIN K.payload \ (K.hidden \cup K.optional)
          PROVE  Comparable(y)
      <3>1. y \in DOMAIN GetPayload \ K.hidden
        BY DEF GetPayload, LeftOut
      <3>2. QED
        BY <1>1, <3>1 DEF Without
    <2>2. QED
      BY <2>1 DEF NeverEqual, Comparable
  <1>4. x \in DOMAIN GetPayload \ K.hidden /\ GetPayload[x] = Value(f)
    BY <1>2, <1>3 DEF Carries, GetPayload
  <1>5. x \in DOMAIN desired /\ desired[x] = Value(f)
    BY <1>4 DEF Without
  <1>6. x \in DOMAIN answer /\ answer[x] = Value(f)
    BY <1>1, <1>5
  <1>7. x \in DOMAIN entry /\ entry[x] = Value(f)
    BY <1>6 DEF Without
  <1>8. QED
    BY <1>7

(* Tuning a mount replaces what can differ from them. *)
LEMMA TunedShows ==
  ASSUME TypeOK, Mounted, CredentialsFound, Found,
         K.reconciler.loop = "engine"
  PROVE  Shows(Over(Tune, vault[GetPath]))
  <1> DEFINE entry == Over(Tune, vault[GetPath])
  <1> SUFFICES ASSUME NEW f \in Intended
               PROVE  \E x \in DOMAIN entry : entry[x] = Value(f)
    BY DEF Shows
  <1>1. PICK x \in DOMAIN K.payload : Carries(kind, K, x, f)
    BY IntendedIsCarried
  <1>2. CASE x \in DOMAIN K.tune
    <2>1. x \in DOMAIN Tune /\ Tune[x] = Value(f)
      BY <1>1, <1>2 DEF Tune, Carries
    <2>2. QED
      BY <2>1 DEF Over
  <1>3. CASE x \notin DOMAIN K.tune
    <2>1. CannotBeTuned(x) /\ K.payload[x] = f
      BY <1>1, <1>3 DEF CannotBeTuned, Carries
    <2>2. x \in DOMAIN vault[GetPath] /\ vault[GetPath][x] = <<f, spec[f]>>
      BY <2>1 DEF Mounted, Found
    <2>3. Value(f) = <<f, spec[f]>>
      <3>1. x \in DOMAIN GetPayload
        BY MountValue
      <3>2. GetPayload[x] = <<f, spec[f]>>
        BY <2>1, MountValue
      <3>3. QED
        BY <2>1, <3>1, <3>2 DEF GetPayload
    <2>4. x \notin DOMAIN Tune
      BY <1>3 DEF Tune
    <2>5. QED
      BY <2>2, <2>3, <2>4 DEF Over
  <1>4. QED
    BY <1>2, <1>3

LEMMA WriteShows ==
  ASSUME TypeOK, Mounted, CredentialsFound, WriteToVault
  PROVE  GetPath \in DOMAIN vault' /\ Shows(vault'[GetPath])
  <1> USE PayloadShows, OverShows
  <1>1. ASSUME NEW entry, Write(entry), Shows(entry)
        PROVE  GetPath \in DOMAIN vault' /\ Shows(vault'[GetPath])
    <2>1. PICK e : Stored(e) /\ e \in {entry, Over(entry, vault[GetPath])}
      BY <1>1 DEF Write
    <2>2. Shows(e)
      BY <1>1, <2>1
    <2>3. QED
      BY <2>1, <2>2, StoredFacts
  <1>2. K.reconciler.loop \in {"resource", "engine", "rabbitmq"}
    BY TableFacts DEF TypeOK, Entry
  <1>3. CASE K.reconciler.loop = "resource"
    <2>1. CreateOrUpdate
      BY <1>3 DEF WriteToVault
    <2>2. CASE /\ Found /\ vault' = vault
               /\ IsEquivalentToDesiredState(Without(vault[GetPath], K.writeOnly))
      BY <2>2, EquivalentShows DEF Found
    <2>3. CASE Write(GetPayload)
      BY <1>1, <2>3
    <2>4. QED
      BY <2>1, <2>2, <2>3 DEF CreateOrUpdate
  <1>4. CASE K.reconciler.loop = "engine"
    <2>1. Write(IF Found THEN Tune ELSE GetPayload)
      BY <1>4 DEF WriteToVault, CreateOrTune
    <2>2. CASE ~Found
      BY <1>1, <2>1, <2>2
    <2>3. CASE Found
      BY <1>4, <2>1, <2>3, TunedShows, StoredFacts DEF Write
    <2>4. QED
      BY <2>2, <2>3
  <1>5. CASE K.reconciler.loop = "rabbitmq"
    <2>1. CreateConnectionAndLease
      BY <1>5 DEF WriteToVault
    <2>2. QED
      BY <1>1, <2>1 DEF CreateConnectionAndLease
  <1>6. QED
    BY <1>2, <1>3, <1>4, <1>5

-----------------------------------------------------------------------------
(* A cycle heals, and what is at rest was healed.                          *)
LEMMA ReflectedKept ==
  ASSUME K' = K, kind' = kind, spec' = spec, source' = source, inputs' = inputs
  PROVE  /\ GetPath' = GetPath /\ Intended' = Intended
         /\ \A f \in Intended : Value(f)' = Value(f)
  <1>1. GetPath' = GetPath
    BY DEF GetPath
  <1>2. ASSUME NEW f PROVE Value(f)' = Value(f)
    BY DEF Value, NotRetrieved, FromSource, Selected
  <1>3. Unreflected' = Unreflected
    BY DEF Unreflected
  <1>4. Intended' = Intended
    BY <1>2, <1>3 DEF Intended
  <1>5. QED
    BY <1>1, <1>2, <1>4

LEMMA StepHeals ==
    TypeOK /\ Mounted /\ [Next]_vars
      => (queued /\ ~queued' /\ object' = "present" => Reflected')
  <1> SUFFICES ASSUME TypeOK, Mounted, [Next]_vars,
                      queued, ~queued', object' = "present"
               PROVE  Reflected'
    OBVIOUS
  <1>1. Cycle /\ Succeed
    BY DEF Next, vars, Cycle, Fail, CleanUp, Resync, UserDelete, ChangeInput,
           Edit, ChangeSource, Tamper
  <1>2. /\ kind' = kind /\ K' = K /\ spec' = spec /\ source' = source
        /\ inputs' = inputs
    BY <1>1, KindKept DEF Cycle
  <1>3. GetPath \in DOMAIN vault' /\ Shows(vault'[GetPath])
    BY <1>1, WriteShows DEF Succeed
  <1>4. QED
    BY <1>2, <1>3, ReflectedKept DEF Reflected, Found, Shows

LEMMA NextSettled ==
    TypeOK /\ Mounted /\ SettledIsReflected /\ [Next]_vars
      => SettledIsReflected'
  <1> SUFFICES ASSUME TypeOK, Mounted, SettledIsReflected, [Next]_vars,
                      object' = "present", ~queued', missed' = {}, ~drifted'
               PROVE  Reflected'
    BY DEF SettledIsReflected
  <1>1. CASE queued
    BY <1>1, StepHeals
  <1>2. CASE ~queued
    <2>1. \/ UNCHANGED <<kind, spec, source, inputs, object, vault, missed,
                         drifted>>
          \/ ChangeInput /\ missed' # {}
          \/ \E x \in DOMAIN K.payload \cup DOMAIN K.lease :
               Tamper(x) /\ drifted'
      BY <1>2 DEF Next, vars, Cycle, CleanUp, Resync, UserDelete, Edit,
                  ChangeSource, Tamper, ChangeInput
    <2>2. UNCHANGED <<kind, spec, source, inputs, object, vault, missed, drifted>>
      BY <2>1
    <2>3. Reflected
      BY <1>2, <2>2 DEF SettledIsReflected
    <2>4. QED
      BY <2>2, <2>3, KindKept, ReflectedKept DEF Reflected, Found
  <1>3. QED
    BY <1>1, <1>2 DEF TypeOK

-----------------------------------------------------------------------------
(* Together.                                                               *)
LifecycleInv ==
    TypeOK /\ Addressed /\ Mounted /\ SettledIsReflected

LEMMA InitLifecycle == Init => LifecycleInv
  <1> SUFFICES ASSUME Init PROVE LifecycleInv
    OBVIOUS
  <1>1. TypeOK
    BY InitTyped
  <1>2. DOMAIN vault = {}
    BY DEF Init
  <1>3. Addressed /\ Mounted
    BY <1>2 DEF Init, Addressed, Mounted
  <1>4. SettledIsReflected
    BY DEF Init, SettledIsReflected
  <1>5. QED
    BY <1>1, <1>3, <1>4 DEF LifecycleInv

(* In every reachable state of a kind that is well formed: types, one      *)
(* address, mounts as created, and Vault as the spec says when nothing is  *)
(* left to do.                                                             *)
THEOREM LifecycleInvariant == Spec => []LifecycleInv
  <1>1. LifecycleInv /\ [Next]_vars => LifecycleInv'
    BY NextTyped, NextAddressed, NextMounted, NextSettled DEF LifecycleInv
  <1>2. QED
    BY InitLifecycle, <1>1, PTL DEF Spec

(* The variables have their types, only deletable kinds get a finalizer,   *)
(* and Vault's objects have the kind's keys only.                          *)
THEOREM LifecycleTyped == Spec => []TypeOK
  <1>1. LifecycleInv => TypeOK
    BY DEF LifecycleInv
  <1>2. QED
    BY LifecycleInvariant, <1>1, PTL

(* A resource at rest has every value of its spec and its source in Vault, *)
(* but for the exceptions of KindTables, in whatever order it was edited,  *)
(* unless an event was missed or somebody else wrote: toMap,               *)
(* IsEquivalentToDesiredState and the webhooks.                            *)
THEOREM SettledIsReflectedHolds == Spec => []SettledIsReflected
  <1>1. LifecycleInv => SettledIsReflected
    BY DEF LifecycleInv
  <1>2. QED
    BY LifecycleInvariant, <1>1, PTL

(* A kind with a fixed address never has a second object, and nothing is   *)
(* left at the last address after a deletion: ValidateUpdate and cleanup.  *)
THEOREM NothingIsElsewhere == Spec => []NothingElsewhere
  <1>1. LifecycleInv => NothingElsewhere
    BY AddressedSuffices DEF LifecycleInv
  <1>2. QED
    BY LifecycleInvariant, <1>1, PTL

(* Every cycle that reports success leaves the whole spec and the source's *)
(* password in Vault, whatever was missed or changed by others before.     *)
THEOREM CyclesHeal == Spec => EveryCycleHeals
  <1>1. LifecycleInv /\ [Next]_vars
          => [queued /\ ~queued' /\ object' = "present" => Reflected']_vars
    BY StepHeals DEF LifecycleInv
  <1>2. QED
    BY LifecycleInvariant, <1>1, PTL DEF Spec, EveryCycleHeals
=============================================================================
