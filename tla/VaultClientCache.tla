-------------------------- MODULE VaultClientCache --------------------------
(***************************************************************************)
(* The Vault clients of the process.  Each controller's worker asks for    *)
(* one at the start of a cycle.  If CACHE_VAULT_TOKEN is "true" it gets    *)
(* the cached client of its authentication, as long as the client's token  *)
(* is valid; else it logs in, starts a watcher of the token's lifetime and *)
(* caches the new client.  Workers and watchers share the cache with no    *)
(* lock around a lookup, a login and a store.                              *)
(***************************************************************************)
EXTENDS Naturals, Sequences, FiniteSets, Functions

CONSTANTS Workers,      \* the controllers' workers
          Auths,        \* what resources log in with, and where
          Settings,     \* values of CACHE_VAULT_TOKEN looked at
          MaxClients,   \* bound: clients of an authentication at a time
          MaxFaults     \* bound: failed calls, tokens that end

(* A string that may hold colons, split at them.  Names of K8s hold none. *)
Split == Seq(STRING) \ {<<>>}

(* kubeNamespace, spec.authentication and spec.connection of a resource. *)
Auth ==
    [kubeNamespace : STRING, serviceAccount : STRING, path : Split,
     role : Split, namespace : Split, connection : STRING]

ASSUME CacheConstants ==
    /\ Auths \subseteq Auth
    /\ Settings \subseteq {"true", "unset", "false"}
    /\ {MaxClients, MaxFaults} \subseteq Nat

VARIABLES
    setting,    \* CACHE_VAULT_TOKEN, the same all the time
    valid,      \* clients whose token is valid
    watched,    \* clients with a lifetime watcher
    cache,      \* vaultClientCache: client by key
    pc,         \* of each worker
    auth,       \* its resource's authentication and connection
    client,     \* its client
    ended,      \* history: had its token ended when it was looked up?
    faults

worker == <<pc, auth, client, ended>>
vars == <<setting, valid, watched, cache, worker, faults>>

(* A client: what it logged in with, and a number.  One that nobody refers *)
(* to any more is forgotten, and its number used again.                    *)
Clients == Auths \X (1..MaxClients)

NoClient == <<>>

(* Broken: the role is not part of the key. *)
getCacheKeyNoRole(a) ==
    <<a.kubeNamespace, a.serviceAccount>> \o a.path \o a.namespace

(* The fields joined with colons; the connection is not among them. *)
getCacheKey(a) ==
    <<a.kubeNamespace, a.serviceAccount>> \o a.path \o a.role \o a.namespace

Keys == {getCacheKey(a) : a \in Auths}

TypeOK ==
    /\ setting \in Settings
    /\ valid \subseteq Clients /\ watched \subseteq Clients
    /\ cache \in [Keys -> {NoClient} \union Clients]
    /\ pc \in [Workers -> {"idle", "get", "check", "login", "put", "use"}]
    /\ auth \in [Workers -> Auths]
    /\ client \in [Workers -> {NoClient} \union Clients]
    /\ ended \in [Workers -> BOOLEAN]
    /\ faults \in 0..MaxFaults

Init ==
    /\ setting \in Settings
    /\ valid = {} /\ watched = {}
    /\ cache = [k \in Keys |-> NoClient]
    /\ pc = [w \in Workers |-> "idle"]
    /\ auth \in [Workers -> Auths]
    /\ client = [w \in Workers |-> NoClient]
    /\ ended = [w \in Workers |-> FALSE]
    /\ faults = 0

Fault == faults < MaxFaults /\ faults' = faults + 1

NoFault == faults' = faults

Goto(w, next, c) ==
    /\ pc' = [pc EXCEPT ![w] = next] /\ client' = [client EXCEPT ![w] = c]
    /\ ended' = [ended EXCEPT ![w] = c # NoClient /\ c \notin valid']
    /\ UNCHANGED auth

Keep(w, next) ==
    pc' = [pc EXCEPT ![w] = next] /\ UNCHANGED <<auth, client, ended>>

-----------------------------------------------------------------------------
(* prepareContext of the next resource. *)
Ask(w) ==
    /\ pc[w] = "idle"
    /\ pc' = [pc EXCEPT ![w] = IF setting = "true" THEN "get" ELSE "login"]
    /\ \E a \in Auths : auth' = [auth EXCEPT ![w] = a]
    /\ UNCHANGED <<setting, valid, watched, cache, client, ended, faults>>

Get(w) ==
    /\ pc[w] = "get" /\ UNCHANGED <<setting, valid, watched, cache, faults>>
    /\ LET c == cache[getCacheKey(auth[w])]
       IN  Goto(w, IF c = NoClient THEN "login" ELSE "check", c)

(* Broken: a cached client is taken to be a valid one. *)
CheckNot(w) ==
    /\ pc[w] = "check" /\ Keep(w, "use") /\ NoFault
    /\ UNCHANGED <<setting, valid, watched, cache>>

(* LookupSelf. *)
Check(w) ==
    /\ pc[w] = "check" /\ UNCHANGED <<setting, valid, watched, cache>>
    /\ \/ client[w] \in valid /\ NoFault /\ Keep(w, "use")
       \/ /\ (client[w] \notin valid /\ NoFault) \/ Fault
          /\ Goto(w, "login", NoClient)

InUse == watched \union Range(cache) \union Range(client)

Free(a) == {n \in 1..MaxClients : <<a, n>> \notin InUse}

NewClient(a) == <<a, CHOOSE n \in Free(a) : TRUE>>

(* Broken: a login ends the tokens of earlier logins. *)
LoginRevoking(w) ==
    LET c == NewClient(auth[w]) IN
    /\ pc[w] = "login" /\ UNCHANGED <<setting, cache>>
    /\ Free(auth[w]) # {} /\ NoFault
    /\ valid' = {d \in valid : d[1] # auth[w]} \union {c}
    /\ watched' = watched \union {c}
    /\ Goto(w, "put", c)

(* getJWTToken, createVaultClient. *)
Login(w) ==
    /\ pc[w] = "login" /\ UNCHANGED <<setting, cache>>
    /\ \/ LET c == NewClient(auth[w]) IN
          /\ Free(auth[w]) # {} /\ NoFault
          /\ valid' = valid \union {c}
          /\ watched' = IF setting = "true" THEN watched \union {c} ELSE watched
          /\ Goto(w, IF setting = "false" THEN "use" ELSE "put", c)
       \/ Fault /\ Goto(w, "idle", NoClient) /\ UNCHANGED <<valid, watched>>

(* The store replaces a client that another worker has stored meanwhile. *)
Put(w) ==
    /\ pc[w] = "put" /\ Keep(w, "use")
    /\ cache' = [cache EXCEPT ![getCacheKey(auth[w])] = client[w]]
    /\ UNCHANGED <<setting, valid, watched, faults>>

Finish(w) ==
    /\ pc[w] = "use" /\ Goto(w, "idle", NoClient)
    /\ UNCHANGED <<setting, valid, watched, cache, faults>>

(* A token ends at its maximum lifetime, or is revoked. *)
Expire(c) ==
    /\ c \in valid /\ Fault
    /\ valid' = valid \ {c}
    /\ UNCHANGED <<setting, watched, cache, worker>>

(* Broken: the watcher drops the whole cache. *)
UnwatchAll(c) ==
    /\ watched' = watched \ {c} /\ cache' = <<>>
    /\ UNCHANGED <<setting, valid, worker>>

(* DoneCh: the entry of the key goes, whatever client it now is. *)
Unwatch(c) ==
    /\ watched' = watched \ {c}
    /\ cache' = [cache EXCEPT ![getCacheKey(c[1])] = NoClient]
    /\ UNCHANGED <<setting, valid, worker>>

(* The watcher learns that the token has ended. *)
Ended(c) == c \in watched \ valid /\ NoFault /\ Unwatch(c)

(* It gives up before: at the end of the lease, or after failed renewals. *)
GivenUp(c) == c \in watched \intersect valid /\ Fault /\ Unwatch(c)

Cycle(w) ==
    Ask(w) \/ Get(w) \/ Check(w) \/ Login(w) \/ Put(w) \/ Finish(w)

Next ==
    \/ \E w \in Workers : Cycle(w)
    \/ \E c \in Clients : Expire(c) \/ Ended(c) \/ GivenUp(c)

Spec == Init /\ [][Next]_vars

FairSpec ==
    /\ Spec
    /\ \A w \in Workers : WF_vars(Cycle(w))
    /\ \A c \in Clients : WF_vars(Ended(c))

-----------------------------------------------------------------------------
Identity(a) ==
    <<a.kubeNamespace, a.serviceAccount, a.path, a.role, a.namespace>>

NoColon(a) == \A s \in {a.path, a.role, a.namespace} : Len(s) = 1

OneServer(a) ==
    \A b \in Auths : Identity(b) = Identity(a) => b.connection = a.connection

(* Clients are shared between controllers, and keys are not unique: what a *)
(* worker works with was always logged in by its own service account; if   *)
(* path, role and namespace hold no colon, with its own ones; and if also  *)
(* all resources of this identity name one server, on its own server.      *)
OwnIdentity ==
    \A w \in Workers : pc[w] = "use" =>
        LET own == auth[w]
            used == client[w][1]
        IN  /\ used.kubeNamespace = own.kubeNamespace
            /\ used.serviceAccount = own.serviceAccount
            /\ NoColon(own) => Identity(used) = Identity(own)
            /\ NoColon(own) /\ OneServer(own) => used = own

(* A worker never works with a client whose token had ended when it was    *)
(* looked up: late stores and watchers behind time leave some in the cache.*)
NotEndedBefore == \A w \in Workers : pc[w] = "use" => ~ended[w]

(* With the setting "true": when tokens no longer end, whatever stores and *)
(* watchers were still under way, all requests are finally served from the *)
(* cache.                                                                  *)
EventuallyShared ==
    setting = "true" => <>[](\A w \in Workers : pc[w] # "login")
=============================================================================
