----------------------- MODULE VaultClientCacheProofs -----------------------
(***************************************************************************)
(* Proofs about VaultClientCache, for every set of workers, every set of   *)
(* authentications and connections, every setting and every bound.         *)
(* OwnIdentity and NotEndedBefore are not inductive: a worker gets what    *)
(* another one stored, and checks what it looked up some steps earlier.    *)
(* CacheInv adds what the cache holds, and what a worker may have read;    *)
(* both are about keys, and what a key tells of a client is a lemma.       *)
(***************************************************************************)
EXTENDS VaultClientCache, SequenceTheorems, TLAPS

(* What is stored under a key was logged in with that key. *)
Keyed ==
    \A k \in Keys : cache[k] # NoClient => getCacheKey(cache[k][1]) = k

(* From the lookup or the login on a worker has a client of its own key;   *)
(* one whose token had ended does not become valid again.                  *)
Held(w) ==
    /\ pc[w] \in {"check", "put", "use"} =>
          /\ client[w] \in Clients
          /\ getCacheKey(client[w][1]) = getCacheKey(auth[w])
    /\ pc[w] \in {"put", "use"} => ~ended[w]
    /\ pc[w] = "check" /\ ended[w] => client[w] \notin valid

CacheInv == TypeOK /\ Keyed /\ \A w \in Workers : Held(w)

-----------------------------------------------------------------------------
(* The empty client is no client. *)
LEMMA NoClientIsNone == NoClient \notin Clients
  BY DEF NoClient, Clients

(* The length of two joined sequences, and their elements. *)
LEMMA Joined ==
  ASSUME NEW p \in Seq(STRING), NEW q \in Seq(STRING)
  PROVE  /\ p \o q \in Seq(STRING) /\ Len(p \o q) = Len(p) + Len(q)
         /\ Len(p) \in Nat /\ Len(q) \in Nat
         /\ \A i \in 1..Len(p) : (p \o q)[i] = p[i]
         /\ \A i \in 1..Len(q) : (p \o q)[Len(p) + i] = q[i]
  OBVIOUS

LEMMA SplitLength ==
  ASSUME NEW p \in Split
  PROVE  p \in Seq(STRING) /\ Len(p) \in Nat \ {0}
  BY DEF Split

LEMMA AllOne ==
  ASSUME NEW l \in Nat \ {0}, NEW m \in Nat \ {0}, NEW n \in Nat \ {0},
         2 + l + m + n = 5
  PROVE  l = 1 /\ m = 1 /\ n = 1
  OBVIOUS

(* A key begins with namespace and service account; it has at least one    *)
(* segment of each other field, and if it is one, in its place.            *)
LEMMA KeySegments ==
  ASSUME NEW a \in Auth
  PROVE  /\ Len(getCacheKey(a)) = 2 + Len(a.path) + Len(a.role) + Len(a.namespace)
         /\ getCacheKey(a)[1] = a.kubeNamespace
         /\ getCacheKey(a)[2] = a.serviceAccount
         /\ Len(a.path) = 1 /\ Len(a.role) = 1 /\ Len(a.namespace) = 1
              => /\ getCacheKey(a)[3] = a.path[1]
                 /\ getCacheKey(a)[4] = a.role[1]
                 /\ getCacheKey(a)[5] = a.namespace[1]
  <1> DEFINE h == <<a.kubeNamespace, a.serviceAccount>>
  <1>1. /\ a.kubeNamespace \in STRING /\ a.serviceAccount \in STRING
        /\ a.path \in Split /\ a.role \in Split /\ a.namespace \in Split
    BY DEF Auth
  <1>2. /\ h \in Seq(STRING) /\ Len(h) = 2
        /\ h[1] = a.kubeNamespace /\ h[2] = a.serviceAccount
    BY <1>1
  <1>3. PICK g \in Seq(STRING), p \in Seq(STRING), q \in Seq(STRING), r \in Seq(STRING) :
             g = h /\ p = a.path /\ q = a.role /\ r = a.namespace
    BY <1>1, <1>2, SplitLength
  <1>4. getCacheKey(a) = g \o p \o q \o r
    BY <1>3 DEF getCacheKey
  <1>5. /\ Len(g) = 2 /\ Len(p) \in Nat \ {0} /\ Len(q) \in Nat \ {0}
        /\ Len(r) \in Nat \ {0}
    BY <1>1, <1>2, <1>3, SplitLength
  <1>6. g \o p \in Seq(STRING) /\ Len(g \o p) = Len(g) + Len(p)
    BY Joined
  <1>7. /\ (g \o p)[1] = g[1] /\ (g \o p)[2] = g[2]
        /\ (g \o p)[Len(g) + 1] = p[1]
    <2>1. 1 \in 1..Len(g) /\ 2 \in 1..Len(g) /\ 1 \in 1..Len(p)
      BY <1>5
    <2>2. (g \o p)[1] = g[1]
      BY <2>1, Joined
    <2>3. (g \o p)[2] = g[2]
      BY <2>1, Joined
    <2>4. (g \o p)[Len(g) + 1] = p[1]
      BY <2>1, Joined
    <2>5. QED
      BY <2>2, <2>3, <2>4
  <1>8. /\ (g \o p) \o q \in Seq(STRING)
        /\ Len((g \o p) \o q) = Len(g \o p) + Len(q)
    BY <1>6, Joined
  <1>9. /\ ((g \o p) \o q)[1] = (g \o p)[1]
        /\ ((g \o p) \o q)[2] = (g \o p)[2]
        /\ ((g \o p) \o q)[3] = (g \o p)[3]
    BY <1>5, <1>6, Joined
  <1>10. Len(p) = 1 => ((g \o p) \o q)[4] = q[1]
    BY <1>5, <1>6, Joined
  <1>11. Len(((g \o p) \o q) \o r) = Len((g \o p) \o q) + Len(r)
    BY <1>8, Joined
  <1>12. /\ (((g \o p) \o q) \o r)[1] = ((g \o p) \o q)[1]
         /\ (((g \o p) \o q) \o r)[2] = ((g \o p) \o q)[2]
         /\ (((g \o p) \o q) \o r)[3] = ((g \o p) \o q)[3]
         /\ (((g \o p) \o q) \o r)[4] = ((g \o p) \o q)[4]
    BY <1>5, <1>6, <1>8, Joined
  <1>13. Len(p) = 1 /\ Len(q) = 1 => (((g \o p) \o q) \o r)[5] = r[1]
    BY <1>5, <1>6, <1>8, Joined
  <1>14. Len(getCacheKey(a)) = 2 + Len(p) + Len(q) + Len(r)
    BY <1>4, <1>5, <1>6, <1>8, <1>11
  <1>15. getCacheKey(a)[1] = g[1] /\ getCacheKey(a)[2] = g[2]
    BY <1>4, <1>7, <1>9, <1>12
  <1>16. Len(p) = 1 /\ Len(q) = 1
           => /\ getCacheKey(a)[3] = p[1] /\ getCacheKey(a)[4] = q[1]
              /\ getCacheKey(a)[5] = r[1]
    <2>1. ASSUME Len(p) = 1, Len(q) = 1 PROVE getCacheKey(a)[3] = p[1]
      <3>1. getCacheKey(a)[3] = (g \o p)[3]
        BY <1>4, <1>9, <1>12
      <3>2. Len(g) + 1 = 3
        BY <1>5
      <3>3. QED
        BY <1>7, <3>1, <3>2
    <2>2. ASSUME Len(p) = 1, Len(q) = 1 PROVE getCacheKey(a)[4] = q[1]
      BY <1>4, <1>10, <1>12, <2>2
    <2>3. ASSUME Len(p) = 1, Len(q) = 1 PROVE getCacheKey(a)[5] = r[1]
      BY <1>4, <1>13, <2>3
    <2>4. QED
      BY <2>1, <2>2, <2>3
  <1> HIDE DEF h
  <1>17. QED
    BY <1>2, <1>3, <1>14, <1>15, <1>16

(* Sequences of one element. *)
LEMMA Single ==
  ASSUME NEW p \in Seq(STRING), NEW q \in Seq(STRING),
         Len(p) = 1, Len(q) = 1, p[1] = q[1]
  PROVE  p = q
  BY SeqEqual

(* What equal keys say of the client's login and of the worker's own.  If  *)
(* the own fields are single segments, the other's cannot be more.         *)
LEMMA KeyTells ==
  ASSUME NEW own \in Auths, NEW used \in Auths,
         getCacheKey(used) = getCacheKey(own)
  PROVE  /\ used.kubeNamespace = own.kubeNamespace
         /\ used.serviceAccount = own.serviceAccount
         /\ NoColon(own) => Identity(used) = Identity(own)
         /\ NoColon(own) /\ OneServer(own) => used = own
  <1>1. own \in Auth /\ used \in Auth
    BY CacheConstants
  <1>2. /\ used.kubeNamespace = own.kubeNamespace
        /\ used.serviceAccount = own.serviceAccount
    BY <1>1, KeySegments
  <1>3. ASSUME NoColon(own) PROVE Identity(used) = Identity(own)
    <2>1. Len(own.path) = 1 /\ Len(own.role) = 1 /\ Len(own.namespace) = 1
      BY <1>3 DEF NoColon
    <2>2. /\ own.path \in Split /\ own.role \in Split /\ own.namespace \in Split
          /\ used.path \in Split /\ used.role \in Split /\ used.namespace \in Split
      BY <1>1 DEF Auth
    <2>3. /\ Len(used.path) \in Nat \ {0} /\ Len(used.role) \in Nat \ {0}
          /\ Len(used.namespace) \in Nat \ {0}
      BY <2>2, SplitLength
    <2>4. Len(getCacheKey(own)) = 5
      <3>1. Len(getCacheKey(own))
              = 2 + Len(own.path) + Len(own.role) + Len(own.namespace)
        BY <1>1, KeySegments
      <3>2. QED
        BY <2>1, <3>1
    <2>5. 2 + Len(used.path) + Len(used.role) + Len(used.namespace) = 5
      BY <1>1, <2>4, KeySegments
    <2>6. Len(used.path) = 1 /\ Len(used.role) = 1 /\ Len(used.namespace) = 1
      BY <2>3, <2>5, AllOne
    <2>7. /\ getCacheKey(own)[3] = own.path[1]
          /\ getCacheKey(own)[4] = own.role[1]
          /\ getCacheKey(own)[5] = own.namespace[1]
      BY <1>1, <2>1, KeySegments
    <2>8. /\ getCacheKey(used)[3] = used.path[1]
          /\ getCacheKey(used)[4] = used.role[1]
          /\ getCacheKey(used)[5] = used.namespace[1]
      BY <1>1, <2>6, KeySegments
    <2>9. /\ used.path = own.path /\ used.role = own.role
          /\ used.namespace = own.namespace
      BY <2>1, <2>2, <2>6, <2>7, <2>8, SplitLength, Single
    <2>10. QED
      BY <1>2, <2>9 DEF Identity
  <1>4. ASSUME NoColon(own), OneServer(own) PROVE used = own
    <2>1. Identity(used) = Identity(own) /\ used.connection = own.connection
      BY <1>3, <1>4 DEF OneServer
    <2>2. QED
      BY <1>1, <2>1 DEF Auth, Identity
  <1>5. QED
    BY <1>2, <1>3, <1>4

(* A login makes a client that nobody holds. *)
LEMMA NewClientIsNew ==
  ASSUME NEW a \in Auths, Free(a) # {}
  PROVE  /\ NewClient(a) \in Clients /\ NewClient(a)[1] = a
         /\ NewClient(a) \notin InUse
  <1>1. PICK n \in Free(a) : NewClient(a) = <<a, n>>
    BY DEF NewClient
  <1>2. n \in 1..MaxClients /\ <<a, n>> \notin InUse
    BY DEF Free
  <1>3. QED
    BY <1>1, <1>2 DEF Clients

(* What a worker holds is in use. *)
LEMMA HeldIsInUse ==
  ASSUME TypeOK, NEW w \in Workers
  PROVE  client[w] \in InUse
  BY DEF TypeOK, InUse, Range

-----------------------------------------------------------------------------
(* The initial states satisfy the invariant. *)
LEMMA CacheInit == Init => CacheInv
  <1>1. SUFFICES ASSUME Init PROVE CacheInv
    OBVIOUS
  <1>2. TypeOK
    BY <1>1, CacheConstants DEF Init, TypeOK
  <1>3. Keyed
    BY <1>1 DEF Init, Keyed
  <1>4. \A w \in Workers : Held(w)
    BY <1>1 DEF Init, Held
  <1>5. QED
    BY <1>2, <1>3, <1>4 DEF CacheInv

(* A worker's step does not touch what the others hold. *)
LEMMA OthersKept ==
  ASSUME CacheInv, NEW w \in Workers, NEW v \in Workers, v # w,
         pc'[v] = pc[v], auth'[v] = auth[v], client'[v] = client[v],
         ended'[v] = ended[v], client[v] \notin valid => client[v] \notin valid'
  PROVE  Held(v)'
  BY DEF CacheInv, Held

(* The lookup in the cache: what is found has the worker's key. *)
LEMMA GetStep ==
  ASSUME CacheInv, NEW w \in Workers, Get(w)
  PROVE  CacheInv'
  <1> DEFINE c == cache[getCacheKey(auth[w])]
  <1>1. /\ pc[w] = "get" /\ UNCHANGED <<setting, valid, watched, cache, faults>>
        /\ Goto(w, IF c = NoClient THEN "login" ELSE "check", c)
    BY DEF Get
  <1>2. auth[w] \in Auths /\ getCacheKey(auth[w]) \in Keys
    BY DEF CacheInv, TypeOK, Keys
  <1>3. c \in {NoClient} \union Clients
    BY <1>2 DEF CacheInv, TypeOK
  <1>4. TypeOK'
    BY <1>1, <1>3 DEF CacheInv, TypeOK, Goto
  <1>5. Keyed'
    BY <1>1 DEF CacheInv, Keyed
  <1>6. Held(w)'
    <2>1. CASE c = NoClient
      BY <1>1, <2>1 DEF CacheInv, TypeOK, Goto, Held
    <2>2. CASE c # NoClient
      <3>1. c \in Clients /\ c[1] \in Auths
        BY <1>3, <2>2 DEF Clients
      <3>2. getCacheKey(c[1]) = getCacheKey(auth[w])
        BY <1>2, <2>2 DEF CacheInv, Keyed
      <3>4. /\ pc'[w] = "check" /\ client'[w] = c /\ auth' = auth
            /\ ended'[w] = (c # NoClient /\ c \notin valid')
        BY <1>1, <2>2 DEF CacheInv, TypeOK, Goto
      <3>5. QED
        BY <3>1, <3>2, <3>4 DEF Held
    <2>3. QED
      BY <2>1, <2>2
  <1>7. ASSUME NEW v \in Workers, v # w PROVE Held(v)'
    BY <1>1, <1>7, OthersKept DEF CacheInv, TypeOK, Goto
  <1>8. QED
    BY <1>4, <1>5, <1>6, <1>7 DEF CacheInv

(* The login: the new client is nobody else's, so no ended one revives. *)
LEMMA LoginStep ==
  ASSUME CacheInv, NEW w \in Workers, Login(w)
  PROVE  CacheInv'
  <1> DEFINE c == NewClient(auth[w])
  <1>1. pc[w] = "login" /\ UNCHANGED <<setting, cache>> /\ auth[w] \in Auths
    BY DEF Login, CacheInv, TypeOK
  <1>2. Keyed'
    BY <1>1 DEF CacheInv, Keyed
  <1>3. CASE /\ Free(auth[w]) # {} /\ NoFault
             /\ valid' = valid \union {c}
             /\ watched' = IF setting = "true" THEN watched \union {c} ELSE watched
             /\ Goto(w, IF setting = "false" THEN "use" ELSE "put", c)
    <2>1. c \in Clients /\ c[1] = auth[w] /\ c \notin InUse
      BY <1>1, <1>3, NewClientIsNew
    <2>2. TypeOK'
      BY <1>1, <1>3, <2>1 DEF CacheInv, TypeOK, Goto, NoFault
    <2>3. /\ pc'[w] \in {"put", "use"} /\ client'[w] = c /\ auth' = auth
          /\ ~ended'[w]
      BY <1>3 DEF CacheInv, TypeOK, Goto
    <2>4. Held(w)'
      BY <2>1, <2>3 DEF Held
    <2>5. ASSUME NEW v \in Workers, v # w PROVE Held(v)'
      <3>1. client[v] # c
        BY <2>1, HeldIsInUse DEF CacheInv
      <3>2. client[v] \notin valid => client[v] \notin valid'
        BY <1>3, <3>1
      <3>3. QED
        BY <1>3, <2>5, <3>2, OthersKept DEF CacheInv, TypeOK, Goto
    <2>6. QED
      BY <1>2, <2>2, <2>4, <2>5 DEF CacheInv
  <1>4. CASE Fault /\ Goto(w, "idle", NoClient) /\ UNCHANGED <<valid, watched>>
    <2>1. TypeOK'
      BY <1>1, <1>4, CacheConstants DEF CacheInv, TypeOK, Goto, Fault
    <2>2. Held(w)'
      BY <1>4 DEF CacheInv, TypeOK, Goto, Held
    <2>3. ASSUME NEW v \in Workers, v # w PROVE Held(v)'
      BY <1>4, <2>3, OthersKept DEF CacheInv, TypeOK, Goto
    <2>4. QED
      BY <1>2, <2>1, <2>2, <2>3 DEF CacheInv
  <1>5. QED
    BY <1>3, <1>4 DEF Login

(* The store: a client goes where its authentication's key says. *)
LEMMA PutStep ==
  ASSUME CacheInv, NEW w \in Workers, Put(w)
  PROVE  CacheInv'
  <1>1. /\ pc[w] = "put" /\ pc' = [pc EXCEPT ![w] = "use"]
        /\ UNCHANGED <<setting, valid, watched, faults, auth, client, ended>>
        /\ cache' = [cache EXCEPT ![getCacheKey(auth[w])] = client[w]]
    BY DEF Put, Keep
  <1>2. /\ auth[w] \in Auths /\ getCacheKey(auth[w]) \in Keys
        /\ client[w] \in Clients /\ ~ended[w]
        /\ getCacheKey(client[w][1]) = getCacheKey(auth[w])
    BY <1>1 DEF CacheInv, TypeOK, Keys, Held
  <1>3. TypeOK'
    BY <1>1, <1>2 DEF CacheInv, TypeOK
  <1>4. Keyed'
    BY <1>1, <1>2 DEF CacheInv, TypeOK, Keyed
  <1>5. Held(w)'
    BY <1>1, <1>2 DEF CacheInv, TypeOK, Held
  <1>6. ASSUME NEW v \in Workers, v # w PROVE Held(v)'
    BY <1>1, <1>6, OthersKept DEF CacheInv, TypeOK
  <1>7. QED
    BY <1>3, <1>4, <1>5, <1>6 DEF CacheInv

(* The lookup of the token: only one that has not ended passes. *)
LEMMA CheckStep ==
  ASSUME CacheInv, NEW w \in Workers, Check(w)
  PROVE  CacheInv'
  <1>1. pc[w] = "check" /\ UNCHANGED <<setting, valid, watched, cache>>
    BY DEF Check
  <1>2. Keyed'
    BY <1>1 DEF CacheInv, Keyed
  <1>3. CASE client[w] \in valid /\ NoFault /\ Keep(w, "use")
    <2>1. TypeOK'
      BY <1>1, <1>3 DEF CacheInv, TypeOK, Keep, NoFault
    <2>2. /\ client[w] \in Clients /\ ~ended[w]
          /\ getCacheKey(client[w][1]) = getCacheKey(auth[w])
      BY <1>1, <1>3 DEF CacheInv, Held, TypeOK
    <2>3. Held(w)'
      BY <1>3, <2>2 DEF CacheInv, TypeOK, Keep, Held
    <2>4. ASSUME NEW v \in Workers, v # w PROVE Held(v)'
      BY <1>1, <1>3, <2>4, OthersKept DEF CacheInv, TypeOK, Keep
    <2>5. QED
      BY <1>2, <2>1, <2>3, <2>4 DEF CacheInv
  <1>4. CASE ((client[w] \notin valid /\ NoFault) \/ Fault) /\ Goto(w, "login", NoClient)
    <2>1. TypeOK'
      BY <1>1, <1>4, CacheConstants DEF CacheInv, TypeOK, Goto, NoFault, Fault
    <2>2. Held(w)'
      BY <1>4 DEF CacheInv, TypeOK, Goto, Held
    <2>3. ASSUME NEW v \in Workers, v # w PROVE Held(v)'
      BY <1>1, <1>4, <2>3, OthersKept DEF CacheInv, TypeOK, Goto
    <2>4. QED
      BY <1>2, <2>1, <2>2, <2>3 DEF CacheInv
  <1>5. QED
    BY <1>3, <1>4 DEF Check

(* The start and the end of a cycle. *)
LEMMA AskFinishStep ==
  ASSUME CacheInv, NEW w \in Workers, Ask(w) \/ Finish(w)
  PROVE  CacheInv'
  <1>1. UNCHANGED <<setting, valid, watched, cache, faults>>
    BY DEF Ask, Finish
  <1>2. Keyed'
    BY <1>1 DEF CacheInv, Keyed
  <1>3. TypeOK'
    BY <1>1 DEF CacheInv, TypeOK, Ask, Finish, Goto
  <1>4. Held(w)'
    BY DEF CacheInv, TypeOK, Held, Ask, Finish, Goto
  <1>5. ASSUME NEW v \in Workers, v # w PROVE Held(v)'
    BY <1>1, <1>5, OthersKept DEF CacheInv, TypeOK, Ask, Finish, Goto
  <1>6. QED
    BY <1>2, <1>3, <1>4, <1>5 DEF CacheInv

(* The end of a token, and of a watcher, which only empties an entry. *)
LEMMA ClientStep ==
  ASSUME CacheInv, NEW c \in Clients, Expire(c) \/ Ended(c) \/ GivenUp(c)
  PROVE  CacheInv'
  <1>1. /\ UNCHANGED <<setting, worker>> /\ valid' \subseteq valid
        /\ watched' \subseteq watched /\ faults' \in 0..MaxFaults
        /\ \/ cache' = cache
           \/ cache' = [cache EXCEPT ![getCacheKey(c[1])] = NoClient]
    BY CacheConstants
    DEF CacheInv, TypeOK, Expire, Ended, GivenUp, Unwatch, Fault, NoFault
  <1>2. TypeOK'
    BY <1>1 DEF CacheInv, TypeOK, worker
  <1>3. Keyed'
    BY <1>1 DEF CacheInv, TypeOK, Keyed
  <1>4. \A w \in Workers : Held(w)'
    BY <1>1 DEF CacheInv, Held, worker
  <1>5. QED
    BY <1>2, <1>3, <1>4 DEF CacheInv

(* Every step keeps the invariant. *)
LEMMA CacheNext == CacheInv /\ [Next]_vars => CacheInv'
  <1>1. SUFFICES ASSUME CacheInv, [Next]_vars PROVE CacheInv'
    OBVIOUS
  <1>2. ASSUME NEW w \in Workers, Cycle(w) PROVE CacheInv'
    BY <1>1, <1>2, GetStep, LoginStep, PutStep, CheckStep, AskFinishStep
    DEF Cycle
  <1>3. ASSUME NEW c \in Clients, Expire(c) \/ Ended(c) \/ GivenUp(c)
        PROVE  CacheInv'
    BY <1>1, <1>3, ClientStep
  <1>4. CASE UNCHANGED vars
    BY <1>1, <1>4 DEF CacheInv, TypeOK, Keyed, Held, vars, worker
  <1>5. QED
    BY <1>1, <1>2, <1>3, <1>4 DEF Next

-----------------------------------------------------------------------------
(* The inductive invariant holds in every reachable state. *)
THEOREM CacheInvariant == Spec => []CacheInv
  <1>1. QED
    BY CacheInit, CacheNext, PTL DEF Spec

(* The types of the cache, its workers and its clients. *)
THEOREM CacheTyped == Spec => []TypeOK
  <1>1. CacheInv => TypeOK
    BY DEF CacheInv
  <1>2. QED
    BY <1>1, CacheInvariant, PTL

(* However lookups, logins, stores and watchers of the controllers         *)
(* interleave (GetVaultClient, startLifetimeWatcher), no worker works with *)
(* the client of another service account; nor of another role, path or     *)
(* Vault namespace, where its own hold no colon; nor of another server,    *)
(* where also all resources of its identity name one server.               *)
THEOREM ClientIsOwn == Spec => []OwnIdentity
  <1>1. ASSUME CacheInv PROVE OwnIdentity
    <2>1. SUFFICES ASSUME NEW w \in Workers, pc[w] = "use"
                   PROVE  LET own == auth[w]
                              used == client[w][1]
                          IN  /\ used.kubeNamespace = own.kubeNamespace
                              /\ used.serviceAccount = own.serviceAccount
                              /\ NoColon(own) => Identity(used) = Identity(own)
                              /\ NoColon(own) /\ OneServer(own) => used = own
      BY DEF OwnIdentity
    <2>2. /\ auth[w] \in Auths /\ client[w][1] \in Auths
          /\ getCacheKey(client[w][1]) = getCacheKey(auth[w])
      BY <1>1, <2>1 DEF CacheInv, TypeOK, Held, Clients
    <2>3. QED
      BY <2>2, KeyTells
  <1>2. QED
    BY <1>1, CacheInvariant, PTL

(* No worker ever works with a client whose token had ended when the       *)
(* worker looked the client up.                                            *)
THEOREM ClientIsAlive == Spec => []NotEndedBefore
  <1>1. CacheInv => NotEndedBefore
    BY DEF CacheInv, Held, NotEndedBefore
  <1>2. QED
    BY <1>1, CacheInvariant, PTL
=============================================================================
