------------------------------ MODULE PKIEngine ------------------------------
(***************************************************************************)
(* A PKISecretEngineConfig on the mount of EngineMount.  Each cycle does   *)
(* what the status does not yet record: generate a CA (or a CSR) in Vault  *)
(* and export it to a K8s Secret, have it signed and set the certificate;  *)
(* then it writes the configuration.  There is no finalizer and no         *)
(* cleanup.  What Vault generated goes with the mount.                     *)
(***************************************************************************)
EXTENDS EngineMount

CONSTANTS Variants,   \* the specs that users create
          MaxCa       \* bound: the CAs from this number on are not told apart

(* type, privateKeyType = exported, internalSign or externalSignSecret *)
Variant(type, export, sign) == [type |-> type, export |-> export, sign |-> sign]

(* The default is a root whose key is not exported. *)
AllVariants ==
    {Variant("root", e, "none") : e \in BOOLEAN}
      \union {Variant("intermediate", e, s) : e \in BOOLEAN, s \in {"internal", "external"}}

ASSUME PKIConstants ==
    /\ Variants \subseteq AllVariants
    /\ MaxCa \in Nat \ {0}

VARIABLES
    spec,           \* the variant, the same if the resource is created again
    api,            \* the resource in the API server
    cache,          \* the informer's copy
    cacheCurrent,   \* is it the stored version?
    queued, pc,
    inst,           \* the worker's copy
    instCurrent,    \* is it the stored version?
    issue,
    csr,            \* cSR, kept in the worker's copy only
    export,         \* the K8s Secret of the resource's name
    certificate,    \* CSR whose certificate is in externalSignSecret
    cas,            \* what was generated in the mount
    lastCa,         \* number of CAs and CSRs generated so far
    signed,         \* CSR whose certificate is set in the mount
    crl             \* generation that config/crl is of

pki == <<cas, lastCa, signed, crl>>
kube == <<spec, api>>
informer == <<cache, cacheCurrent>>
worker == <<pc, inst, instCurrent, issue, csr>>
secrets == <<export, certificate>>
vars == <<mVars, pki, kube, informer, queued, worker, secrets>>

NoConfig == [uid |-> 0, gen |-> 0, success |-> 0, generated |-> FALSE,
             exported |-> FALSE, signed |-> FALSE]

NoExport == [uid |-> 0, ca |-> 0]

Init ==
    /\ MInit
    /\ spec \in Variants
    /\ api = NoConfig /\ cache = NoConfig /\ cacheCurrent = TRUE
    /\ queued = FALSE
    /\ pc = "idle" /\ inst = NoConfig /\ instCurrent = FALSE
    /\ issue = FALSE /\ csr = 0
    /\ export = NoExport /\ certificate = 0
    /\ cas = {} /\ lastCa = 0 /\ signed = 0 /\ crl = 0

-----------------------------------------------------------------------------
(* Users.                                                                  *)
StoreByOther(obj) ==
    /\ api' = obj /\ cacheCurrent' = FALSE /\ instCurrent' = FALSE
    /\ UNCHANGED <<engine, mApi, mQueued, mCleaned, mWorker, drifts, faults,
                   pki, cache, queued, pc, inst, issue, csr>>

UserCreate ==
    /\ api.uid = 0 /\ Bump
    /\ StoreByOther([NoConfig EXCEPT !.uid = lastGen + 1, !.gen = lastGen + 1])
    /\ UNCHANGED <<spec, secrets>>

UserEdit ==
    /\ api.uid # 0 /\ Bump
    /\ StoreByOther([api EXCEPT !.gen = lastGen + 1])
    /\ UNCHANGED <<spec, secrets>>

(* The exported CSR is signed elsewhere; externalSignSecret is set. *)
SignExternally ==
    /\ api.uid # 0 /\ spec.sign = "external" /\ export.ca # 0 /\ Bump
    /\ certificate' = export.ca
    /\ StoreByOther([api EXCEPT !.gen = lastGen + 1])
    /\ UNCHANGED <<spec, export>>

(* Nothing waits for the operator. *)
UserDelete ==
    /\ api.uid # 0 /\ StoreByOther(NoConfig)
    /\ UNCHANGED <<spec, lastGen, secrets>>

(* The exported Secret is owned by the resource. *)
CollectExport ==
    /\ export.uid # 0 /\ export.uid # api.uid /\ export' = NoExport
    /\ UNCHANGED <<mVars, pki, kube, informer, queued, worker, certificate>>

(* What the mount holds goes with it. *)
ThatOfMount ==
    IF mount' = mount THEN UNCHANGED pki
    ELSE cas' = {} /\ signed' = 0 /\ crl' = 0 /\ UNCHANGED lastCa

MountStep ==
    /\ MUser \/ MStep \/ Drift
    /\ ThatOfMount
    /\ UNCHANGED <<kube, informer, queued, worker, secrets>>

-----------------------------------------------------------------------------
(* The reconcile cycle.                                                    *)
Watch ==
    /\ ~cacheCurrent
    /\ cache' = api /\ cacheCurrent' = TRUE
    /\ queued' = (queued \/ cache.gen # api.gen)
    /\ UNCHANGED <<mVars, pki, kube, worker, secrets>>

Goto(next) == pc' = next /\ UNCHANGED <<inst, instCurrent, issue, csr, queued>>

Fail ==
    /\ pc' = "status" /\ issue' = TRUE
    /\ UNCHANGED <<inst, instCurrent, csr, queued>>

(* Broken: an error is reported and not retried. *)
DoneNoRetry(err) ==
    /\ pc' = "idle" /\ inst' = NoConfig /\ instCurrent' = FALSE
    /\ issue' = FALSE /\ csr' = 0 /\ queued' = queued

(* After an error the queue hands the resource out again. *)
Done(err) ==
    /\ pc' = "idle" /\ inst' = NoConfig /\ instCurrent' = FALSE
    /\ issue' = FALSE /\ csr' = 0 /\ queued' = (queued \/ err)

(* A root is signed as it is. *)
NeedsSigning(obj) == spec.type = "intermediate" /\ ~obj.signed

AfterGeneration(obj) == IF NeedsSigning(obj) THEN "sign" ELSE "urls"

Take ==
    /\ pc = "idle" /\ queued /\ queued' = FALSE
    /\ IF cache.uid = 0 THEN UNCHANGED worker
       ELSE /\ inst' = cache /\ instCurrent' = cacheCurrent
            /\ pc' = IF cache.generated THEN AfterGeneration(cache)
                     ELSE "generate"
            /\ UNCHANGED <<issue, csr>>
    /\ UNCHANGED <<mVars, pki, kube, informer, secrets>>

NextCa == IF lastCa < MaxCa THEN lastCa + 1 ELSE MaxCa

(* Vault generates a CA with each call. *)
Generate ==
    /\ pc = "generate"
    /\ \/ /\ mount # 0
          /\ lastCa' = NextCa /\ cas' = cas \union {NextCa}
          /\ UNCHANGED <<signed, crl>>
          /\ \/ /\ NoFault /\ pc' = "export"
                /\ inst' = [inst EXCEPT !.generated = TRUE]
                /\ UNCHANGED <<instCurrent, issue, csr, queued>>
             \/ Fault /\ Fail
       \/ UNCHANGED pki /\ Fail /\ (Fault \/ (mount = 0 /\ NoFault))
    /\ UNCHANGED <<mount, tuned, lastMount, mKube, mWorker, drifts,
                   kube, informer, secrets>>

(* Broken: a Secret that is there already is as good as a new one. *)
ExportToAny ==
    /\ pc = "export" /\ NoFault
    /\ export' = IF export.uid = 0 THEN [uid |-> inst.uid, ca |-> lastCa]
                 ELSE export
    /\ csr' = IF spec.type = "intermediate" THEN lastCa ELSE csr
    /\ inst' = [inst EXCEPT !.exported = spec.export]
    /\ pc' = AfterGeneration(inst)
    /\ UNCHANGED <<mount, tuned, lastMount, mKube, mWorker, drifts, pki,
                   kube, informer, certificate, instCurrent, issue, queued>>

(* CreateExported: with an exported key the reply goes to a new Secret;    *)
(* one that is there already is an error.  An intermediate's CSR is kept   *)
(* for this cycle.                                                         *)
Export ==
    /\ pc = "export"
    /\ \/ /\ ~spec.export \/ export.uid = 0
          /\ export' = IF spec.export THEN [uid |-> inst.uid, ca |-> lastCa]
                       ELSE export
          /\ \/ /\ NoFault
                /\ csr' = IF spec.type = "intermediate" THEN lastCa ELSE csr
                /\ inst' = [inst EXCEPT !.exported = spec.export]
                /\ pc' = AfterGeneration(inst)
                /\ UNCHANGED <<instCurrent, issue, queued>>
             \/ spec.export /\ Fault /\ Fail
       \/ /\ spec.export /\ Fail /\ UNCHANGED export
          /\ Fault \/ (export.uid # 0 /\ NoFault)
    /\ UNCHANGED <<mount, tuned, lastMount, mKube, mWorker, drifts, pki,
                   kube, informer, certificate>>

(* Broken: the answer to the signature is not waited for. *)
SignUnchecked ==
    /\ pc = "sign" /\ pc' = "urls" /\ NoFault
    /\ inst' = [inst EXCEPT !.signed = TRUE]
    /\ UNCHANGED <<instCurrent, issue, csr, queued>>
    /\ UNCHANGED <<mount, tuned, lastMount, mKube, mWorker, drifts, pki,
                   kube, informer, secrets>>

(* SetIntermediate, first half: the CSR of this cycle, or the one in the   *)
(* exported Secret, is signed by another PKI engine; or the certificate is *)
(* in the externalSignSecret.                                              *)
Sign ==
    /\ pc = "sign"
    /\ LET request == IF spec.sign = "external" THEN certificate
                      ELSE IF csr # 0 THEN csr ELSE export.ca
       IN  \/ /\ request # 0 /\ csr' = request /\ pc' = "setSigned" /\ NoFault
              /\ UNCHANGED <<inst, instCurrent, issue, queued>>
           \/ Fail /\ (Fault \/ (request = 0 /\ NoFault))
    /\ UNCHANGED <<mount, tuned, lastMount, mKube, mWorker, drifts, pki,
                   kube, informer, secrets>>

(* Second half: Vault takes the certificate of a key that it has. *)
SetSigned ==
    /\ pc = "setSigned"
    /\ \/ /\ csr \in cas /\ signed' = csr
          /\ UNCHANGED <<cas, lastCa, crl>>
          /\ \/ /\ NoFault /\ pc' = "urls"
                /\ inst' = [inst EXCEPT !.signed = TRUE]
                /\ UNCHANGED <<instCurrent, issue, csr, queued>>
             \/ Fault /\ Fail
       \/ UNCHANGED pki /\ Fail /\ (Fault \/ (csr \notin cas /\ NoFault))
    /\ UNCHANGED <<mount, tuned, lastMount, mKube, mWorker, drifts,
                   kube, informer, secrets>>

(* CreateOrUpdateConfig: what is read is compared with the payload of the  *)
(* generation, from which it always differs, and config/crl is written:    *)
(* with the URLs' payload first, with the CRL's after it.                  *)
WriteConfig(gen, next) ==
    \/ /\ mount # 0 /\ crl' = gen /\ UNCHANGED <<cas, lastCa, signed>>
       /\ (NoFault /\ Goto(next)) \/ (Fault /\ Fail)
    \/ UNCHANGED pki /\ Fail /\ (Fault \/ (mount = 0 /\ NoFault))

(* What config/crl then holds is neither payload: taken for no generation. *)
WriteUrls ==
    /\ pc = "urls" /\ WriteConfig(0, "crl")
    /\ UNCHANGED <<mount, tuned, lastMount, mKube, mWorker, drifts,
                   kube, informer, secrets>>

WriteCrl ==
    /\ pc = "crl" /\ WriteConfig(inst.gen, "status")
    /\ UNCHANGED <<mount, tuned, lastMount, mKube, mWorker, drifts,
                   kube, informer, secrets>>

Outcome == [inst EXCEPT !.success = IF issue THEN @ ELSE inst.gen]

(* Broken: the status is written whatever was stored in the meantime. *)
StatusOverwrites ==
    /\ pc = "status"
    /\ IF api.uid = inst.uid
       THEN /\ api' = [Outcome EXCEPT !.gen = api.gen] /\ cacheCurrent' = FALSE
            /\ UNCHANGED <<spec, cache>>
       ELSE UNCHANGED <<kube, informer>>
    /\ NoFault /\ Done(issue)
    /\ UNCHANGED <<mount, tuned, lastMount, mKube, mWorker, drifts, pki, secrets>>

(* ManageOutcome: what was done is recorded, also after an error. *)
Status ==
    /\ pc = "status"
    /\ \/ /\ instCurrent /\ api' = Outcome /\ cacheCurrent' = FALSE
          /\ UNCHANGED <<spec, cache>>
          /\ (NoFault /\ Done(issue)) \/ (Fault /\ Done(TRUE))
       \/ /\ (~instCurrent /\ NoFault) \/ Fault
          /\ UNCHANGED <<kube, informer>> /\ Done(TRUE)
    /\ UNCHANGED <<mount, tuned, lastMount, mKube, mWorker, drifts, pki, secrets>>

Crash ==
    /\ Fault /\ MRestart
    /\ cache' = NoConfig /\ cacheCurrent' = (api.uid = 0)
    /\ pc' = "idle" /\ inst' = NoConfig /\ instCurrent' = FALSE
    /\ issue' = FALSE /\ csr' = 0 /\ queued' = FALSE
    /\ UNCHANGED <<pki, kube, secrets>>

Step ==
    \/ Take \/ Generate \/ Export \/ Sign \/ SetSigned
    \/ WriteUrls \/ WriteCrl \/ Status

Next ==
    \/ UserCreate \/ UserEdit \/ SignExternally \/ UserDelete \/ CollectExport
    \/ MountStep
    \/ Watch \/ Step
    \/ Crash

Spec == Init /\ [][Next]_vars

FairSpec ==
    /\ Spec
    /\ WF_vars(CollectExport) /\ WF_vars(Watch) /\ WF_vars(Step)
    /\ WF_vars(MStep /\ ThatOfMount /\ UNCHANGED <<kube, informer, queued, worker, secrets>>)

-----------------------------------------------------------------------------
(* status.exported promises that the K8s Secret of that name holds a key   *)
(* generated for this resource, not one left by an earlier resource of its *)
(* name.  (It need not be the newest: after an error, a cycle that starts  *)
(* from a copy without the record generates another CA, whose key is lost, *)
(* as its Secret is there already.)                                        *)
ExportedIsOwn == api.exported => export.uid = api.uid

(* Recorded progress is never lost: a stale copy, a retry or a second      *)
(* cycle does not make the operator generate or sign again.                *)
ProgressKept ==
    [][api'.uid = api.uid
         => \A f \in {"generated", "exported", "signed"} :
              api[f] => api'[f]]_vars

(* A resource reports success only when the mount has a CA and, for an     *)
(* intermediate, a certificate of one of its keys, until the mount is      *)
(* replaced.  Deletions of the resource, a key of an earlier resource and  *)
(* certificates signed elsewhere do not change that.                       *)
SuccessIsSetUp ==
    api.success # 0 /\ lastMount = 1 /\ mount = 1
      => cas # {} /\ (spec.type = "intermediate" => signed \in cas)

(* Nothing is to be signed any more, or the request for the certificate of *)
(* an intermediate, or the certificate, can be found.                      *)
Signable ==
    \/ spec.type = "root" \/ api.signed
    \/ spec.sign = "external" /\ certificate \in cas
    \/ spec.sign = "internal" /\ export.ca # 0

(* The resources may be created in any order: once there is a mount to     *)
(* stay, a PKI configuration gets set up, however its cycles failed; an    *)
(* intermediate if it is signed, or its request is still there: one with   *)
(* an internal key that has no certificate may never get one.              *)
EventuallySetUp ==
    <>[](api.uid # 0 /\ mount = 1 /\ Signable
           => api.success = api.gen /\ crl = api.gen)
=============================================================================
