------------------------- MODULE MCVaultClientCache -------------------------
(* Instances of VaultClientCache for TLC: resources of a service account.  *)
EXTENDS VaultClientCache

LoginOf(path, role, connection) ==
    [kubeNamespace |-> "apps", serviceAccount |-> "default", path |-> path,
     role |-> role, namespace |-> <<"">>, connection |-> connection]

(* One whose key is its own, and two on different servers with one key.    *)
SomeAuths ==
    {LoginOf(<<"k8s">>, <<"reader">>, "vault1"),
     LoginOf(<<"k8s">>, <<"dev", "reader">>, "vault1"),
     LoginOf(<<"k8s", "dev">>, <<"reader">>, "vault2")}
=============================================================================
