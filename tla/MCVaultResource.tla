-------------------------- MODULE MCVaultResource --------------------------
(* An instance of VaultResource for TLC: one resource and its Vault path.  *)
EXTENDS VaultResource

CONSTANTS o1, p1

OnePath == [o \in Objects |-> p1]
=============================================================================
