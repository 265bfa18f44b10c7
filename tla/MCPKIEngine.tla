---------------------------- MODULE MCPKIEngine ----------------------------
(* An instance of PKIEngine for TLC: every spec that users may create.     *)
EXTENDS PKIEngine

SomeVariants == AllVariants
=============================================================================
