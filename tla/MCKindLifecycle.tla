--------------------------- MODULE MCKindLifecycle ---------------------------
(* Instances of KindLifecycle for TLC: every kind of the tables.           *)
EXTENDS KindLifecycle

AllKinds == DOMAIN KindTable
=============================================================================
