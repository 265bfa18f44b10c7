------------------------- MODULE MCDatabaseRotation -------------------------
(* Instances of DatabaseRotation for TLC: no rotation, a single one, one   *)
(* every two ticks; four of the sixteen settings, in which each of the     *)
(* branches is taken.                                                      *)
EXTENDS DatabaseRotation

SomeRotations ==
    {[enable |-> FALSE, period |-> 0], [enable |-> TRUE, period |-> 0],
     [enable |-> TRUE, period |-> 2]}

DB(verify, specific, named, watched) ==
    [verify |-> verify, specific |-> specific, named |-> named, watched |-> watched]

SomeSettings ==
    {DB(TRUE, FALSE, TRUE, TRUE), DB(TRUE, FALSE, FALSE, FALSE),
     DB(FALSE, FALSE, FALSE, TRUE), DB(TRUE, TRUE, FALSE, TRUE)}
=============================================================================
