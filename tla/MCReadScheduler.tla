---------------------------- MODULE MCReadScheduler ----------------------------
(* Six requests on three lanes, two of which may run while two requests     *)
(* wait: f1, f2, f3 and s1, s2 can fill the queue from two lanes, t1 finds  *)
(* both places taken, and s2 carries the id of f1.                          *)
EXTENDS ReadScheduler

CONSTANTS f1, f2, f3, s1, s2, t1

MCRequests == {f1, f2, f3, s1, s2, t1}
MCLaneOf == [r \in MCRequests |->
    CASE r \in {f1, f2, f3} -> "one" [] r \in {s1, s2} -> "two" [] r = t1 -> "three"]
MCIdOf == [r \in MCRequests |-> IF r = s2 THEN f1 ELSE r]
=============================================================================
