----------------------------- MODULE MCStudioServer -----------------------------
(* Small instances of StudioServer.  Two requests share a lane, one may run *)
(* and one may wait; the apply shares the id of r2, so that queueing,       *)
(* cancelling, refusals and the clash of ids meet the shutdown and the end  *)
(* of the input.  Lanes of their own are ReadScheduler's business.          *)
EXTENDS StudioServer

CONSTANTS r1, r2, a1

MCRequests == {r1, r2}
MCApplies == {a1}
MCLaneOf == [r \in MCRequests |-> "lane"]
MCIdOf == [r \in MCRequests \cup MCApplies |-> IF r = a1 THEN r2 ELSE r]
=============================================================================
