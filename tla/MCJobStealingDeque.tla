------------------------- MODULE MCJobStealingDeque -------------------------
(***************************************************************************)
(* An instance of JobStealingDeque for TLC.  The initial capacity is 1, as *)
(* in a debug build, so that pushes resize the array under the thieves.    *)
(***************************************************************************)
EXTENDS JobStealingDeque

CONSTANTS j1, j2, j3, owner, thief1, thief2, none, garbage

MCJobs == {j1, j2, j3}
MCThieves == {thief1, thief2}
=============================================================================
