---------------------------- MODULE MCFollowerLink ----------------------------
(***************************************************************************)
(* Two transports after or beside each other.  A unit of time is a little  *)
(* more than the 0.5 s that commands, the watchdog and the freshness limit *)
(* share: within a unit everything is in time, in the next one nothing is  *)
(* that was sent before it, and only the deadline of a stop goes on.       *)
(***************************************************************************)
EXTENDS FollowerLink

MCSymmetry == Permutations(Epochs)

\* Bound: never are the buffers of both transports full.
OneFull == \A e, f \in Epochs :
    e # f => Len(up[e]) + Len(up[f]) < 2 * SendCapacity
===============================================================================
