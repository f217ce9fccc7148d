----------------------------- MODULE CameraOnly -----------------------------
(***************************************************************************)
(* A collection without a robot, one instance of each of its parts: the    *)
(* rig that reads the cameras, the matcher that groups their frames, and   *)
(* the batch that records episode after episode.  A fault of one is an     *)
(* exception in another; they share no state but the clock.                *)
(***************************************************************************)
EXTENDS RigRings

CONSTANTS
    \* CameraRig
    RigStale, RigDeadline, RigTime, RigFrames,
    \* FrameMatcher
    Anchor, ViewOrder, Skew, MatchWait, MatchCapacity, Quantum, MatchTime, MatchFrames,
    Gaps, Delays, DepthSteps,
    \* ShadowBatch
    Episodes, Feedback

VARIABLES
    clock, stop, worker, headers, status, camera, rig,
    state, buffers, last, used, overflow, out, pushed,
    batch, devices, owner, output

Rig == INSTANCE CameraRig WITH
    Stale <- RigStale, Deadline <- RigDeadline, MaxNow <- RigTime, MaxFrames <- RigFrames,
    now <- clock
Matcher == INSTANCE FrameMatcher WITH
    None <- Nothing, Wait <- MatchWait, Capacity <- MatchCapacity, MaxNow <- MatchTime,
    MaxFrames <- MatchFrames, now <- clock
Shadow == INSTANCE ShadowBatch WITH None <- Nothing

-----------------------------------------------------------------------------
(* The cameras are finitely many, each named once; nothing is no frame.     *)
(* The wrist is none of the other views; the limits of the matcher are what *)
(* MatchConfig admits, the frames what a valid source sends: each is later  *)
(* than the one before.  A batch has an episode, and nothing is no report.  *)

ASSUME CamerasNamed ==
    /\ RoleOrder \in Seq(Roles) /\ RoleOrder # <<>>
    /\ \A i, j \in DOMAIN RoleOrder : RoleOrder[i] = RoleOrder[j] => i = j

MatchedFrames ==
    [role : {Anchor} \cup Matcher!Views, t : Int, receipt : Int, at : Int,
     depth : Int, depthTime : Int]

ASSUME MatcherAssumption ==
    /\ ViewOrder \in Seq(Matcher!Views) /\ Anchor \notin Matcher!Views
    /\ Nothing \notin MatchedFrames
    /\ Skew \in Nat /\ MatchWait \in Nat /\ MatchCapacity \in Nat \ {0}
    /\ \A r \in Matcher!Roles : Gaps[r] \subseteq Nat \ {0} /\ DepthSteps[r] \subseteq Int \X Int
    /\ Delays \subseteq Nat

ASSUME BatchAssumption ==
    /\ Episodes \in Nat \ {0}
    /\ Nothing \notin [state : {"running", "completed", "failed", "interrupted"},
                       listed : Nat, active : Nat \cup {Nothing}]

-----------------------------------------------------------------------------
(* The modules' properties, under the name they have together.              *)

DecisionsExact == Matcher!DecisionsExact
FaultsSurface == Rig!LostCameraSurfaces /\ Shadow!BatchTruthful
=============================================================================
