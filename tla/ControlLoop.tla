----------------------------- MODULE ControlLoop -----------------------------
(***************************************************************************)
(* The parts that a control loop feeds or asks, one instance of each: the  *)
(* standstill policy, the leader's mailbox, the calibration traversal, the *)
(* log of an episode's control records, the followers' twin and the        *)
(* observer.  They share no state.  The leader, the traversal and the log  *)
(* have a clock, which is the one here.                                    *)
(***************************************************************************)
EXTENDS Standstill, FiniteSets

CONSTANTS
    \* LeaderSource
    LeaderCapacity, LeaderFresh, LeaderWindow, LeaderSpan, HealthEvery, HealthFresh,
    LeaderTime, LeaderBus,
    \* CalibrationTraversal
    Poses, Dwell, Settle, Lag, ImageQueue, TraversalTime,
    \* ControlLog
    MaxGap, CommandEvery, Hande, Stale, FeedbackQueue, LogTime, MaxTaken,
    \* CommandTwins, Observer
    MaxCommands, ObserverQueue, Phases, MaxRecords

VARIABLES
    now, mailbox, reader, consumer, intent, acquired, written,
    loop, traversal, checkpoint, feedback, camera, selected, results,
    devices, supervised, session, target, sequences, log, validator, verdict,
    commands, group, pending, twin,
    queue, pipe, worker, owner, side

Leader == INSTANCE LeaderSource WITH
    Capacity <- LeaderCapacity, Fresh <- LeaderFresh, Window <- LeaderWindow, Span <- LeaderSpan,
    MaxNow <- LeaderTime, MaxBus <- LeaderBus
Traversal == INSTANCE CalibrationTraversal WITH QueueSize <- ImageQueue, MaxNow <- TraversalTime
Records == INSTANCE ControlLog WITH
    QueueCapacity <- FeedbackQueue, MaxNow <- LogTime,
    reader <- devices, feedback <- supervised
Twins == INSTANCE CommandTwins
Observation == INSTANCE Observer WITH Capacity <- ObserverQueue

-----------------------------------------------------------------------------
(* None is no number, no sample and no image.  The times that are settings  *)
(* of the code are natural numbers, and a route has a pose.                 *)

LeaderSamples == [n : Int, start : Int, end : Int]
CameraFrames == [receipt : Int, exposure : Int]

ASSUME LoopAssumption ==
    /\ None \notin Int
    /\ None \notin LeaderSamples
    /\ None \notin [sample : LeaderSamples, at : Int, fault : BOOLEAN]
    /\ None \notin CameraFrames
    /\ None \notin [frame : CameraFrames, actual : [received : Int, stationary : BOOLEAN]]
    /\ LeaderCapacity \in Nat /\ LeaderFresh \in Nat /\ HealthEvery \in Nat
    /\ Poses \in Nat \ {0} /\ Dwell \in Nat /\ Settle \in Nat /\ Lag \in Nat

-----------------------------------------------------------------------------
(* The modules' properties, under the names they have there.                *)

EvidenceWhole == Leader!EvidenceWhole
IntentsLive == Leader!IntentsLive
EvidenceOfPose == Traversal!EvidenceOfPose
LogTruthful == Records!LogTruthful
ConsumersExact == Twins!TwinFollows /\ Observation!ObserverAccounts
=============================================================================
