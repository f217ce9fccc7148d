-------------------------- MODULE SimulatorSession --------------------------
(***************************************************************************)
(* control/session.py with its lifecycle: one loop reads keys, drives the  *)
(* native HOME program or the SDK controller of the simulated arm, moves   *)
(* and releases a powered leader and talks to the recorder through two     *)
(* queues.  A failure anywhere is latched: Session.fail revokes all of it. *)
(*                                                                         *)
(* A key or a step of the loop is one action, whatever it calls; any call  *)
(* may raise, after what the calls before it did.  The recorder process    *)
(* and the controller of the arm take steps in between.  Deadlines and     *)
(* the measured settling of arm and leader are choices.                    *)
(***************************************************************************)
EXTENDS Integers, Sequences

CONSTANTS
    QueueSize,   \* CAPACITY of the two recorder queues
    PlayDelay,   \* may the controller acknowledge play before it runs it?
    MaxEpisodes  \* bound: episodes

VARIABLES
    lifecycle,   \* Lifecycle.state and discard
    arm,         \* owner of the station, its program, and the arm itself
    leader,      \* Coordinator.phase, Motion.state, torque
    recorder,    \* queues, abort, and the state of the recorder process
    outcomes     \* outcome.json of every completed episode

vars == <<lifecycle, arm, leader, recorder, outcomes>>

Init ==
    /\ lifecycle = [state |-> "needs_home", discard |-> FALSE]
    /\ \E pose \in {"away", "ready"} :
         arm = [owner |-> "none", program |-> "none", seen |-> FALSE, settled |-> FALSE,
                native |-> "stopped", unconfirmed |-> FALSE, pose |-> pose]
    /\ leader = [phase |-> "idle", motion |-> "idle", torque |-> FALSE]
    /\ recorder = [state |-> "idle", commands |-> <<>>, replies |-> <<>>, abort |-> FALSE]
    /\ outcomes = <<>>

State(s) == lifecycle.state = s
Alive == lifecycle.state \notin {"fault", "closed"}

-----------------------------------------------------------------------------
(* leader/motion.py: what a call on a leader l can leave behind.            *)

Broken(l) == [l EXCEPT !.motion = "fault"]

\* Motion.hold: goals before torque.  A failure after the torque write
\* leaves the motors on.
Holds(l) ==
    IF l.motion \in {"fault", "closed"} THEN {}
    ELSE {[l EXCEPT !.motion = "holding", !.torque = TRUE]}
HoldFails(l) ==
    {Broken(l)} \cup
    (IF l.motion = "fault" THEN {} ELSE {[Broken(l) EXCEPT !.torque = TRUE]})

\* Motion.step: the readback settles, does not yet, or is stale, reset, late
\* or shows a lost hold.
Steps(l) ==
    CASE l.motion \in {"holding", "homing"} -> {l, [l EXCEPT !.motion = "held"]}
      [] l.motion \in {"held", "idle", "leading"} -> {l}
      [] OTHER -> {}

Phase(l, phase) == [l EXCEPT !.phase = phase]

\* Coordinator.home_ready after a step: a settled hold starts the HOME move.
GoesHome(l) == IF l.phase = "prepare_home" /\ l.motion = "held"
               THEN [l EXCEPT !.phase = "homing", !.motion = "homing"] ELSE l
AtHome(before, after) == before.phase = "homing" /\ after.motion = "held"

\* The phases in which Session.fail asks for a hold.
MayHold(l) == l.phase \in {"leading", "prepare_home", "homing"}

LeaderAfterFault(l) ==
    IF MayHold(l) THEN {Phase(h, "holding") : h \in Holds(l)} \cup HoldFails(l) ELSE {l}

-----------------------------------------------------------------------------
(* control/program.py: the native program on the controller.                *)

Free(a) == [a EXCEPT !.owner = "none", !.program = "none", !.seen = FALSE, !.settled = FALSE]

\* NativeHome.stop: acknowledged, or given up.
NativeStops(a) == {[a EXCEPT !.native = "stopped"], [a EXCEPT !.unconfirmed = TRUE]}

\* NativeHome.close cancels a program that has not finished, and raises
\* when the stop is not confirmed: refused, or asked for again by the next
\* close when the command itself failed.  URTransport.close may raise, once.
CloseRaises(a) ==
    (IF a.program = "moving"
     THEN {[a EXCEPT !.program = p, !.unconfirmed = TRUE] : p \in {"moving", "fault"}} ELSE {})
    \cup (IF a.owner = "rtde" /\ a.program # "fault" THEN {[a EXCEPT !.program = "fault"]} ELSE {})

\* Session._release: close of the program, and then the exit of the
\* context that owns the station, which a close that raises leaves open.
Releases(a) ==
    {Free([a EXCEPT !.native = IF a.program = "moving" THEN "stopped" ELSE a.native])}
    \cup CloseRaises(a)

\* A program whose step or start raised has stopped itself and is "fault";
\* it is still to be stopped when the command of its stop failed too.
Faulty(a) ==
    {[b EXCEPT !.program = "fault"] : b \in NativeStops(a)}
    \cup {[a EXCEPT !.unconfirmed = TRUE]}

-----------------------------------------------------------------------------
(* Session.fail, of an arm a and a leader l the failed call has left.       *)

Fail(a, l) ==
    /\ lifecycle' = [lifecycle EXCEPT !.state = "fault"]
    /\ arm' \in Releases(a)
    /\ leader' \in LeaderAfterFault(l)
    /\ recorder' = [recorder EXCEPT !.abort = TRUE]
    /\ UNCHANGED outcomes

Becomes(state) == lifecycle' = [lifecycle EXCEPT !.state = state]

Room(n) == Len(recorder.commands) + n <= QueueSize
Send(messages) == recorder' = [recorder EXCEPT !.commands = @ \o messages]

-----------------------------------------------------------------------------
(* Session.key.  A repeated key within 250 ms, or one with no transition,   *)
(* does nothing.                                                            *)

\* NativeHome.start, after the leader was asked to hold.
StartHome ==
    \/ \E l \in Holds(leader) :
         \/ /\ arm' = [arm EXCEPT !.owner = "home", !.program = "moving",
                                  !.native = IF PlayDelay THEN "pending" ELSE "running"]
            /\ leader' = Phase(l, "prepare_home")
            /\ Becomes("homing")
            /\ UNCHANGED <<recorder, outcomes>>
         \* play failed, and may yet have been executed.
         \/ \E a \in Faulty([arm EXCEPT !.owner = "home", !.program = "moving",
                                        !.native = "running"]) :
              Fail(a, Phase(l, "prepare_home"))
         \* The lease or a check before play failed.
         \/ Fail(arm, Phase(l, "prepare_home"))
    \/ \E l \in HoldFails(leader) : Fail(arm, l)

KeyHome ==
    /\ State("needs_home") \/ State("held")
    /\ Len(outcomes) < MaxEpisodes
    /\ StartHome

\* Station.motion: identity, no running program, measured standstill.
CanAcquire == arm.owner = "none" /\ arm.native # "running"
ReleasedLeader == [leader EXCEPT !.torque = FALSE, !.motion = "leading", !.phase = "leading"]

KeyPrepare ==
    /\ State("ready") /\ leader.phase = "homing"
    /\ \/ /\ CanAcquire /\ Room(1)
          /\ lifecycle' = [state |-> "preparing", discard |-> FALSE]
          /\ leader' = ReleasedLeader
          /\ arm' = [arm EXCEPT !.owner = "rtde", !.program = "idle"]
          /\ Send(<<"prepare">>)
          /\ UNCHANGED outcomes
       \/ Fail(arm, leader)
       \/ Fail(arm, ReleasedLeader)
       \/ CanAcquire /\ Fail([arm EXCEPT !.owner = "rtde", !.program = "idle"], ReleasedLeader)

\* Mutant of MayStop: a second press while the arm stops is a stop again.
MayStopAgain == lifecycle.state \in {"recording", "stopping"}

MayStop == State("recording")

KeyStop ==
    /\ MayStop
    /\ \/ /\ Room(1)
          /\ \E discard \in BOOLEAN :
                lifecycle' = [state |-> "stopping", discard |-> discard \/ lifecycle.discard]
          /\ arm' = [arm EXCEPT !.program = "stopping"]
          /\ \E l \in Holds(leader) : leader' = Phase(l, "holding")
          /\ Send(<<"stop">>)
          /\ UNCHANGED outcomes
       \/ \E l \in {leader} \cup HoldFails(leader) : Fail(arm, l)

KeyDiscard ==
    /\ State("held") /\ outcomes # <<>>
    /\ lifecycle' = [lifecycle EXCEPT !.discard = TRUE]
    /\ outcomes' = [outcomes EXCEPT ![Len(outcomes)] = "discarded"]
    /\ UNCHANGED <<arm, leader, recorder>>

-----------------------------------------------------------------------------
(* Session.step.                                                            *)

Reply(what) == recorder.replies # <<>> /\ Head(recorder.replies) = what
Taken == [recorder EXCEPT !.replies = <<>>]

\* poll raises when the recorder has failed or ended; so may every later
\* call of the step, and an interrupt.
StepFails == Alive /\ Fail(arm, leader)

Still == arm.native # "running"

\* NativeHome.step: at READY and stopped for 100 ms.
NativeHold(a) ==
    IF a.program = "moving" /\ Still /\ a.pose = "ready" /\ a.settled
    THEN [a EXCEPT !.program = "hold"]
    ELSE [a EXCEPT !.settled = Still /\ a.pose = "ready", !.seen = @ \/ ~Still]

\* A program that has run and stopped elsewhere has failed.
EndedElsewhere == arm.seen /\ Still /\ arm.pose = "away" /\ arm.program = "moving"

StepHoming ==
    /\ State("homing")
    /\ LET a == NativeHold(arm) IN
       \/ /\ ~EndedElsewhere
          /\ \E l \in Steps(leader) :
               IF a.program = "hold" /\ AtHome(leader, l)
               THEN /\ arm' = Free(a) /\ leader' = l /\ Becomes("ready")
                    /\ UNCHANGED <<recorder, outcomes>>
               ELSE /\ arm' = a /\ leader' = GoesHome(l)
                    /\ UNCHANGED <<lifecycle, recorder, outcomes>>
       \/ \E b \in Faulty(arm) : Fail(b, leader)
       \/ Fail(a, Broken(leader))

\* The reply of the recorder starts the episode, and its first command.
StepPreparing ==
    /\ State("preparing") /\ Reply("prepare") /\ Room(2)
    /\ arm' = [arm EXCEPT !.program = "follow", !.pose = "away"]
    /\ recorder' = [Taken EXCEPT !.commands = @ \o <<"begin", "samples">>]
    /\ Becomes("recording")
    /\ UNCHANGED <<leader, outcomes>>

StepRecording ==
    /\ State("recording") /\ Room(1)
    /\ Send(<<"samples">>)
    /\ UNCHANGED <<lifecycle, arm, leader, outcomes>>

Settled(a, l) == a.program = "hold" /\ l.motion = "held"

\* The arm and then the leader come to a measured hold.
StepStopping ==
    /\ State("stopping")
    /\ \E a \in {arm, [arm EXCEPT !.program = "hold"]} :
         \/ \E l \in IF a.program = "hold" THEN Steps(leader) ELSE {leader} :
              IF Settled(a, l)
              THEN /\ Room(1) /\ Send(<<"settled">>)
                   /\ arm' = Free(a) /\ leader' = l /\ Becomes("finalizing")
                   /\ UNCHANGED outcomes
              ELSE arm' = a /\ leader' = l /\ UNCHANGED <<lifecycle, recorder, outcomes>>
         \* The SDK raises as the stopped arm is released.
         \/ \E l \in Steps(leader) : Settled(a, l) /\ Fail([a EXCEPT !.program = "fault"], l)
         \/ Fail(a, Broken(leader))

\* Between motions the arm and the leader are supervised; the report of the
\* recorder completes the episode.
StepStill ==
    /\ State("ready") \/ State("finalizing") \/ State("held")
    /\ \/ /\ leader' \in Steps(leader) \cap {leader}
          /\ IF State("finalizing") /\ Reply("complete")
             THEN /\ outcomes' = Append(outcomes, IF lifecycle.discard THEN "discarded"
                                                  ELSE "retained")
                  /\ recorder' = Taken /\ Becomes("held") /\ UNCHANGED arm
             ELSE UNCHANGED <<lifecycle, arm, recorder, outcomes>>
       \/ Fail(arm, Broken(leader))

\* Session.close, at q, at the end of input, or after a failure or an
\* interrupt: what was under way or has failed is failed first, released
\* again if its release has raised.  The leader keeps its posture.
Close ==
    /\ lifecycle.state # "closed"
    /\ Becomes("closed")
    /\ IF lifecycle.state \in {"needs_home", "ready", "held"}
       THEN /\ arm' = arm
            /\ leader' = [leader EXCEPT !.motion = "closed"]
       ELSE /\ arm' \in Releases(arm)
            /\ \E l \in LeaderAfterFault(leader) : leader' = [l EXCEPT !.motion = "closed"]
    /\ recorder' = [recorder EXCEPT !.abort = TRUE, !.state = "ended"]
    /\ UNCHANGED outcomes

-----------------------------------------------------------------------------
(* The recorder process, and the controller of the arm.                     *)

Recording(state) == recorder.state = state /\ ~recorder.abort
OnlyRecorder == UNCHANGED <<lifecycle, arm, leader, outcomes>>

Transition ==
    [prepare |-> {<<"idle", "preparing">>}, begin |-> {<<"prepared", "recording">>},
     samples |-> {<<"recording", "recording">>}, stop |-> {<<"recording", "stopped">>},
     settled |-> {<<"stopped", "finalizing">>}]

RecorderTakes ==
    /\ recorder.commands # <<>> /\ ~recorder.abort /\ recorder.state # "refused"
    /\ LET next == {t \in Transition[Head(recorder.commands)] : t[1] = recorder.state} IN
       recorder' = [recorder EXCEPT !.commands = Tail(@),
                        !.state = IF next = {} THEN "refused" ELSE (CHOOSE t \in next : TRUE)[2]]
    /\ OnlyRecorder

RecorderReplies ==
    /\ \/ /\ Recording("preparing")
          /\ recorder' = [recorder EXCEPT !.state = "prepared", !.replies = Append(@, "prepare")]
       \/ /\ Recording("finalizing")
          /\ recorder' = [recorder EXCEPT !.state = "idle", !.replies = Append(@, "complete")]
    /\ OnlyRecorder

\* The program starts, after play was acknowledged, and ends on its own.
NativeRuns ==
    /\ \/ arm.native = "pending" /\ arm' = [arm EXCEPT !.native = "running"]
       \/ /\ arm.native = "running"
          /\ \E pose \in {"ready", "away"} : arm' = [arm EXCEPT !.native = "stopped", !.pose = pose]
    /\ UNCHANGED <<lifecycle, leader, recorder, outcomes>>

Next ==
    \/ KeyHome \/ KeyPrepare \/ KeyStop \/ KeyDiscard
    \/ StepFails \/ StepHoming \/ StepPreparing \/ StepRecording \/ StepStopping \/ StepStill
    \/ Close
    \/ RecorderTakes \/ RecorderReplies \/ NativeRuns

Spec == Init /\ [][Next]_vars

-----------------------------------------------------------------------------
(* Properties.                                                              *)

TypeOK ==
    /\ lifecycle.state \in {"needs_home", "homing", "ready", "preparing", "recording",
                            "stopping", "finalizing", "held", "fault", "closed"}
    /\ arm.owner \in {"none", "home", "rtde"} /\ arm.native \in {"stopped", "pending", "running"}
    /\ leader.torque \in BOOLEAN /\ Len(recorder.replies) <= 1
    /\ Len(recorder.commands) <= QueueSize

(* The recorder never meets a message its own state does not allow: through *)
(* two queues and a reply that is late, prepare, begin, samples, stop and   *)
(* settled reach it in an order it accepts, in every episode.               *)
RecorderAccepts == recorder.state # "refused"

(* Nothing moves or falls that the session has let go, whatever fails,     *)
(* and if the release of the arm fails while a failure is handled, too.     *)
(* The leader has torque from its first hold on, except while the arm is    *)
(* prepared for or follows it; a failure or a close anywhere in between, or *)
(* while the leader itself is moved to its HOME, ends that motion and       *)
(* leaves the torque on, or the leader's hold itself has failed.            *)
(* The arm is released only when nothing moves it any more: no native       *)
(* program runs after a completed HOME, a failure or a close, unless the    *)
(* controller did not acknowledge a stop.  After a failure or a close it is *)
(* still owned only because its release has raised: a native program whose  *)
(* stop is unconfirmed, or an SDK connection that was closed and raised.    *)
(* And the session that goes on has released the arm, at READY with a       *)
(* leader that holds its own HOME, or with both measured still after an     *)
(* episode.                                                                 *)
ReleasedStill ==
    /\ lifecycle.state \notin {"needs_home", "preparing", "recording"} /\ leader.phase # "idle" =>
          leader.torque \/ leader.motion \in {"fault", "closed"}
    /\ State("fault") => leader.motion # "homing"
    /\ lifecycle.state \in {"fault", "closed"} =>
          \/ arm.owner = "none"
          \/ arm.owner = "home" /\ arm.unconfirmed
          \/ arm.owner = "rtde" /\ arm.program = "fault"
    /\ arm.owner = "none" => arm.native = "stopped" \/ arm.unconfirmed
    /\ State("ready") => arm.pose = "ready"
    /\ lifecycle.state \in {"ready", "finalizing", "held"} =>
         arm.owner = "none" /\ leader.motion = "held" /\ leader.torque

(* The SDK is acquired only after a measured completion of HOME: the native *)
(* program has ended by then, or its stop was never acknowledged.           *)
OneProgram == arm.owner = "rtde" => arm.native = "stopped" \/ arm.unconfirmed
=============================================================================
