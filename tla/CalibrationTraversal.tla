------------------------ MODULE CalibrationTraversal ------------------------
(***************************************************************************)
(* calibration/traversal.py with checkpoint.py, rollout.py, the loop of    *)
(* replay.py and the camera worker of camera.py: the arm visits the poses  *)
(* of a route; at each it must stand still, and while it stands, images    *)
(* that a worker process has taken are paired with the readback that       *)
(* preceded them.  Images wait in a queue of two and are examined late.    *)
(*                                                                         *)
(* The motion controller is external here (MotionOwner): on a tick it      *)
(* gives a readback, and at some tick its route ends in a hold.  A         *)
(* readback is its receipt, the controller time, and whether the arm is at *)
(* the target and still.  A frame is its receipt and its exposure; which   *)
(* of two is sharper is a free choice.  An ended run takes no more steps.  *)
(***************************************************************************)
EXTENDS Integers, Sequences

CONSTANTS
    None,
    Poses,       \* the number of poses of the route
    Dwell,       \* DWELL_NS
    Settle,      \* the 100 ms of a checkpoint before the dwell
    Lag,         \* the 50 ms between a readback and an image
    QueueSize,   \* the queue of the camera worker
    MaxNow       \* bound: ticks

VARIABLES
    now,         \* time.monotonic_ns
    loop,        \* drive: what comes next, and when step ran last
    traversal,   \* Traversal.state, index, views; the controller
    checkpoint,  \* Checkpoint.state, settled, start
    feedback,    \* Traversal.feedback
    camera,      \* the worker: the frame in detection, the queue
    selected,    \* Capture.selected
    results      \* Traversal.results: the dwell of each completed pose

vars == <<now, loop, traversal, checkpoint, feedback, camera, selected, results>>

NoCamera == [frame |-> None, last |-> 0, queue |-> <<>>]

NoCheckpoint == [state |-> "none", settled |-> None, start |-> None]

Init ==
    /\ now = 0 /\ loop = [next |-> "step", at |-> 0]
    /\ traversal = [state |-> "moving", index |-> 1, seen |-> FALSE, controller |-> "route"]
    /\ checkpoint = NoCheckpoint /\ feedback = <<>>
    /\ camera = NoCamera
    /\ selected = [p \in 1..Poses |-> None] /\ results = <<>>

Running == traversal.state \in {"moving", "approaching", "capturing"}

\* One pass of the loop takes less than a tick; it may start late by any number.
Tick ==
    /\ now < MaxNow /\ Running /\ loop.next = "step"
    /\ now' = now + 1
    /\ UNCHANGED <<loop, traversal, checkpoint, feedback, camera, selected, results>>

CameraOnly ==
    UNCHANGED <<now, loop, traversal, checkpoint, feedback, selected, results>>

-----------------------------------------------------------------------------
(* The camera worker.  Its global clock places the exposure.                *)

Grab ==
    /\ Running /\ camera.frame = None /\ now > camera.last
    /\ \E exposure \in {now - 1, now} :
         camera' = [camera EXCEPT !.last = now,
                        !.frame = [receipt |-> now, exposure |-> exposure]]
    /\ CameraOnly

\* Detection takes its time; a full queue drops the frame.  One without the
\* board in sight is dropped too, which is the same as none.
Offer ==
    /\ Running /\ camera.frame # None
    /\ camera' = [camera EXCEPT !.frame = None,
                      !.queue = IF Len(@) < QueueSize THEN Append(@, camera.frame) ELSE @]
    /\ CameraOnly

-----------------------------------------------------------------------------
(* Traversal.step.                                                          *)

\* The run is over: the camera worker is closed and what was seen is dropped.
Fails ==
    /\ traversal' = [traversal EXCEPT !.state = "failed", !.controller = "fault", !.seen = FALSE]
    /\ checkpoint' = NoCheckpoint /\ feedback' = <<>> /\ camera' = NoCamera
    /\ selected' = [p \in 1..Poses |-> None] /\ results' = <<>>

Stationary(s) == s.stationary

\* Checkpoint.update of a readback s: the next checkpoint, or a failure.
Moved(s) == checkpoint.state = "capturing" /\ ~Stationary(s)

Updated(s) ==
    LET settled == IF ~Stationary(s) THEN None
                   ELSE IF checkpoint.settled = None THEN now ELSE checkpoint.settled
        capture == checkpoint.state # "capturing" /\ settled # None /\ now - settled >= Settle
    IN  [state |-> IF capture \/ checkpoint.state = "capturing" THEN "capturing" ELSE "approaching",
         settled |-> settled,
         start |-> IF capture THEN now ELSE checkpoint.start]

DwellOver(c) == c.start # None /\ now >= c.start + Dwell
Completed == Len(results) + 1 = Poses

\* What step leaves when the dwell of checkpoint c has ended with its view.
NextPose(c) ==
    /\ results' = Append(results, c.start)
    /\ checkpoint' = NoCheckpoint
    /\ IF Completed
       THEN /\ traversal' = [traversal EXCEPT !.state = "complete", !.index = @ + 1]
            /\ UNCHANGED feedback
       ELSE /\ traversal' = [state |-> "moving", index |-> traversal.index + 1, seen |-> FALSE,
                             controller |-> "route"]
            /\ feedback' = <<>>

\* A readback of the controller.
Readings == [received : {now}, stationary : BOOLEAN]

StepRoute(s) ==
    /\ traversal.controller = "route" /\ ~Stationary(s)
    /\ feedback' = Append(feedback, s)
    /\ UNCHANGED <<traversal, checkpoint, results, camera, selected>>

\* The controller holds; from here on the checkpoint watches the readback.
StepHold(s) ==
    /\ LET c == Updated(s) IN
       \/ /\ ~Moved(s) /\ ~DwellOver(c)
          /\ checkpoint' = c
          /\ traversal' = [traversal EXCEPT !.state = c.state, !.controller = "hold"]
          /\ feedback' = Append(feedback, s) /\ UNCHANGED <<results, camera, selected>>
       \/ /\ ~Moved(s) /\ DwellOver(c) /\ traversal.seen
          /\ NextPose(c) /\ UNCHANGED <<camera, selected>>
       \/ (Moved(s) \/ (DwellOver(c) /\ ~traversal.seen)) /\ Fails

Step ==
    /\ Running /\ loop.next = "step" /\ now > loop.at
    /\ loop' = [next |-> "poll", at |-> now]
    /\ \E s \in Readings : StepRoute(s) \/ StepHold(s)
    /\ UNCHANGED now

\* The controller, a limit or the log raises, or a signal arrives.
Interrupted ==
    /\ Running
    /\ Fails
    /\ UNCHANGED <<now, loop>>

-----------------------------------------------------------------------------
(* Source.poll, then Traversal.image.                                       *)

\* The latest readback that is not newer than the image.
Preceding(receipt) == {i \in DOMAIN feedback : feedback[i].received <= receipt}
Pairs(i, receipt) == i \in Preceding(receipt) /\ \A j \in Preceding(receipt) : j <= i

InWindow(receipt) == receipt \in checkpoint.start..(checkpoint.start + Dwell - 1)

\* Mutant of Exposed: only the receipt of the image is compared.
ExposedAny(frame) == TRUE

Exposed(frame) == frame.exposure >= checkpoint.start

Considered(frame) ==
    /\ traversal.state = "capturing"
    /\ Preceding(frame.receipt) # {} /\ InWindow(frame.receipt)

\* An image whose readback is late or not stationary fails the dwell.
Unsupported(frame, s) == frame.receipt - s.received > Lag \/ ~Stationary(s)

Dequeued == camera' = [camera EXCEPT !.queue = Tail(@)]

\* The first image of the dwell is kept, and then the sharpest.
Keeps(frame, s) ==
    /\ Dequeued
    /\ traversal' = [traversal EXCEPT !.seen = @ \/ Exposed(frame)]
    /\ \E sharper \in IF selected[traversal.index] = None THEN {TRUE} ELSE BOOLEAN :
         selected' = IF Exposed(frame) /\ sharper
                     THEN [selected EXCEPT ![traversal.index] = [frame |-> frame, actual |-> s]]
                     ELSE selected
    /\ UNCHANGED <<checkpoint, feedback, results>>

Image ==
    /\ Running /\ loop.next = "poll" /\ camera.queue # <<>>
    /\ loop' = [loop EXCEPT !.next = "step"]
    /\ LET frame == Head(camera.queue) IN
       \/ /\ ~Considered(frame)
          /\ Dequeued /\ UNCHANGED <<traversal, checkpoint, feedback, selected, results>>
       \/ /\ Considered(frame)
          /\ \E i \in DOMAIN feedback :
               /\ Pairs(i, frame.receipt)
               /\ IF Unsupported(frame, feedback[i]) THEN Fails ELSE Keeps(frame, feedback[i])
    /\ UNCHANGED now

NoImage ==
    /\ Running /\ loop.next = "poll" /\ camera.queue = <<>>
    /\ loop' = [loop EXCEPT !.next = "step"]
    /\ UNCHANGED <<now, traversal, checkpoint, feedback, camera, selected, results>>

Next == Tick \/ Grab \/ Offer \/ Step \/ Interrupted \/ Image \/ NoImage

Spec == Init /\ [][Next]_vars

-----------------------------------------------------------------------------
(* Properties.                                                              *)

TypeOK ==
    /\ now \in 0..MaxNow /\ Len(camera.queue) <= QueueSize
    /\ traversal.state \in {"moving", "approaching", "capturing", "complete", "failed"}
    /\ traversal.index \in 1..(Poses + 1) /\ Len(results) < traversal.index
    /\ checkpoint.state \in {"none", "approaching", "capturing"}

(* pipeline.readback and evaluate, which recompute a finished run.          *)
Supports(o, start) ==
    /\ o.frame.receipt - o.actual.received \in 0..Lag /\ Stationary(o.actual)
    /\ start <= o.frame.exposure /\ o.frame.exposure <= o.frame.receipt
    /\ o.frame.receipt < start + Dwell

(* Every image that is kept is evidence of its pose: taken and exposed in   *)
(* the dwell of that pose, with a stationary readback at that pose just     *)
(* before it, although images wait in a queue and are examined after later  *)
(* readbacks and after the next route has begun.  A completed run has one   *)
(* such image for each pose, with advancing clocks, as the solver demands.  *)
(* The arm stands still, in every readback, from Settle before the dwell to *)
(* its end, and no route is driven in that time.                            *)
EvidenceOfPose ==
    /\ \A p \in 1..Len(results) : selected[p] # None /\ Supports(selected[p], results[p])
    /\ traversal.state = "capturing" /\ selected[traversal.index] # None =>
         Supports(selected[traversal.index], checkpoint.start)
    /\ \A p \in 2..Len(results) :
         /\ selected[p].actual.received > selected[p - 1].actual.received
         /\ selected[p].frame.receipt > selected[p - 1].frame.receipt
    /\ traversal.state = "capturing" =>
        /\ traversal.controller = "hold"
        /\ \A i \in DOMAIN feedback :
             feedback[i].received >= checkpoint.start - Settle => Stationary(feedback[i])
=============================================================================
