------------------------------ MODULE MotionOwner ------------------------------
(***************************************************************************)
(* The one owner of arm motion in a physical session: Teleoperation        *)
(* (control/teleop.py) drives the Controller (control/owner.py), which     *)
(* commands a dispatch.Group around physical/transport.py.  Two threads    *)
(* share the devices with the 120 Hz control loop:                         *)
(*   - the stop worker (physical/stopping.py) makes the blocking SDK stop  *)
(*     call and owns SDK writes until it is done;                          *)
(*   - the tool worker (physical/tool.py) owns the Hand-E socket and takes *)
(*     the latest pending request.                                         *)
(* A loop pass is one action: feedback, watchdog, settling, input and      *)
(* command.  The stop worker and the tool worker interleave with passes.   *)
(*                                                                         *)
(* Time is counted in loop passes of at least one unit.  Every clock value *)
(* in the code is only compared with another one, so the model keeps ages  *)
(* and remaining times, each cut off where no comparison can tell the      *)
(* difference; the samples of a Standstill window are placed relative to   *)
(* the latest one.                                                         *)
(***************************************************************************)
EXTENDS Settling

CONSTANTS
    StopTimeout,    \* STOP_TIMEOUT_NS: a stop is confirmed by then or faults
    MoveTimeout,    \* the 60 s deadline of a move
    OpenTimeout,    \* the 5 s a HOME waits for the open gripper
    Passes,         \* bound: how long a loop pass may take
    Advances        \* bound: how far controller uptime moves between passes

ASSUME MotionAssumption ==
    /\ {StopTimeout, MoveTimeout, OpenTimeout} \subseteq Nat
    /\ Passes \subseteq Nat \ {0}
    /\ Advances \subseteq Int
    /\ None \notin Int \cup {"open", "grip"}

VARIABLES
    teleop,     \* Teleoperation.state
    input,      \* the leader input: None, or whether it is open
    gripLeft,   \* time left until home_gripper_deadline
    available,  \* the session above: stepping, in a rejection, given up
    ctl,        \* Controller.progress
    port,       \* Transport.halted, .protected; Group.gripper_position
    stop,       \* Transport.stopping
    tool,       \* the tool worker
    motion,     \* external: what the robot controller was last told to do
    closing,    \* where Transport.close is
    issued      \* the SDK writes of the control thread in the last step

vars == <<teleop, input, gripLeft, available, ctl, port, stop, tool, motion,
          closing, issued>>

Ports == <<port, stop, tool>>

-----------------------------------------------------------------------------
(* Types.                                                                  *)

Grasps == {"open", "grip"}          \* 0, and anything the leader asks for
Grasp == Grasps \cup {None}
Ages == 0 .. (Fresh + 1)
Origin == <<0, 0>>

OwnerStates == {"hold", "moving", "following", "stopping", "fault", "closed"}
Feedback == [slow : BOOLEAN, open : BOOLEAN]
Window == [previous : Place \cup {None}, start : Place \cup {None}]

Controller ==
    [state    : OwnerStates,
     feedback : Feedback \cup {None},
     progress : Ages,
     left     : -1 .. (StopTimeout + MoveTimeout),
     settled  : {None, 0, 1},
     target   : Ages \cup {None},
     window   : Window]

\* A target is kept exactly while the controller follows.
TypeOK ==
    /\ teleop \in {"needs_home", "homing", "ready", "engaging", "waiting_leader",
                   "following", "stopping", "held", "blocked", "closed"}
    /\ input \in {"none", "open", "closed"}
    /\ gripLeft \in -1 .. OpenTimeout
    /\ available \in {"active", "rejected", "lost"}
    /\ ctl \in Controller
    /\ (ctl.target # None) <=> (ctl.state = "following")
    /\ port \in [halted : BOOLEAN, protected : BOOLEAN, staged : Grasp]
    /\ stop \in [phase : {"none", "started", "braking", "done"},
                 servo : BOOLEAN, error : BOOLEAN]
    /\ tool \in [pending : Grasp, taken : Grasp, error : BOOLEAN, done : BOOLEAN]
    /\ motion \in {"none", "moveJ", "servoJ", "stop"}
    /\ closing \in [at : {"no", "observe", "confirm", "release", "hold", "cleanup",
                          "done", "failed"},
                    window : Window, left : -1 .. StopTimeout, raised : BOOLEAN]
    /\ issued \subseteq {"kick", "moveJ", "servoJ", "stopScript"}

Init ==
    /\ teleop = "needs_home" /\ input = "none" /\ gripLeft = 0
    /\ available = "active"
    /\ ctl = [state |-> "hold", feedback |-> None, progress |-> 0, left |-> 0,
              settled |-> None, target |-> None, window |-> Fresher]
    /\ port = [halted |-> FALSE, protected |-> FALSE, staged |-> None]
    /\ stop = [phase |-> "none", servo |-> FALSE, error |-> FALSE]
    /\ tool = [pending |-> None, taken |-> None, error |-> FALSE, done |-> FALSE]
    /\ motion = "none"
    /\ closing = [at |-> "no", window |-> Fresher, left |-> 0, raised |-> FALSE]
    /\ issued = {}

-----------------------------------------------------------------------------
(* The passing of time.                                                    *)

Capped(x, most) == IF x > most THEN most ELSE x
Left(x, d) == IF x - d < -1 THEN -1 ELSE x - d

\* A window seen from a sample that lies step[c] later on each clock.
Shifted(w, step) ==
    LET before(p, most) ==
            IF p = None THEN None
            ELSE <<IF p[1] - step[1] < -most THEN -most ELSE p[1] - step[1],
                   IF p[2] - step[2] < -most THEN -most ELSE p[2] - step[2]>>
    IN  [previous |-> before(w.previous, Fresh + 1),
         start    |-> before(w.start, Stable)]

-----------------------------------------------------------------------------
(* Transport.                                                              *)

StopActive == stop.phase \in {"started", "braking"}

\* Group.stop and Transport.stop: drop staged and pending tool work; the SDK
\* stop is dispatched once per motion, and never on top of a protective stop.
Stopped(p) == [halted |-> TRUE, protected |-> p.protected, staged |-> None]
StopFor(servo, halted) ==
    IF port.protected \/ halted THEN stop
    ELSE [phase |-> "started", servo |-> servo, error |-> FALSE]
\* Mutant of Held: the pending request survives the stop.
HeldPending(t) == t

Held(t) == [t EXCEPT !.pending = None]

TransportStop(servo) ==
    /\ port' = Stopped(port)
    /\ stop' = StopFor(servo, port.halted)
    /\ tool' = Held(tool)

\* Mutant of TransportStopAfter: halted is only reset once the tool has taken
\* its part of the command.
TransportStopAfterLate(servo) ==
    /\ port' = Stopped(port)
    /\ stop' = StopFor(servo, port.halted)
    /\ tool' = Held(tool)

\* The same after a move or servo that reached the arm: halted is reset before.
TransportStopAfter(servo) ==
    /\ port' = Stopped(port)
    /\ stop' = StopFor(servo, FALSE)
    /\ tool' = Held(tool)

\* Mutant of Kicks: the heartbeat does not yield to the stop worker.
KicksAlways == {"kick"}

Kicks == IF StopActive THEN {} ELSE {"kick"}

-----------------------------------------------------------------------------
(* Controller.                                                             *)

Owning == ctl.state \in {"hold", "moving", "following", "stopping"}
Following == ctl.state = "following"

\* A faulted owner is not ticked again: what only tick reads is reset.
Faulted(c) == [c EXCEPT !.state = "fault", !.target = None, !.progress = 0,
                        !.left = 0, !.settled = None, !.window = Fresher]

\* progress at the next pass, d units later, with sample s.
Aged(d, s) ==
    [state    |-> ctl.state,
     feedback |-> [slow |-> s.slow, open |-> s.open],
     progress |-> IF ctl.feedback = None \/ s.advance > 0 THEN 0
                  ELSE Capped(ctl.progress + d, Fresh + 1),
     left     |-> Left(ctl.left, d),
     settled  |-> IF ctl.settled = None THEN None ELSE 1,
     target   |-> IF ctl.target = None THEN None
                  ELSE Capped(ctl.target + d, Fresh + 1),
     window   |-> Shifted(ctl.window, <<s.advance, d>>)]

\* Mutant of Healthy: only a move has a deadline.
HealthyWhileStopping(c, s) ==
    /\ ~stop.error /\ ~port.protected /\ ~tool.error
    /\ ctl.feedback # None => s.advance >= 0
    /\ c.progress <= Fresh
    /\ c.state = "following" => c.target <= Fresh
    /\ c.state = "moving" => c.left >= 0

\* What tick demands of a sample before it feeds the watchdog.
Healthy(c, s) ==
    /\ ~stop.error /\ ~port.protected /\ ~tool.error
    /\ ctl.feedback # None => s.advance >= 0
    /\ c.progress <= Fresh
    /\ c.state = "following" => c.target <= Fresh
    /\ c.state \in {"moving", "stopping"} => c.left >= 0

Settled(c, s) ==
    CASE c.state = "stopping" ->
            LET after == [c EXCEPT !.window = Kept(@, Origin, s.slow)]
            IN  IF Confirms(c.window, Origin, s.slow)
                THEN [after EXCEPT !.state = "hold", !.window = Fresher]
                ELSE after
      [] c.state = "moving" /\ s.ready /\ s.slow ->
            IF c.settled = 1 THEN [c EXCEPT !.state = "hold"]
            ELSE [c EXCEPT !.settled = 0]
      [] OTHER -> [c EXCEPT !.settled = None]

Halted(c) ==
    [c EXCEPT !.state = "stopping", !.target = None, !.left = StopTimeout,
              !.settled = None, !.window = Fresher]

-----------------------------------------------------------------------------
(* What the session does with an error of a pass or of a key: the first    *)
(* one opens a rejection, which stops the arm in place; one more gives the *)
(* motion up.                                                              *)

\* motion.reject: no second stop for an arm that was already stopped.
RestsAlready == teleop \in {"stopping", "held"}

InputClosed == input' = IF input = "none" THEN "none" ELSE "closed"

\* An error while the controller c still owns the arm.
Rejected(c) ==
    IF available = "rejected"
    THEN /\ available' = "lost"
         /\ ctl' = Faulted(c)
         /\ TransportStop(c.state = "following")
         /\ UNCHANGED <<teleop, input>>
    ELSE /\ available' = "rejected"
         /\ IF RestsAlready
            THEN ctl' = c /\ UNCHANGED <<teleop, input, port, stop, tool>>
            ELSE /\ InputClosed
                 /\ ctl' = Halted(c)
                 /\ TransportStop(c.state = "following")
                 /\ teleop' = "stopping"

\* An error that has already faulted the controller.
Blocked ==
    /\ available' = "lost"
    /\ ctl' = Faulted(ctl)
    /\ IF available = "rejected" THEN UNCHANGED <<teleop, input>>
       ELSE InputClosed /\ teleop' = "blocked"

-----------------------------------------------------------------------------
(* A pass of the loop.                                                     *)

Samples == [advance : Advances, slow : BOOLEAN, ready : BOOLEAN, open : BOOLEAN]

Stepping == available # "lost" /\ closing.at = "no" /\ Owning

\* Controller.tick succeeded and left c.
Ticked(d, s, c) ==
    /\ Stepping
    /\ Healthy(Aged(d, s), s)
    /\ c = Settled(Aged(d, s), s)
    /\ gripLeft' = IF teleop = "homing" THEN Left(gripLeft, d) ELSE 0

\* Controller.tick failed: a read, a mode, a check or the watchdog.
StepFaults ==
    /\ Stepping
    /\ Blocked
    /\ TransportStop(Following)
    /\ issued' \in {{}, Kicks}
    /\ UNCHANGED <<gripLeft, motion, closing>>

\* The read found the robot in a protective stop.
StepProtected ==
    /\ Stepping /\ ~port.protected
    /\ Blocked
    /\ port' = [Stopped(port) EXCEPT !.protected = TRUE]
    /\ tool' = Held(tool)
    /\ issued' = {}
    /\ UNCHANGED <<gripLeft, stop, motion, closing>>

OpenOverdue(s) == teleop = "homing" /\ ~s.open /\ gripLeft' < 0

Engaging == teleop \in {"engaging", "waiting_leader"}

\* Anything raised after the tick: source, guards, tracking, input, drift,
\* a gripper that does not open.
StepRejected ==
    /\ Stepping
    /\ issued' = Kicks
    /\ UNCHANGED <<motion, closing>>
    /\ \E d \in Passes, s \in Samples :
          \E c \in {Settled(Aged(d, s), s)} : Ticked(d, s, c) /\ Rejected(c)

Arrived(c, s) ==
    CASE teleop = "homing" /\ c.state = "hold" /\ s.open -> "ready"
      [] teleop = "stopping" /\ c.state = "hold" -> "held"
      [] OTHER -> teleop

\* The remaining states of Teleoperation.step that send nothing.
StepRests ==
    /\ Stepping /\ teleop # "following"
    /\ issued' = Kicks
    /\ UNCHANGED <<input, available, Ports, motion, closing>>
    /\ \E d \in Passes, s \in Samples :
          \E c \in {Settled(Aged(d, s), s)} :
             /\ Ticked(d, s, c)
             /\ ~OpenOverdue(s)
             /\ ctl' = c
             /\ teleop' = Arrived(c, s)

\* _engage with a leader that is not steady.
StepUnsteady ==
    /\ Stepping /\ Engaging
    /\ teleop' = "waiting_leader"
    /\ issued' = Kicks
    /\ UNCHANGED <<input, available, Ports, motion, closing>>
    /\ \E d \in Passes, s \in Samples :
          \E c \in {Settled(Aged(d, s), s)} : Ticked(d, s, c) /\ ctl' = c

\* _engage with a steady one: at READY, stopped, with an open gripper.
StepEngages ==
    /\ Stepping /\ Engaging
    /\ issued' = Kicks
    /\ UNCHANGED <<motion, closing>>
    /\ \E d \in Passes, s \in Samples :
          \E c \in {Settled(Aged(d, s), s)} :
             /\ s.open
             /\ Ticked(d, s, c)
             /\ IF s.ready /\ s.slow
                THEN /\ input' = "open"
                     /\ teleop' = "following"
                     /\ ctl' = [c EXCEPT !.state = "following", !.target = 0]
                     /\ UNCHANGED <<available, Ports>>
                ELSE Blocked /\ TransportStop(FALSE)

\* One target of the leader, accepted by the arm.
StepFollows ==
    /\ Stepping /\ teleop = "following" /\ ~StopActive
    /\ motion' = "servoJ"
    /\ issued' = Kicks \cup {"servoJ"}
    /\ UNCHANGED <<teleop, input, available, stop, closing>>
    /\ \E grasp \in Grasps :
          /\ port' = [port EXCEPT !.halted = FALSE, !.staged = grasp]
          /\ tool' = [tool EXCEPT !.pending = grasp]
    /\ \E d \in Passes, s \in Samples :
          \E c \in {Settled(Aged(d, s), s)} :
             Ticked(d, s, c) /\ ctl' = [c EXCEPT !.target = 0]

\* A target the controller or the arm refuses, or a tool request that fails
\* after the arm has accepted its target.
StepRefused ==
    /\ Stepping /\ teleop = "following"
    /\ Blocked
    /\ \E accepted \in BOOLEAN :
          /\ accepted => ~StopActive
          /\ IF accepted THEN TransportStopAfter(TRUE) ELSE TransportStop(TRUE)
          /\ motion' = IF accepted THEN "servoJ" ELSE motion
          /\ issued' = Kicks \cup IF accepted THEN {"servoJ"} ELSE {}
    /\ UNCHANGED closing
    /\ \E d \in Passes, s \in Samples : Ticked(d, s, Settled(Aged(d, s), s))

Step == StepFaults \/ StepProtected \/ StepRejected \/ StepRests
           \/ StepUnsteady \/ StepEngages \/ StepFollows \/ StepRefused

-----------------------------------------------------------------------------
(* Keys, and the stops and rejections of the session above.                *)

Keyed == available = "active" /\ closing.at = "no"

\* Space asks for HOME; the arm accepts it and the tool is told to open.
KeyHome ==
    /\ Keyed /\ teleop \in {"needs_home", "held"}
    /\ ctl.state = "hold" /\ ctl.feedback # None /\ ctl.feedback.slow
    /\ ~StopActive /\ ~tool.error
    /\ ctl' = [ctl EXCEPT !.state = "moving", !.left = MoveTimeout,
                          !.settled = None]
    /\ port' = [port EXCEPT !.halted = FALSE, !.staged = "open"]
    /\ tool' = [tool EXCEPT !.pending = "open"]
    /\ motion' = "moveJ"
    /\ gripLeft' = OpenTimeout
    /\ teleop' = "homing"
    /\ issued' = {"moveJ"}
    /\ UNCHANGED <<input, available, stop, closing>>

\* HOME is refused: no longer still, no fresh feedback, a stop that still
\* owns the SDK, the arm; or the tool, after the arm has accepted.
KeyHomeFaults ==
    /\ Keyed /\ teleop \in {"needs_home", "held"}
    /\ ctl.state = "hold" /\ ctl.feedback # None
    /\ \E sent, accepted \in BOOLEAN :
          /\ accepted => sent
          /\ sent => ~StopActive /\ ctl.feedback.slow
          /\ Blocked
          /\ IF sent THEN TransportStopAfter(FALSE) ELSE TransportStop(FALSE)
          /\ motion' = IF accepted THEN "moveJ" ELSE motion
          /\ issued' = IF sent THEN {"moveJ"} ELSE {}
    /\ UNCHANGED <<gripLeft, closing>>

\* HOME before the first feedback only raises; the session rejects it.
KeyHomeEarly ==
    /\ Keyed /\ teleop \in {"needs_home", "held"}
    /\ ctl.state = "hold" /\ ctl.feedback = None
    /\ Rejected(ctl)
    /\ issued' = {}
    /\ UNCHANGED <<gripLeft, motion, closing>>

\* Mutant of KeyStarts: following may be resumed where the arm was stopped.
KeyStartsHeld ==
    /\ Keyed /\ teleop \in {"ready", "held"} /\ ctl.feedback.open
    /\ teleop' = "engaging"
    /\ issued' = {}
    /\ UNCHANGED <<input, gripLeft, available, ctl, Ports, motion, closing>>

KeyStarts ==
    /\ Keyed /\ teleop = "ready" /\ ctl.feedback.open
    /\ teleop' = "engaging"
    /\ issued' = {}
    /\ UNCHANGED <<input, gripLeft, available, ctl, Ports, motion, closing>>

KeyWithdraws ==
    /\ Keyed /\ teleop \in {"engaging", "waiting_leader"}
    /\ teleop' = "ready"
    /\ issued' = {}
    /\ UNCHANGED <<input, gripLeft, available, ctl, Ports, motion, closing>>

\* Teleoperation.stop, by a key or by the session.
Stops ==
    /\ Keyed /\ teleop \in {"following", "homing"}
    /\ InputClosed
    /\ ctl' = Halted(ctl)
    /\ TransportStop(Following)
    /\ teleop' = "stopping"
    /\ issued' = {}
    /\ UNCHANGED <<gripLeft, available, motion, closing>>

\* The session rejects for a reason of its own (recorder, readers, files).
SessionRejects ==
    /\ Keyed /\ Owning
    /\ Rejected(ctl)
    /\ issued' = {}
    /\ UNCHANGED <<gripLeft, motion, closing>>

\* The rejection was resolved; the arm is held.
SessionResumes ==
    /\ available = "rejected" /\ closing.at = "no" /\ teleop = "held"
    /\ available' = "active"
    /\ issued' = {}
    /\ UNCHANGED <<teleop, input, gripLeft, ctl, Ports, motion, closing>>

Operator == KeyHome \/ KeyHomeFaults \/ KeyHomeEarly \/ KeyStarts
               \/ KeyWithdraws \/ Stops \/ SessionRejects \/ SessionResumes

-----------------------------------------------------------------------------
(* Close: the owner is faulted if it still moves, then the transport       *)
(* confirms rest by itself and releases the SDK program.                   *)

CloseBegins ==
    /\ closing.at = "no"
    /\ InputClosed
    /\ closing' = [closing EXCEPT !.at = "observe"]
    /\ IF ctl.state \in {"hold", "fault"} THEN UNCHANGED <<ctl, port, stop, tool>>
       ELSE ctl' = Faulted(ctl) /\ TransportStop(Following)
    /\ issued' = {}
    /\ UNCHANGED <<teleop, gripLeft, available, motion>>

\* _observe, and the stop that an arm not yet halted still needs.
CloseObserves ==
    /\ closing.at = "observe"
    /\ \E protected \in BOOLEAN :
          /\ port.protected => protected
          /\ port' = [port EXCEPT !.halted = TRUE, !.protected = protected]
          /\ stop' = IF protected \/ port.halted THEN stop
                     ELSE [phase |-> "started", servo |-> FALSE, error |-> FALSE]
          /\ tool' = IF protected # port.protected \/ ~port.halted
                     THEN Held(tool) ELSE tool
    /\ closing' = [closing EXCEPT !.at = "confirm", !.left = StopTimeout]
    /\ issued' = {}
    /\ UNCHANGED <<teleop, input, gripLeft, available, ctl, motion>>

\* One turn of _confirm_standstill.
CloseWatches ==
    /\ closing.at = "confirm" /\ closing.left > 0
    /\ UNCHANGED <<teleop, input, gripLeft, available, ctl, stop, motion>>
    /\ \E d \in Passes, advance \in Advances, slow, protected \in BOOLEAN :
          LET w == Shifted(closing.window, <<advance, d>>)
          IN  /\ port.protected => protected
              /\ port' = [port EXCEPT !.protected = protected]
              /\ tool' = IF protected # port.protected THEN Held(tool) ELSE tool
              /\ issued' = IF protected THEN {} ELSE Kicks
              /\ closing' =
                    IF Confirms(w, Origin, slow)
                    THEN [closing EXCEPT !.at = "release", !.window = Fresher,
                                         !.left = 0]
                    ELSE [closing EXCEPT !.window = Kept(w, Origin, slow),
                                         !.left = Left(@, d)]

\* Mutant of JoinFails: the error of the worker is not checked.
JoinFailsActive == StopActive

JoinFails == StopActive \/ stop.error

\* The stop worker is joined before the SDK program is released; under a
\* protective stop there is nothing to release.
CloseReleases ==
    /\ closing.at = "release"
    /\ port.protected \/ ~JoinFails
    /\ closing' = [closing EXCEPT !.at = IF port.protected THEN "cleanup" ELSE "hold"]
    /\ motion' = IF port.protected THEN motion ELSE "none"
    /\ issued' = IF port.protected THEN {} ELSE {"stopScript"}
    /\ UNCHANGED <<teleop, input, gripLeft, available, ctl, Ports>>

\* The hold is observed for thirty seconds from outputs only.
CloseHeld ==
    /\ closing.at = "hold"
    /\ closing' = [closing EXCEPT !.at = "cleanup"]
    /\ issued' = {}
    /\ UNCHANGED <<teleop, input, gripLeft, available, ctl, Ports, motion>>

\* A read, the heartbeat, the deadline, the join or the hold raises.
CloseRaises ==
    /\ \/ closing.at \in {"observe", "confirm", "hold"}
       \/ closing.at = "release" /\ ~port.protected /\ JoinFails
    /\ closing' = [closing EXCEPT !.at = "cleanup", !.raised = TRUE,
                                  !.window = Fresher, !.left = 0]
    /\ issued' = {}
    /\ UNCHANGED <<teleop, input, gripLeft, available, ctl, Ports, motion>>

\* Whatever happened, the connections are closed; the SDK only if no stop
\* worker is left in it.
CloseCleans ==
    /\ closing.at = "cleanup"
    /\ \E skipped, raises \in BOOLEAN :
          /\ skipped => JoinFails
          /\ ~skipped => ~StopActive
          /\ LET raised == closing.raised \/ skipped \/ raises
                 released == ~skipped /\ ~port.protected
             IN  /\ closing' = [closing EXCEPT
                                   !.at = IF raised THEN "failed" ELSE "done",
                                   !.raised = raised]
                 /\ issued' \in IF released THEN {{}, {"stopScript"}} ELSE {{}}
                 /\ motion' = IF released THEN "none" ELSE motion
                 /\ IF raised THEN UNCHANGED <<ctl, teleop>>
                    ELSE /\ ctl' = [ctl EXCEPT !.state = "closed"]
                         /\ teleop' = "closed"
    /\ tool' = [Held(tool) EXCEPT !.done = TRUE]
    /\ UNCHANGED <<input, gripLeft, available, port, stop>>

Close == CloseObserves \/ CloseWatches \/ CloseReleases \/ CloseHeld
            \/ CloseRaises \/ CloseCleans

-----------------------------------------------------------------------------
(* The two workers.                                                        *)

\* The watchdog is widened, then the SDK call that brakes the arm begins.
StopDispatched ==
    /\ stop.phase = "started"
    /\ stop' = [stop EXCEPT !.phase = "braking"]
    /\ motion' = "stop"

StopAcknowledged ==
    /\ stop.phase = "braking"
    /\ stop' = [stop EXCEPT !.phase = "done"]
    /\ UNCHANGED motion

\* Either watchdog update or the acknowledgement fails.
StopFails ==
    /\ StopActive
    /\ stop' = [stop EXCEPT !.phase = "done", !.error = TRUE]
    /\ UNCHANGED motion

StopWorker ==
    /\ StopDispatched \/ StopAcknowledged \/ StopFails
    /\ issued' = {}
    /\ UNCHANGED <<teleop, input, gripLeft, available, ctl, port, tool, closing>>

\* The latest request leaves the mailbox; one equal to the last sent is dropped.
ToolTakes ==
    /\ tool.taken = None /\ tool.pending # None
    /\ \E repeated \in BOOLEAN :
          tool' = [tool EXCEPT !.pending = None,
                               !.taken = IF repeated THEN None ELSE tool.pending]

ToolMoves ==
    /\ tool.taken # None
    /\ tool' = [tool EXCEPT !.taken = None]

ToolFails == tool' = [tool EXCEPT !.error = TRUE, !.taken = None]

ToolWorker ==
    /\ ~tool.done /\ ~tool.error
    /\ ToolTakes \/ ToolMoves \/ ToolFails
    /\ issued' = {}
    /\ UNCHANGED <<teleop, input, gripLeft, available, ctl, port, stop, motion,
                   closing>>

-----------------------------------------------------------------------------

Next == Step \/ Operator \/ CloseBegins \/ Close \/ StopWorker \/ ToolWorker

Spec == Init /\ [][Next]_vars

\* The loop runs at 120 Hz and a close runs to its end; nothing is assumed of
\* the SDK call in the stop worker, of the tool or of the operator.
FairSpec == Spec /\ WF_vars(Step) /\ WF_vars(Close)

-----------------------------------------------------------------------------
(* Properties.                                                             *)

\* The control thread writes to the SDK only while no stop worker is in it
\* (stopping.Stop: the normal owner yields SDK writes until this stop
\* completes), in every state and during close.
SdkExclusive == [][issued' # {} => ~StopActive]_vars

\* Teleoperation and Controller keep separate states; while the owner is not
\* faulted they describe one situation, and the leader is bound exactly while
\* the arm follows it.
StatesAgree ==
    Owning =>
        /\ (teleop = "following") = (ctl.state = "following")
        /\ ctl.state = "moving" => teleop = "homing"
        /\ ctl.state = "stopping" => teleop = "stopping"
        /\ teleop = "homing" => ctl.state \in {"moving", "hold"}
        /\ teleop # "blocked"
        /\ closing.at = "no" => ((input = "open") = (teleop = "following"))

\* An arm that was told to stop, whether by a key, by a rejection or by any
\* fault, was really told: a stop request exists for the last motion, and a
\* stop worker that ended without an error has the stop as the last command.
StopEffective ==
    /\ ctl.state \in {"stopping", "fault"} => port.halted
    /\ port.halted /\ ~port.protected => stop.phase # "none"
    /\ port.halted /\ ~port.protected /\ stop.phase = "done" /\ ~stop.error
          => motion \in {"stop", "none"}

\* Nothing but an accepted HOME, asked for by a key in rest, moves an arm that
\* was stopped; in particular no target of the leader.
StopThenHome ==
    [][port.halted /\ motion' \in {"moveJ", "servoJ"} =>
          \/ motion' = motion
          \/ motion' = "moveJ" /\ teleop \in {"needs_home", "held"}]_vars

\* A stop cancels the tool work that was not yet taken, and no grasp of the
\* last interval is staged or pending outside of following: it cannot ride on
\* the next HOME.
ToolRevoked ==
    /\ port.halted => tool.pending = None
    /\ "grip" \in {port.staged, tool.pending} => Following

\* A close that returns has an acknowledged stop or a protective stop behind
\* it, and no tool request left.
ReleaseVerified ==
    teleop = "closed" =>
        /\ port.protected \/ (stop.phase = "done" /\ ~stop.error /\ motion = "none")
        /\ tool.done /\ tool.pending = None

\* A stop is confirmed or faults, a HOME arrives or is stopped, and a close
\* ends, whatever the SDK, the tool and the feedback do.
MotionEnds ==
    /\ ctl.state = "stopping" ~> ctl.state # "stopping"
    /\ teleop = "homing" ~> teleop # "homing" \/ available = "lost" \/ closing.at # "no"
    /\ closing.at = "observe" ~> closing.at \in {"done", "failed"}
===============================================================================
