-------------------------- MODULE MotionOwner_proofs --------------------------
(***************************************************************************)
(* Safety of the motion owner for every timeout, every pass duration and   *)
(* every movement of the controller's clock.                               *)
(*                                                                         *)
(* The properties are not inductive alone.  Supports adds what connects    *)
(* them: a stop worker that brakes has sent the stop, no stop is behind an *)
(* arm that is on its way to following, and how far a close has come says  *)
(* what is known of the stop worker.                                       *)
(***************************************************************************)
EXTENDS MotionOwner, TLAPS

Joined == port.protected \/ (stop.phase = "done" /\ ~stop.error)

Supports ==
    /\ stop.phase = "braking" => motion \in {"stop", "none"}
    /\ (/\ closing.at \in {"no", "observe"}
        /\ Owning
        /\ teleop \in {"homing", "ready", "engaging", "waiting_leader", "following"})
       => ~port.halted
    /\ closing.at \in {"confirm", "release"} => port.halted
    /\ closing.at = "hold" => Joined
    /\ closing.at = "cleanup" /\ ~closing.raised => Joined
    /\ closing.at # "no" => ~Following
    /\ teleop = "closed" => closing.at = "done"

MotionInv ==
    /\ TypeOK
    /\ StatesAgree
    /\ StopEffective
    /\ ToolRevoked
    /\ ReleaseVerified
    /\ Supports

-----------------------------------------------------------------------------
(* The data of the owner keeps its shape.                                  *)

\* The elapsed time of a pass leaves an age an age and a deadline a deadline.
LEMMA Times ==
    ASSUME NEW d \in Passes
    PROVE  /\ \A x \in Ages : Capped(x + d, Fresh + 1) \in Ages
           /\ \A n \in Nat : \A x \in -1 .. n : Left(x, d) \in -1 .. n
BY MotionAssumption, SettlingAssumption DEF Ages, Capped, Left

LEMMA ShiftedWindow ==
    ASSUME NEW w \in Window, NEW x \in Int, NEW y \in Int
    PROVE  Shifted(w, <<x, y>>) \in Window
<1> DEFINE before(p, most) ==
            IF p = None THEN None
            ELSE <<IF p[1] - x < -most THEN -most ELSE p[1] - x,
                   IF p[2] - y < -most THEN -most ELSE p[2] - y>>
<1>1. \A p \in Place \cup {None}, most \in Nat : before(p, most) \in Place \cup {None}
  BY SettlingAssumption DEF Place
<1>2. w.previous \in Place \cup {None} /\ w.start \in Place \cup {None}
  BY DEF Window
<1>3. Fresh + 1 \in Nat /\ Stable \in Nat
  BY SettlingAssumption
<1>4. /\ before(w.previous, Fresh + 1) \in Place \cup {None}
      /\ before(w.start, Stable) \in Place \cup {None}
  BY <1>1, <1>2, <1>3
<1>5. Shifted(w, <<x, y>>) =
        [previous |-> before(w.previous, Fresh + 1), start |-> before(w.start, Stable)]
  BY DEF Shifted
<1> QED BY <1>4, <1>5 DEF Window

LEMMA KeptWindow ==
    ASSUME NEW w \in Window, NEW slow \in BOOLEAN
    PROVE  Kept(w, Origin, slow) \in Window
<1>1. Origin \in Place
  BY DEF Origin, Place
<1>2. w.start \in Place \cup {None}
  BY DEF Window
<1> QED BY <1>1, <1>2 DEF Kept, Window

LEMMA FresherWindow == Fresher \in Window
BY DEF Fresher, Window

\* What the rest of a pass may rely on after a successful tick.
LEMMA TickedOwner ==
    ASSUME TypeOK, NEW d \in Passes, NEW s \in Samples, NEW c,
           c = Settled(Aged(d, s), s), Ticked(d, s, c)
    PROVE  /\ c \in Controller
           /\ (c.target # None) <=> (c.state = "following")
           /\ \/ c.state = ctl.state
              \/ ctl.state \in {"moving", "stopping"} /\ c.state = "hold"
           /\ gripLeft' \in -1 .. OpenTimeout
<1>1. /\ s.advance \in Int /\ s.slow \in BOOLEAN /\ s.open \in BOOLEAN
      /\ s.ready \in BOOLEAN /\ d \in Int
  <2>1. s.advance \in Advances /\ s.slow \in BOOLEAN /\ s.open \in BOOLEAN
        /\ s.ready \in BOOLEAN
    BY DEF Samples
  <2>2. \A x \in Advances : x \in Int
    BY MotionAssumption
  <2>3. \A x \in Passes : x \in Int
    BY MotionAssumption
  <2>4. s.advance \in Int
    BY <2>1, <2>2
  <2>5. d \in Int
    BY <2>3
  <2> QED BY <2>1, <2>4, <2>5
<1>2. /\ ctl \in Controller
      /\ (ctl.target # None) <=> (ctl.state = "following")
      /\ gripLeft \in -1 .. OpenTimeout
  BY DEF TypeOK
<1> DEFINE a == Aged(d, s)
<1>3. /\ a \in Controller
      /\ a.state = ctl.state
      /\ (a.target # None) <=> (ctl.target # None)
  <2>1. Shifted(ctl.window, <<s.advance, d>>) \in Window
    BY <1>1, <1>2, ShiftedWindow DEF Controller
  <2>2. ctl.progress \in Ages /\ Capped(ctl.progress + d, Fresh + 1) \in Ages
    BY <1>2, Times DEF Controller
  <2>3. Left(ctl.left, d) \in -1 .. (StopTimeout + MoveTimeout)
    <3>1. StopTimeout + MoveTimeout \in Nat
      BY MotionAssumption
    <3> QED BY <3>1, <1>2, Times DEF Controller
  <2>4. ctl.target # None => Capped(ctl.target + d, Fresh + 1) \in Ages
    BY <1>2, Times DEF Controller
  <2>5. 0 \in Ages /\ None \notin Ages
    BY MotionAssumption, SettlingAssumption DEF Ages
  <2>6. [slow |-> s.slow, open |-> s.open] \in Feedback
    BY <1>1 DEF Feedback
  <2> DEFINE progress == IF ctl.feedback = None \/ s.advance > 0 THEN 0
                         ELSE Capped(ctl.progress + d, Fresh + 1)
             settled  == IF ctl.settled = None THEN None ELSE 1
             target   == IF ctl.target = None THEN None
                         ELSE Capped(ctl.target + d, Fresh + 1)
  <2>7. progress \in Ages /\ settled \in {None, 0, 1} /\ target \in Ages \cup {None}
    BY <2>2, <2>4, <2>5
  <2>8. (target # None) <=> (ctl.target # None)
    BY <2>4, <2>5
  <2>9. a = [state |-> ctl.state, feedback |-> [slow |-> s.slow, open |-> s.open],
             progress |-> progress, left |-> Left(ctl.left, d), settled |-> settled,
             target |-> target, window |-> Shifted(ctl.window, <<s.advance, d>>)]
    BY DEF Aged
  <2> HIDE DEF a, progress, settled, target
  <2> QED BY <1>2, <2>1, <2>3, <2>6, <2>7, <2>8, <2>9 DEF Controller
<1>4. /\ c \in Controller
      /\ c.target = a.target
      /\ \/ c.state = a.state
         \/ a.state \in {"moving", "stopping"} /\ c.state = "hold"
  <2> HIDE DEF a
  <2>1. c = Settled(a, s)
    BY DEF a
  <2>2. Kept(a.window, Origin, s.slow) \in Window /\ Fresher \in Window
    BY <1>1, <1>3, KeptWindow, FresherWindow DEF Controller
  <2>3. CASE a.state = "stopping"
    BY <2>1, <2>2, <2>3, <1>3 DEF Settled, Controller, OwnerStates
  <2>4. CASE a.state = "moving" /\ s.ready /\ s.slow
    BY <2>1, <2>4, <1>3 DEF Settled, Controller, OwnerStates
  <2>5. CASE a.state # "stopping" /\ ~(a.state = "moving" /\ s.ready /\ s.slow)
    <3>1. c = [a EXCEPT !.settled = None]
      BY <2>1, <2>5 DEF Settled
    <3> QED BY <3>1, <1>3 DEF Controller
  <2> QED BY <2>3, <2>4, <2>5
<1>5. gripLeft' \in -1 .. OpenTimeout
  <2>1. Left(gripLeft, d) \in -1 .. OpenTimeout /\ 0 \in -1 .. OpenTimeout
    BY <1>2, Times, MotionAssumption
  <2> QED BY <2>1 DEF Ticked
<1> QED BY <1>2, <1>3, <1>4, <1>5

\* A faulted, a halted and an engaged owner are owners.
LEMMA FaultedOwner ==
    ASSUME NEW c \in Controller
    PROVE  /\ Faulted(c) \in Controller
           /\ Faulted(c).state = "fault" /\ Faulted(c).target = None
<1>1. 0 \in Ages /\ 0 \in -1 .. (StopTimeout + MoveTimeout)
  BY MotionAssumption, SettlingAssumption DEF Ages
<1> QED BY <1>1, FresherWindow DEF Faulted, Controller, OwnerStates

LEMMA HaltedOwner ==
    ASSUME NEW c \in Controller
    PROVE  /\ Halted(c) \in Controller
           /\ Halted(c).state = "stopping" /\ Halted(c).target = None
<1>1. StopTimeout \in -1 .. (StopTimeout + MoveTimeout)
  BY MotionAssumption
<1> QED BY <1>1, FresherWindow DEF Halted, Controller, OwnerStates

LEMMA AimedOwner ==
    ASSUME NEW c \in Controller, NEW state \in OwnerStates
    PROVE  LET e == [c EXCEPT !.state = state, !.target = 0]
           IN  e \in Controller /\ e.state = state /\ e.target = 0
<1>1. 0 \in Ages
  BY SettlingAssumption DEF Ages
<1> QED BY <1>1 DEF Controller

-----------------------------------------------------------------------------
(* What a stop does to the arm, whoever asks for it.                       *)

\* After a stop nothing is staged or pending, the arm is halted, and either a
\* new stop has been requested or the old one stands.
StopRequested(last) ==
    /\ port' = [halted |-> TRUE, protected |-> port.protected, staged |-> None]
    /\ tool' = [tool EXCEPT !.pending = None]
    /\ \/ stop' = stop /\ (port.protected \/ last)
       \/ /\ ~port.protected
          /\ stop' \in [phase : {"started"}, servo : BOOLEAN, error : {FALSE}]

LEMMA StopEffect ==
    ASSUME TypeOK, NEW servo \in BOOLEAN
    PROVE  /\ TransportStop(servo) => StopRequested(port.halted)
           /\ TransportStopAfter(servo) => StopRequested(FALSE)
<1>1. port.halted \in BOOLEAN /\ port.protected \in BOOLEAN
  BY DEF TypeOK
<1>2. Stopped(port) = [halted |-> TRUE, protected |-> port.protected, staged |-> None]
  BY DEF Stopped
<1>3. ASSUME NEW halted \in BOOLEAN, stop' = StopFor(servo, halted)
      PROVE  \/ stop' = stop /\ (port.protected \/ halted)
             \/ /\ ~port.protected
                /\ stop' \in [phase : {"started"}, servo : BOOLEAN, error : {FALSE}]
  BY <1>1, <1>3 DEF StopFor
<1> QED BY <1>1, <1>2, <1>3 DEF TransportStop, TransportStopAfter, StopRequested, Held

\* A stop keeps what is known of the devices, and establishes that the arm
\* was told to stop, provided no motion is sent on top of a request that stands.
LEMMA StopKeeps ==
    ASSUME MotionInv, NEW last \in BOOLEAN, StopRequested(last),
           last => port.halted /\ motion' = motion,
           motion' \in {"none", "moveJ", "servoJ", "stop"},
           motion' = motion \/ ~StopActive
    PROVE  /\ port' \in [halted : BOOLEAN, protected : BOOLEAN, staged : Grasp]
           /\ stop' \in [phase : {"none", "started", "braking", "done"},
                          servo : BOOLEAN, error : BOOLEAN]
           /\ tool' \in [pending : Grasp, taken : Grasp, error : BOOLEAN, done : BOOLEAN]
           /\ StopEffective' /\ ToolRevoked'
           /\ stop'.phase = "braking" => motion' \in {"stop", "none"}
           /\ port'.halted
<1>1. /\ port \in [halted : BOOLEAN, protected : BOOLEAN, staged : Grasp]
      /\ stop \in [phase : {"none", "started", "braking", "done"},
                    servo : BOOLEAN, error : BOOLEAN]
      /\ tool \in [pending : Grasp, taken : Grasp, error : BOOLEAN, done : BOOLEAN]
      /\ None \in Grasp
  BY DEF MotionInv, TypeOK, Grasp
<1>2. /\ port' \in [halted : BOOLEAN, protected : BOOLEAN, staged : Grasp]
      /\ stop' \in [phase : {"none", "started", "braking", "done"},
                     servo : BOOLEAN, error : BOOLEAN]
      /\ tool' \in [pending : Grasp, taken : Grasp, error : BOOLEAN, done : BOOLEAN]
      /\ port'.halted /\ port'.protected = port.protected
      /\ port'.staged = None /\ tool'.pending = None
  BY <1>1 DEF StopRequested
<1>3. StopEffective'
  BY <1>1, <1>2 DEF MotionInv, StopEffective, StopRequested
<1>4. ToolRevoked'
  BY <1>1, <1>2, MotionAssumption DEF ToolRevoked, Grasp
<1>5. stop'.phase = "braking" => motion' \in {"stop", "none"}
  BY <1>1, <1>2 DEF MotionInv, Supports, StopRequested, StopActive
<1> QED BY <1>2, <1>3, <1>4, <1>5

-----------------------------------------------------------------------------
(* The two ways in which an error ends.                                    *)

\* What a step outside of close leaves alone, or keeps within its type.
Ordinary ==
    /\ closing.at = "no" /\ closing' = closing
    /\ gripLeft' \in -1 .. OpenTimeout
    /\ issued' \subseteq {"kick", "moveJ", "servoJ", "stopScript"}

\* The owner is faulted, the arm is stopped, and nothing else happens.
LEMMA BlockedKeeps ==
    ASSUME MotionInv, Ordinary, Blocked,
           NEW last \in BOOLEAN, StopRequested(last),
           last => port.halted /\ motion' = motion,
           motion' \in {"none", "moveJ", "servoJ", "stop"},
           motion' = motion \/ ~StopActive
    PROVE  MotionInv'
<1>1. closing' = closing /\ closing.at = "no" /\ teleop # "closed"
  BY DEF Ordinary, MotionInv, Supports
<1>2. /\ port' \in [halted : BOOLEAN, protected : BOOLEAN, staged : Grasp]
      /\ stop' \in [phase : {"none", "started", "braking", "done"},
                    servo : BOOLEAN, error : BOOLEAN]
      /\ tool' \in [pending : Grasp, taken : Grasp, error : BOOLEAN, done : BOOLEAN]
      /\ StopEffective' /\ ToolRevoked'
      /\ stop'.phase = "braking" => motion' \in {"stop", "none"}
      /\ port'.halted
  BY <1>1, StopKeeps
<1>3. ctl \in Controller
  BY DEF MotionInv, TypeOK
<1>4. ctl' \in Controller /\ ctl'.state = "fault" /\ ctl'.target = None
  BY <1>3, FaultedOwner DEF Blocked
<1>5. /\ teleop' \in {"needs_home", "homing", "ready", "engaging", "waiting_leader",
                      "following", "stopping", "held", "blocked", "closed"}
      /\ input' \in {"none", "open", "closed"}
      /\ teleop' # "closed" /\ available' = "lost"
  BY <1>1 DEF Blocked, InputClosed, MotionInv, TypeOK
<1>6. TypeOK'
  BY <1>1, <1>2, <1>4, <1>5 DEF Ordinary, MotionInv, TypeOK
<1>7. StatesAgree' /\ ReleaseVerified'
  BY <1>4, <1>5 DEF StatesAgree, ReleaseVerified, Owning
<1>8. Supports'
  BY <1>1, <1>2, <1>4, <1>5 DEF Supports, Owning
<1> QED BY <1>2, <1>6, <1>7, <1>8 DEF MotionInv

\* The owner c of this moment: the one before the step, or the one a tick left.
Current(c) ==
    /\ c \in Controller
    /\ (c.target # None) <=> (c.state = "following")
    /\ \/ c.state = ctl.state
       \/ ctl.state \in {"moving", "stopping"} /\ c.state = "hold"

\* A rejection, the first one or the one that gives the motion up.
LEMMA RejectedKeeps ==
    ASSUME MotionInv, Ordinary, Owning, NEW c, Current(c), Rejected(c),
           motion' = motion
    PROVE  MotionInv'
<1>1. closing' = closing /\ closing.at = "no" /\ teleop # "closed"
  BY DEF Ordinary, MotionInv, Supports
<1>2. c \in Controller /\ port.halted \in BOOLEAN /\ (c.state = "following") \in BOOLEAN
  BY DEF Current, MotionInv, TypeOK
<1>3. motion' \in {"none", "moveJ", "servoJ", "stop"}
  BY DEF MotionInv, TypeOK
<1>4. ASSUME TransportStop(c.state = "following")
      PROVE  /\ port' \in [halted : BOOLEAN, protected : BOOLEAN, staged : Grasp]
             /\ stop' \in [phase : {"none", "started", "braking", "done"},
                           servo : BOOLEAN, error : BOOLEAN]
             /\ tool' \in [pending : Grasp, taken : Grasp, error : BOOLEAN,
                           done : BOOLEAN]
             /\ StopEffective' /\ ToolRevoked'
             /\ stop'.phase = "braking" => motion' \in {"stop", "none"}
             /\ port'.halted
  <2>1. TypeOK
    BY DEF MotionInv
  <2>2. StopRequested(port.halted)
    BY <1>2, <1>4, <2>1, StopEffect
  <2> QED BY <1>1, <1>2, <1>3, <2>2, StopKeeps
<1>5. CASE available = "rejected"
  <2>1. /\ available' = "lost" /\ ctl' = Faulted(c)
        /\ TransportStop(c.state = "following")
        /\ UNCHANGED <<teleop, input>>
    BY <1>5 DEF Rejected
  <2>2. ctl' \in Controller /\ ctl'.state = "fault" /\ ctl'.target = None
    BY <1>2, <2>1, FaultedOwner
  <2>3. TypeOK'
    BY <1>1, <1>3, <1>4, <2>1, <2>2 DEF Ordinary, MotionInv, TypeOK
  <2>4. StatesAgree' /\ ReleaseVerified'
    BY <1>1, <2>1, <2>2 DEF StatesAgree, ReleaseVerified, Owning
  <2>5. Supports'
    BY <1>1, <1>4, <2>1, <2>2 DEF Supports, Owning
  <2> QED BY <1>4, <2>1, <2>3, <2>4, <2>5 DEF MotionInv
<1>6. CASE available # "rejected" /\ RestsAlready
  <2>1. /\ available' = "rejected" /\ ctl' = c
        /\ UNCHANGED <<teleop, input, port, stop, tool>>
    BY <1>6 DEF Rejected
  <2>2. /\ teleop \in {"stopping", "held"}
        /\ ctl.state \in {"hold", "stopping"} /\ c.state \in {"hold", "stopping"}
        /\ c.state = "stopping" => ctl.state = "stopping" /\ teleop = "stopping"
    BY <1>6, <1>1 DEF RestsAlready, MotionInv, StatesAgree, Owning, Current
  <2>3. TypeOK'
    BY <1>1, <1>2, <1>3, <2>1 DEF Ordinary, MotionInv, TypeOK, Current
  <2>4. StatesAgree' /\ ReleaseVerified'
    BY <1>1, <2>1, <2>2 DEF MotionInv, StatesAgree, ReleaseVerified, Owning
  <2>5. StopEffective'
    BY <2>1, <2>2 DEF MotionInv, StopEffective
  <2>6. ToolRevoked'
    BY <2>1, <2>2 DEF MotionInv, ToolRevoked, Following
  <2>7. Supports'
    BY <1>1, <2>1, <2>2 DEF MotionInv, Supports, Owning
  <2> QED BY <2>3, <2>4, <2>5, <2>6, <2>7 DEF MotionInv
<1>7. CASE available # "rejected" /\ ~RestsAlready
  <2>1. /\ available' = "rejected" /\ ctl' = Halted(c) /\ InputClosed
        /\ TransportStop(c.state = "following")
        /\ teleop' = "stopping"
    BY <1>7 DEF Rejected
  <2>2. ctl' \in Controller /\ ctl'.state = "stopping" /\ ctl'.target = None
    BY <1>2, <2>1, HaltedOwner
  <2>3. input' \in {"none", "closed"}
    BY <2>1 DEF InputClosed
  <2>4. TypeOK'
    BY <1>1, <1>3, <1>4, <2>1, <2>2, <2>3 DEF Ordinary, MotionInv, TypeOK
  <2>5. StatesAgree' /\ ReleaseVerified'
    BY <1>1, <2>1, <2>2, <2>3 DEF StatesAgree, ReleaseVerified, Owning
  <2>6. Supports'
    BY <1>1, <1>4, <2>1, <2>2 DEF Supports, Owning
  <2> QED BY <1>4, <2>1, <2>4, <2>5, <2>6 DEF MotionInv
<1> QED BY <1>5, <1>6, <1>7

-----------------------------------------------------------------------------
(* Every action keeps the invariant.                                       *)

LEMMA Issues == Kicks \subseteq {"kick"} /\ (Kicks # {} => ~StopActive)
BY DEF Kicks

\* A pass that ends quietly: the owner is the one the tick left, or it begins
\* or goes on following; the arm and the tool are left alone.
LEMMA QuietKeeps ==
    ASSUME MotionInv, Ordinary, Owning, NEW c, Current(c),
           UNCHANGED <<available, port, stop, tool, motion>>,
           ctl' \in Controller,
           (ctl'.target # None) <=> (ctl'.state = "following"),
           \/ /\ ctl'.state = c.state /\ input' = input
              /\ teleop' = teleop \/ (teleop = "homing" /\ c.state = "hold" /\ teleop' = "ready")
                    \/ (teleop = "stopping" /\ c.state = "hold" /\ teleop' = "held")
                    \/ (teleop \in {"engaging", "waiting_leader"} /\ teleop' = "waiting_leader")
           \/ /\ teleop \in {"engaging", "waiting_leader"} /\ teleop' = "following"
              /\ ctl'.state = "following" /\ input' = "open"
    PROVE  MotionInv'
<1>1. closing' = closing /\ closing.at = "no" /\ teleop # "closed" /\ teleop' # "closed"
  BY DEF Ordinary, MotionInv, Supports
<1>2. /\ c.state = "following" <=> ctl.state = "following"
      /\ c.state = "moving" => ctl.state = "moving"
      /\ c.state = "stopping" => ctl.state = "stopping"
      /\ c.state \in {"hold", "moving", "following", "stopping"}
      /\ ctl.state = "moving" => c.state \in {"moving", "hold"}
      /\ ctl.state = "hold" => c.state = "hold"
  BY DEF Current, Owning
<1>3. TypeOK'
  BY <1>1 DEF Ordinary, MotionInv, TypeOK
<1>4. StatesAgree'
  BY <1>1, <1>2 DEF MotionInv, StatesAgree, Owning
<1>5. StopEffective'
  BY <1>2 DEF MotionInv, StatesAgree, StopEffective, Owning
<1>6. ToolRevoked'
  BY <1>2 DEF MotionInv, ToolRevoked, Following, StatesAgree, Owning
<1>7. ReleaseVerified'
  BY <1>1 DEF ReleaseVerified
<1>8. Supports'
  BY <1>1, <1>2 DEF MotionInv, Supports, Owning, Following
<1> QED BY <1>3, <1>4, <1>5, <1>6, <1>7, <1>8 DEF MotionInv

LEMMA StepFaultsKeeps == ASSUME MotionInv, StepFaults PROVE MotionInv'
<1>1. /\ Ordinary /\ Blocked /\ motion' = motion
      /\ TransportStop(Following)
  BY Issues DEF StepFaults, Stepping, Ordinary, MotionInv, TypeOK
<1>2. TypeOK /\ port.halted \in BOOLEAN /\ Following \in BOOLEAN
      /\ motion \in {"none", "moveJ", "servoJ", "stop"}
  BY DEF MotionInv, TypeOK, Following
<1>3. StopRequested(port.halted)
  BY <1>1, <1>2, StopEffect
<1> QED BY <1>1, <1>2, <1>3, BlockedKeeps

LEMMA StepProtectedKeeps == ASSUME MotionInv, StepProtected PROVE MotionInv'
<1>1. /\ Ordinary /\ Blocked /\ UNCHANGED <<stop, motion>>
      /\ port' = [Stopped(port) EXCEPT !.protected = TRUE] /\ tool' = Held(tool)
  BY DEF StepProtected, Stepping, Ordinary, MotionInv, TypeOK
<1>2. closing' = closing /\ closing.at = "no" /\ teleop # "closed"
  BY <1>1 DEF Ordinary, MotionInv, Supports
<1>3. ctl' \in Controller /\ ctl'.state = "fault" /\ ctl'.target = None
  BY <1>1, FaultedOwner DEF Blocked, MotionInv, TypeOK
<1>4. /\ port' \in [halted : BOOLEAN, protected : BOOLEAN, staged : Grasp]
      /\ port'.halted /\ port'.protected /\ port'.staged = None
  BY <1>1 DEF Stopped, Grasp
<1>5. tool \in [pending : Grasp, taken : Grasp, error : BOOLEAN, done : BOOLEAN]
      /\ None \in Grasp
  BY DEF MotionInv, TypeOK, Grasp
<1>6. /\ tool' \in [pending : Grasp, taken : Grasp, error : BOOLEAN, done : BOOLEAN]
      /\ tool'.pending = None
  BY <1>1, <1>5 DEF Held
<1>7. /\ teleop' \in {"needs_home", "homing", "ready", "engaging", "waiting_leader",
                      "following", "stopping", "held", "blocked", "closed"}
      /\ input' \in {"none", "open", "closed"}
      /\ teleop' # "closed" /\ available' = "lost"
  BY <1>1, <1>2 DEF Blocked, InputClosed, MotionInv, TypeOK
<1>8. TypeOK'
  BY <1>1, <1>2, <1>3, <1>4, <1>6, <1>7 DEF Ordinary, MotionInv, TypeOK
<1>9. StatesAgree' /\ ReleaseVerified' /\ StopEffective'
  BY <1>3, <1>4, <1>7 DEF StatesAgree, ReleaseVerified, StopEffective, Owning
<1>10. ToolRevoked'
  BY <1>4, <1>6, MotionAssumption DEF ToolRevoked
<1>11. Supports'
  BY <1>1, <1>2, <1>3, <1>7 DEF MotionInv, Supports, Owning
<1> QED BY <1>8, <1>9, <1>10, <1>11 DEF MotionInv

\* A pass in which the tick succeeded.
LEMMA TickedPass ==
    ASSUME MotionInv, NEW d \in Passes, NEW s \in Samples,
           NEW c, c = Settled(Aged(d, s), s), Ticked(d, s, c)
    PROVE  Current(c) /\ Owning /\ gripLeft' \in -1 .. OpenTimeout /\ closing.at = "no"
BY TickedOwner DEF MotionInv, Current, Ticked, Stepping

LEMMA StepRejectedKeeps == ASSUME MotionInv, StepRejected PROVE MotionInv'
<1>1. PICK d \in Passes, s \in Samples :
          \E c \in {Settled(Aged(d, s), s)} : Ticked(d, s, c) /\ Rejected(c)
  BY DEF StepRejected
<1>2. PICK c : c = Settled(Aged(d, s), s) /\ Ticked(d, s, c) /\ Rejected(c)
  BY <1>1
<1>3. Current(c) /\ Owning /\ gripLeft' \in -1 .. OpenTimeout /\ closing.at = "no"
  BY <1>2, TickedPass
<1>4. Ordinary /\ motion' = motion
  BY <1>3, Issues DEF StepRejected, Ordinary
<1> QED BY <1>2, <1>3, <1>4, RejectedKeeps

LEMMA StepRestsKeeps == ASSUME MotionInv, StepRests PROVE MotionInv'
<1>1. PICK d \in Passes, s \in Samples :
          \E c \in {Settled(Aged(d, s), s)} :
             Ticked(d, s, c) /\ ctl' = c /\ teleop' = Arrived(c, s)
  BY DEF StepRests
<1>2. PICK c : /\ c = Settled(Aged(d, s), s) /\ Ticked(d, s, c)
               /\ ctl' = c /\ teleop' = Arrived(c, s)
  BY <1>1
<1>3. Current(c) /\ Owning /\ gripLeft' \in -1 .. OpenTimeout /\ closing.at = "no"
  BY <1>2, TickedPass
<1>4. Ordinary /\ UNCHANGED <<input, available, port, stop, tool, motion>>
  BY <1>3, Issues DEF StepRests, Ordinary, Ports
<1>5. \/ teleop' = teleop
      \/ teleop = "homing" /\ c.state = "hold" /\ teleop' = "ready"
      \/ teleop = "stopping" /\ c.state = "hold" /\ teleop' = "held"
  BY <1>2 DEF Arrived
<1> QED BY <1>2, <1>3, <1>4, <1>5, QuietKeeps DEF Current

LEMMA StepUnsteadyKeeps == ASSUME MotionInv, StepUnsteady PROVE MotionInv'
<1>1. PICK d \in Passes, s \in Samples :
          \E c \in {Settled(Aged(d, s), s)} : Ticked(d, s, c) /\ ctl' = c
  BY DEF StepUnsteady
<1>2. PICK c : c = Settled(Aged(d, s), s) /\ Ticked(d, s, c) /\ ctl' = c
  BY <1>1
<1>3. Current(c) /\ Owning /\ gripLeft' \in -1 .. OpenTimeout /\ closing.at = "no"
  BY <1>2, TickedPass
<1>4. /\ Ordinary /\ UNCHANGED <<input, available, port, stop, tool, motion>>
      /\ teleop \in {"engaging", "waiting_leader"} /\ teleop' = "waiting_leader"
  BY <1>3, Issues DEF StepUnsteady, Ordinary, Ports, Engaging
<1> QED BY <1>2, <1>3, <1>4, QuietKeeps DEF Current

LEMMA StepEngagesKeeps == ASSUME MotionInv, StepEngages PROVE MotionInv'
<1>1. PICK d \in Passes, s \in Samples :
          \E c \in {Settled(Aged(d, s), s)} :
             /\ Ticked(d, s, c)
             /\ IF s.ready /\ s.slow
                THEN /\ input' = "open"
                     /\ teleop' = "following"
                     /\ ctl' = [c EXCEPT !.state = "following", !.target = 0]
                     /\ UNCHANGED <<available, Ports>>
                ELSE Blocked /\ TransportStop(FALSE)
  BY DEF StepEngages
<1>2. PICK c :
         /\ c = Settled(Aged(d, s), s) /\ Ticked(d, s, c)
         /\ \/ /\ input' = "open" /\ teleop' = "following"
               /\ ctl' = [c EXCEPT !.state = "following", !.target = 0]
               /\ UNCHANGED <<available, port, stop, tool>>
            \/ Blocked /\ TransportStop(FALSE)
  BY <1>1 DEF Ports
<1>3. Current(c) /\ Owning /\ gripLeft' \in -1 .. OpenTimeout /\ closing.at = "no"
  BY <1>2, TickedPass
<1>4. Ordinary /\ motion' = motion /\ teleop \in {"engaging", "waiting_leader"}
  BY <1>3, Issues DEF StepEngages, Ordinary, Engaging
<1>5. CASE /\ input' = "open" /\ teleop' = "following"
           /\ ctl' = [c EXCEPT !.state = "following", !.target = 0]
           /\ UNCHANGED <<available, port, stop, tool>>
  <2>1. c \in Controller /\ "following" \in OwnerStates
    BY <1>3 DEF Current, OwnerStates
  <2>2. ctl' \in Controller /\ ctl'.state = "following" /\ ctl'.target = 0
    BY <1>5, <2>1, AimedOwner
  <2>3. 0 # None
    BY MotionAssumption
  <2> QED BY <1>3, <1>4, <1>5, <2>2, <2>3, QuietKeeps
<1>6. CASE Blocked /\ TransportStop(FALSE)
  <2>1. TypeOK /\ port.halted \in BOOLEAN /\ motion \in {"none", "moveJ", "servoJ", "stop"}
    BY DEF MotionInv, TypeOK
  <2>2. StopRequested(port.halted)
    BY <1>6, <2>1, StopEffect
  <2> QED BY <1>4, <1>6, <2>1, <2>2, BlockedKeeps
<1> QED BY <1>2, <1>5, <1>6

LEMMA StepFollowsKeeps == ASSUME MotionInv, StepFollows PROVE MotionInv'
<1>1. PICK d \in Passes, s \in Samples :
          \E c \in {Settled(Aged(d, s), s)} :
             Ticked(d, s, c) /\ ctl' = [c EXCEPT !.target = 0]
  BY DEF StepFollows
<1>2. PICK c : /\ c = Settled(Aged(d, s), s) /\ Ticked(d, s, c)
               /\ ctl' = [c EXCEPT !.target = 0]
  BY <1>1
<1>3. Current(c) /\ Owning /\ gripLeft' \in -1 .. OpenTimeout /\ closing.at = "no"
  BY <1>2, TickedPass
<1>4. PICK grasp \in Grasps :
          /\ port' = [port EXCEPT !.halted = FALSE, !.staged = grasp]
          /\ tool' = [tool EXCEPT !.pending = grasp]
  BY DEF StepFollows
<1>5. /\ Ordinary /\ UNCHANGED <<teleop, input, available, stop>>
      /\ teleop = "following" /\ motion' = "servoJ" /\ ~StopActive
  BY <1>3, Issues DEF StepFollows, Ordinary
<1>6. ctl.state = "following" /\ c.state = "following"
  BY <1>3, <1>5 DEF MotionInv, StatesAgree, Current
<1>7. ctl' \in Controller /\ ctl'.state = "following" /\ ctl'.target = 0
  <2>1. c \in Controller /\ 0 \in Ages
    BY <1>3, SettlingAssumption DEF Current, Ages
  <2> QED BY <1>2, <1>6, <2>1 DEF Controller
<1>8. /\ port' \in [halted : BOOLEAN, protected : BOOLEAN, staged : Grasp]
      /\ ~port'.halted /\ port'.protected = port.protected
      /\ tool' \in [pending : Grasp, taken : Grasp, error : BOOLEAN, done : BOOLEAN]
  <2>1. /\ port \in [halted : BOOLEAN, protected : BOOLEAN, staged : Grasp]
        /\ tool \in [pending : Grasp, taken : Grasp, error : BOOLEAN, done : BOOLEAN]
        /\ grasp \in Grasp
    BY DEF MotionInv, TypeOK, Grasp
  <2> QED BY <1>4, <2>1
<1>9. 0 # None
  BY MotionAssumption
<1>10. TypeOK'
  BY <1>5, <1>7, <1>8, <1>9 DEF Ordinary, MotionInv, TypeOK
<1>11. StatesAgree' /\ ReleaseVerified'
  BY <1>5, <1>6, <1>7 DEF Ordinary, MotionInv, StatesAgree, ReleaseVerified, Owning
<1>12. StopEffective' /\ ToolRevoked'
  BY <1>7, <1>8 DEF StopEffective, ToolRevoked, Following
<1>13. Supports'
  BY <1>5, <1>8 DEF Ordinary, MotionInv, Supports, StopActive
<1> QED BY <1>10, <1>11, <1>12, <1>13 DEF MotionInv

LEMMA StepRefusedKeeps == ASSUME MotionInv, StepRefused PROVE MotionInv'
<1>1. PICK d \in Passes, s \in Samples : Ticked(d, s, Settled(Aged(d, s), s))
  BY DEF StepRefused
<1>2. Owning /\ gripLeft' \in -1 .. OpenTimeout /\ closing.at = "no"
  BY <1>1, TickedPass
<1>3. PICK accepted \in BOOLEAN :
          /\ accepted => ~StopActive
          /\ IF accepted THEN TransportStopAfter(TRUE) ELSE TransportStop(TRUE)
          /\ motion' = IF accepted THEN "servoJ" ELSE motion
          /\ issued' = Kicks \cup IF accepted THEN {"servoJ"} ELSE {}
  BY DEF StepRefused
<1>4. Ordinary /\ Blocked
  BY <1>2, <1>3, Issues DEF StepRefused, Ordinary
<1>5. TypeOK /\ port.halted \in BOOLEAN /\ motion \in {"none", "moveJ", "servoJ", "stop"}
  BY DEF MotionInv, TypeOK
<1>6. CASE accepted
  BY <1>3, <1>4, <1>5, <1>6, StopEffect, BlockedKeeps
<1>7. CASE ~accepted
  BY <1>3, <1>4, <1>5, <1>7, StopEffect, BlockedKeeps
<1> QED BY <1>6, <1>7

-----------------------------------------------------------------------------
(* Keys and the session above.                                             *)

LEMMA KeyHomeKeeps == ASSUME MotionInv, KeyHome PROVE MotionInv'
<1>1. /\ ctl \in Controller /\ ctl.state = "hold" /\ ctl.target = None
      /\ MoveTimeout \in -1 .. (StopTimeout + MoveTimeout)
      /\ OpenTimeout \in -1 .. OpenTimeout
      /\ port \in [halted : BOOLEAN, protected : BOOLEAN, staged : Grasp]
      /\ tool \in [pending : Grasp, taken : Grasp, error : BOOLEAN, done : BOOLEAN]
      /\ "open" \in Grasp
  BY MotionAssumption DEF KeyHome, MotionInv, TypeOK, Grasp, Grasps
<1>2. ctl' \in Controller /\ ctl'.state = "moving" /\ ctl'.target = None
  BY <1>1 DEF KeyHome, Controller, OwnerStates
<1>3. /\ port' \in [halted : BOOLEAN, protected : BOOLEAN, staged : Grasp]
      /\ ~port'.halted /\ port'.staged = "open"
      /\ tool' \in [pending : Grasp, taken : Grasp, error : BOOLEAN, done : BOOLEAN]
      /\ tool'.pending = "open"
  BY <1>1 DEF KeyHome
<1>4. /\ closing' = closing /\ closing.at = "no" /\ teleop' = "homing"
      /\ teleop \in {"needs_home", "held"} /\ input' = input /\ stop' = stop
      /\ motion' = "moveJ" /\ ~StopActive
  BY DEF KeyHome, Keyed
<1>5. TypeOK'
  BY <1>1, <1>2, <1>3, <1>4 DEF KeyHome, MotionInv, TypeOK
<1>6. StatesAgree' /\ ReleaseVerified'
  BY <1>1, <1>2, <1>4 DEF MotionInv, StatesAgree, ReleaseVerified, Owning
<1>7. StopEffective' /\ ToolRevoked'
  BY <1>2, <1>3 DEF StopEffective, ToolRevoked
<1>8. Supports'
  BY <1>2, <1>3, <1>4 DEF MotionInv, Supports, StopActive
<1> QED BY <1>5, <1>6, <1>7, <1>8 DEF MotionInv

LEMMA KeyHomeFaultsKeeps == ASSUME MotionInv, KeyHomeFaults PROVE MotionInv'
<1>1. PICK sent, accepted \in BOOLEAN :
          /\ accepted => sent
          /\ sent => ~StopActive
          /\ Blocked
          /\ IF sent THEN TransportStopAfter(FALSE) ELSE TransportStop(FALSE)
          /\ motion' = IF accepted THEN "moveJ" ELSE motion
          /\ issued' = IF sent THEN {"moveJ"} ELSE {}
  BY DEF KeyHomeFaults
<1>2. /\ TypeOK /\ port.halted \in BOOLEAN
      /\ motion \in {"none", "moveJ", "servoJ", "stop"}
  BY DEF MotionInv, TypeOK
<1>3. Ordinary
  BY <1>1, <1>2 DEF KeyHomeFaults, Keyed, Ordinary, TypeOK
<1>4. CASE sent
  BY <1>1, <1>2, <1>3, <1>4, StopEffect, BlockedKeeps
<1>5. CASE ~sent
  BY <1>1, <1>2, <1>3, <1>5, StopEffect, BlockedKeeps
<1> QED BY <1>4, <1>5

\* The owner itself is current.
LEMMA OwnerCurrent == ASSUME MotionInv PROVE Current(ctl)
BY DEF MotionInv, TypeOK, Current

LEMMA SessionErrorsKeep ==
    ASSUME MotionInv, KeyHomeEarly \/ SessionRejects
    PROVE  MotionInv'
<1>1. /\ Owning /\ Ordinary /\ Rejected(ctl) /\ motion' = motion
  BY DEF KeyHomeEarly, SessionRejects, Keyed, Owning, Ordinary, MotionInv, TypeOK
<1> QED BY <1>1, OwnerCurrent, RejectedKeeps

LEMMA KeysKeep ==
    ASSUME MotionInv, KeyStarts \/ KeyWithdraws \/ SessionResumes
    PROVE  MotionInv'
<1>1. /\ UNCHANGED <<input, gripLeft, ctl, port, stop, tool, motion, closing>>
      /\ closing.at = "no" /\ issued' = {}
      /\ available' \in {"active", "rejected", "lost"}
      /\ \/ teleop' = teleop
         \/ teleop = "ready" /\ teleop' = "engaging"
         \/ teleop \in {"engaging", "waiting_leader"} /\ teleop' = "ready"
  BY DEF KeyStarts, KeyWithdraws, SessionResumes, Keyed, Ports, MotionInv, TypeOK
<1>2. TypeOK'
  BY <1>1 DEF MotionInv, TypeOK
<1>3. StatesAgree' /\ StopEffective' /\ ToolRevoked'
  BY <1>1 DEF MotionInv, StatesAgree, StopEffective, ToolRevoked, Owning, Following
<1>4. ReleaseVerified' /\ Supports'
  BY <1>1 DEF MotionInv, ReleaseVerified, Supports, Owning, Following, Joined
<1> QED BY <1>2, <1>3, <1>4 DEF MotionInv

LEMMA StopsKeep == ASSUME MotionInv, Stops PROVE MotionInv'
<1>1. /\ TypeOK /\ port.halted \in BOOLEAN /\ Following \in BOOLEAN
      /\ ctl \in Controller /\ motion \in {"none", "moveJ", "servoJ", "stop"}
  BY DEF MotionInv, TypeOK, Following
<1>2. /\ closing' = closing /\ closing.at = "no" /\ ctl' = Halted(ctl)
      /\ TransportStop(Following) /\ teleop' = "stopping" /\ InputClosed
      /\ UNCHANGED <<gripLeft, available, motion>> /\ issued' = {}
  BY DEF Stops, Keyed
<1>3. StopRequested(port.halted)
  BY <1>1, <1>2, StopEffect
<1>4. /\ port' \in [halted : BOOLEAN, protected : BOOLEAN, staged : Grasp]
      /\ stop' \in [phase : {"none", "started", "braking", "done"},
                    servo : BOOLEAN, error : BOOLEAN]
      /\ tool' \in [pending : Grasp, taken : Grasp, error : BOOLEAN, done : BOOLEAN]
      /\ StopEffective' /\ ToolRevoked'
      /\ stop'.phase = "braking" => motion' \in {"stop", "none"}
  BY <1>1, <1>2, <1>3, StopKeeps
<1>5. ctl' \in Controller /\ ctl'.state = "stopping" /\ ctl'.target = None
  BY <1>1, <1>2, HaltedOwner
<1>6. input' \in {"none", "closed"}
  BY <1>2 DEF InputClosed
<1>7. TypeOK'
  BY <1>2, <1>4, <1>5, <1>6 DEF MotionInv, TypeOK
<1>8. StatesAgree' /\ ReleaseVerified'
  BY <1>2, <1>5, <1>6 DEF StatesAgree, ReleaseVerified, Owning
<1>9. Supports'
  BY <1>2, <1>4 DEF MotionInv, Supports
<1> QED BY <1>4, <1>7, <1>8, <1>9 DEF MotionInv

-----------------------------------------------------------------------------
(* Close.                                                                  *)

Closing ==
    [at : {"no", "observe", "confirm", "release", "hold", "cleanup", "done", "failed"},
     window : Window, left : -1 .. StopTimeout, raised : BOOLEAN]

LEMMA CloseBeginsKeeps == ASSUME MotionInv, CloseBegins PROVE MotionInv'
<1>1. /\ TypeOK /\ closing \in Closing /\ closing.at = "no"
      /\ port.halted \in BOOLEAN /\ Following \in BOOLEAN /\ ctl \in Controller
      /\ motion' = motion /\ motion \in {"none", "moveJ", "servoJ", "stop"}
      /\ UNCHANGED <<teleop, gripLeft, available>> /\ issued' = {}
      /\ teleop # "closed"
  BY DEF CloseBegins, MotionInv, TypeOK, Following, Closing, Supports
<1>2. closing' \in Closing /\ closing'.at = "observe"
  BY <1>1 DEF CloseBegins, Closing
<1>3. input' \in {"none", "open", "closed"}
  BY <1>1 DEF CloseBegins, InputClosed, TypeOK
<1>4. CASE ctl.state \in {"hold", "fault"} /\ UNCHANGED <<ctl, port, stop, tool>>
  <2>1. TypeOK'
    BY <1>1, <1>2, <1>3, <1>4 DEF TypeOK, Closing
  <2>2. StatesAgree' /\ StopEffective' /\ ToolRevoked'
    BY <1>1, <1>2, <1>4 DEF MotionInv, StatesAgree, StopEffective, ToolRevoked,
       Owning, Following
  <2>3. ReleaseVerified' /\ Supports'
    BY <1>1, <1>2, <1>4 DEF MotionInv, ReleaseVerified, Supports, Owning, Following
  <2> QED BY <2>1, <2>2, <2>3 DEF MotionInv
<1>5. CASE ctl' = Faulted(ctl) /\ TransportStop(Following)
  <2>1. StopRequested(port.halted)
    BY <1>1, <1>5, StopEffect
  <2>2. ctl' \in Controller /\ ctl'.state = "fault" /\ ctl'.target = None
    BY <1>1, <1>5, FaultedOwner
  <2>3. /\ port' \in [halted : BOOLEAN, protected : BOOLEAN, staged : Grasp]
        /\ stop' \in [phase : {"none", "started", "braking", "done"},
                      servo : BOOLEAN, error : BOOLEAN]
        /\ tool' \in [pending : Grasp, taken : Grasp, error : BOOLEAN, done : BOOLEAN]
        /\ StopEffective' /\ ToolRevoked'
        /\ stop'.phase = "braking" => motion' \in {"stop", "none"}
    BY <1>1, <2>1, StopKeeps
  <2>4. TypeOK'
    BY <1>1, <1>2, <1>3, <2>2, <2>3 DEF TypeOK, Closing
  <2>5. StatesAgree' /\ ReleaseVerified' /\ Supports'
    BY <1>1, <1>2, <2>2, <2>3 DEF StatesAgree, ReleaseVerified, Supports, Owning, Following
  <2> QED BY <2>3, <2>4, <2>5 DEF MotionInv
<1> QED BY <1>4, <1>5 DEF CloseBegins

LEMMA CloseObservesKeeps == ASSUME MotionInv, CloseObserves PROVE MotionInv'
<1>1. PICK protected \in BOOLEAN :
          /\ port.protected => protected
          /\ port' = [port EXCEPT !.halted = TRUE, !.protected = protected]
          /\ stop' = IF protected \/ port.halted THEN stop
                     ELSE [phase |-> "started", servo |-> FALSE, error |-> FALSE]
          /\ tool' = IF protected # port.protected \/ ~port.halted
                     THEN Held(tool) ELSE tool
  BY DEF CloseObserves
<1>2. /\ port \in [halted : BOOLEAN, protected : BOOLEAN, staged : Grasp]
      /\ stop \in [phase : {"none", "started", "braking", "done"},
                   servo : BOOLEAN, error : BOOLEAN]
      /\ tool \in [pending : Grasp, taken : Grasp, error : BOOLEAN, done : BOOLEAN]
      /\ closing \in Closing /\ closing.at = "observe"
      /\ StopTimeout \in -1 .. StopTimeout /\ None \in Grasp
      /\ UNCHANGED <<teleop, input, gripLeft, available, ctl, motion>>
      /\ teleop # "closed" /\ ~Following /\ issued' = {}
  BY MotionAssumption DEF CloseObserves, MotionInv, TypeOK, Closing, Supports, Grasp
<1>3. closing' \in Closing /\ closing'.at = "confirm"
  BY <1>2 DEF CloseObserves, Closing
<1>4. /\ port' \in [halted : BOOLEAN, protected : BOOLEAN, staged : Grasp]
      /\ port'.halted /\ (port.protected => port'.protected) /\ port'.staged = port.staged
  BY <1>1, <1>2
<1>5. /\ tool' \in [pending : Grasp, taken : Grasp, error : BOOLEAN, done : BOOLEAN]
      /\ tool'.pending \in {None, tool.pending}
      /\ tool'.pending = None
  <2>1. Held(tool) \in [pending : Grasp, taken : Grasp, error : BOOLEAN, done : BOOLEAN]
        /\ Held(tool).pending = None
    BY <1>2 DEF Held
  <2>2. port.halted => tool.pending = None
    BY DEF MotionInv, ToolRevoked
  <2> QED BY <1>1, <1>2, <2>1, <2>2
<1>6. stop' \in [phase : {"none", "started", "braking", "done"},
                 servo : BOOLEAN, error : BOOLEAN]
  BY <1>1, <1>2
<1>7. TypeOK'
  BY <1>2, <1>3, <1>4, <1>5, <1>6 DEF MotionInv, TypeOK, Closing
<1>8. StatesAgree' /\ ReleaseVerified'
  BY <1>2, <1>3 DEF MotionInv, StatesAgree, ReleaseVerified, Owning
<1>9. StopEffective'
  BY <1>1, <1>2, <1>4 DEF MotionInv, StopEffective
<1>10. ToolRevoked'
  BY <1>2, <1>4, <1>5, MotionAssumption DEF MotionInv, ToolRevoked, Following
<1>11. Supports'
  BY <1>1, <1>2, <1>3, <1>4 DEF MotionInv, Supports, Following
<1> QED BY <1>7, <1>8, <1>9, <1>10, <1>11 DEF MotionInv

LEMMA CloseWatchesKeeps == ASSUME MotionInv, CloseWatches PROVE MotionInv'
<1>1. PICK d \in Passes, advance \in Advances, slow \in BOOLEAN, protected \in BOOLEAN :
          LET w == Shifted(closing.window, <<advance, d>>)
          IN  /\ port.protected => protected
              /\ port' = [port EXCEPT !.protected = protected]
              /\ tool' = IF protected # port.protected THEN Held(tool) ELSE tool
              /\ issued' = IF protected THEN {} ELSE Kicks
              /\ closing' =
                    IF Confirms(w, Origin, slow)
                    THEN [closing EXCEPT !.at = "release", !.window = Fresher,
                                         !.left = 0]
                    ELSE [closing EXCEPT !.window = Kept(w, Origin, slow),
                                         !.left = Left(@, d)]
  BY DEF CloseWatches
<1>2. /\ port \in [halted : BOOLEAN, protected : BOOLEAN, staged : Grasp]
      /\ tool \in [pending : Grasp, taken : Grasp, error : BOOLEAN, done : BOOLEAN]
      /\ closing \in Closing /\ closing.at = "confirm" /\ None \in Grasp
      /\ UNCHANGED <<teleop, input, gripLeft, available, ctl, stop, motion>>
      /\ teleop # "closed" /\ port.halted /\ ~Following
  BY DEF CloseWatches, MotionInv, TypeOK, Closing, Supports, Grasp
<1>3. closing' \in Closing /\ closing'.at \in {"confirm", "release"}
  <2> DEFINE w == Shifted(closing.window, <<advance, d>>)
  <2>1. \A x \in Advances : x \in Int
    BY MotionAssumption
  <2>2. \A x \in Passes : x \in Int
    BY MotionAssumption
  <2>3. w \in Window
    BY <1>2, <2>1, <2>2, ShiftedWindow DEF Closing
  <2>4. Kept(w, Origin, slow) \in Window /\ Fresher \in Window
    BY <2>3, KeptWindow, FresherWindow
  <2>5. Left(closing.left, d) \in -1 .. StopTimeout /\ 0 \in -1 .. StopTimeout
    BY <1>2, Times, MotionAssumption DEF Closing
  <2>6. \/ closing' = [closing EXCEPT !.at = "release", !.window = Fresher, !.left = 0]
        \/ closing' = [closing EXCEPT !.window = Kept(w, Origin, slow),
                                      !.left = Left(closing.left, d)]
    BY <1>1
  <2> QED BY <1>2, <2>4, <2>5, <2>6 DEF Closing
<1>4. /\ port' \in [halted : BOOLEAN, protected : BOOLEAN, staged : Grasp]
      /\ port'.halted /\ (port.protected => port'.protected) /\ port'.staged = port.staged
  BY <1>1, <1>2
<1>5. /\ tool' \in [pending : Grasp, taken : Grasp, error : BOOLEAN, done : BOOLEAN]
      /\ tool'.pending \in {None, tool.pending}
  BY <1>1, <1>2 DEF Held
<1>6. issued' \subseteq {"kick"}
  BY <1>1, Issues
<1>7. TypeOK'
  BY <1>2, <1>3, <1>4, <1>5, <1>6 DEF MotionInv, TypeOK, Closing
<1>8. StatesAgree' /\ ReleaseVerified'
  BY <1>2, <1>3 DEF MotionInv, StatesAgree, ReleaseVerified, Owning
<1>9. StopEffective'
  BY <1>2, <1>4 DEF MotionInv, StopEffective
<1>10. ToolRevoked'
  BY <1>2, <1>4, <1>5, MotionAssumption DEF MotionInv, ToolRevoked, Following
<1>11. Supports'
  BY <1>2, <1>3, <1>4 DEF MotionInv, Supports, Following
<1> QED BY <1>7, <1>8, <1>9, <1>10, <1>11 DEF MotionInv

\* The steps that only move the place of the close.
LEMMA ClosePlaceKeeps ==
    ASSUME MotionInv, CloseReleases \/ CloseHeld \/ CloseRaises
    PROVE  MotionInv'
<1>1. /\ UNCHANGED <<teleop, input, gripLeft, available, ctl, port, stop, tool>>
      /\ closing.at \in {"observe", "confirm", "release", "hold"}
      /\ issued' \in {{}, {"stopScript"}} /\ motion' \in {"none", motion}
      /\ closing \in Closing /\ teleop # "closed" /\ ~Following
      /\ 0 \in -1 .. StopTimeout
  BY MotionAssumption DEF CloseReleases, CloseHeld, CloseRaises, MotionInv, TypeOK,
     Closing, Supports, Ports
<1>2. /\ closing' \in Closing
      /\ \/ closing'.at = "cleanup" /\ closing'.raised
         \/ closing'.at = "cleanup" /\ port.protected
         \/ closing'.at = "hold" /\ ~StopActive /\ ~stop.error /\ closing.at = "release"
         \/ closing'.at = "cleanup" /\ closing.at = "hold"
  BY <1>1, FresherWindow DEF CloseReleases, CloseHeld, CloseRaises, Closing, JoinFails
<1>3. closing'.at \in {"hold", "cleanup"} /\ closing'.at # "no"
  BY <1>2
<1>4. TypeOK'
  BY <1>1, <1>2 DEF MotionInv, TypeOK, Closing
<1>5. StatesAgree' /\ ToolRevoked' /\ ReleaseVerified' /\ StopEffective'
  BY <1>1, <1>3 DEF MotionInv, StatesAgree, ToolRevoked, ReleaseVerified,
     StopEffective, Owning, Following
<1>6. Joined' <=> Joined
  BY <1>1 DEF Joined
<1>7. closing'.at = "hold" \/ (closing'.at = "cleanup" /\ ~closing'.raised) => Joined
  <2>1. CASE closing'.at = "hold" /\ ~StopActive /\ ~stop.error /\ closing.at = "release"
    <3>1. stop.phase \in {"none", "started", "braking", "done"} /\ port.halted
      BY <2>1 DEF MotionInv, TypeOK, Supports
    <3> QED BY <2>1, <3>1 DEF MotionInv, StopEffective, StopActive, Joined
  <2>2. CASE closing'.at = "cleanup" /\ closing.at = "hold"
    BY <2>2 DEF MotionInv, Supports
  <2>3. CASE closing'.at = "cleanup" /\ port.protected
    BY <2>3 DEF Joined
  <2> QED BY <1>2, <2>1, <2>2, <2>3
<1>8. Supports'
  BY <1>1, <1>3, <1>6, <1>7 DEF MotionInv, Supports, Following
<1> QED BY <1>4, <1>5, <1>8 DEF MotionInv

LEMMA CloseCleansKeeps == ASSUME MotionInv, CloseCleans PROVE MotionInv'
<1>1. PICK skipped, raises \in BOOLEAN :
          /\ skipped => JoinFails
          /\ ~skipped => ~StopActive
          /\ LET raised == closing.raised \/ skipped \/ raises
                 released == ~skipped /\ ~port.protected
             IN  /\ closing' = [closing EXCEPT
                                   !.at = IF raised THEN "failed" ELSE "done",
                                   !.raised = raised]
                 /\ issued' \in IF released THEN {{}, {"stopScript"}} ELSE {{}}
                 /\ motion' = IF released THEN "none" ELSE motion
                 /\ IF raised THEN UNCHANGED <<ctl, teleop>>
                    ELSE /\ ctl' = [ctl EXCEPT !.state = "closed"]
                         /\ teleop' = "closed"
  BY DEF CloseCleans
<1> DEFINE raised == closing.raised \/ skipped \/ raises
<1>2. /\ tool \in [pending : Grasp, taken : Grasp, error : BOOLEAN, done : BOOLEAN]
      /\ closing \in Closing /\ closing.at = "cleanup" /\ None \in Grasp
      /\ closing.raised \in BOOLEAN
      /\ ctl \in Controller /\ ctl.state # "following" /\ ctl.target = None
      /\ UNCHANGED <<input, gripLeft, available, port, stop>>
      /\ teleop # "closed"
      /\ tool' = [Held(tool) EXCEPT !.done = TRUE]
  BY DEF CloseCleans, MotionInv, TypeOK, Closing, Supports, Grasp, Following
<1>3. /\ tool' \in [pending : Grasp, taken : Grasp, error : BOOLEAN, done : BOOLEAN]
      /\ tool'.done /\ tool'.pending = None
  BY <1>2 DEF Held
<1>4. raised \in BOOLEAN
  BY <1>2
<1>5. closing' = [closing EXCEPT !.at = IF raised THEN "failed" ELSE "done",
                                 !.raised = raised]
  BY <1>1
<1>6. /\ motion' \in {"none", motion} /\ issued' \in {{}, {"stopScript"}}
      /\ ~skipped /\ ~port.protected => motion' = "none"
  BY <1>1
<1>7. /\ closing' \in Closing /\ closing'.at \in {"done", "failed"}
      /\ closing'.at = "done" <=> ~raised
  BY <1>2, <1>4, <1>5 DEF Closing
<1>8. CASE raised
  <2>1. UNCHANGED <<ctl, teleop>>
    BY <1>1, <1>8
  <2>2. TypeOK'
    BY <1>2, <1>3, <1>6, <1>7, <2>1 DEF MotionInv, TypeOK, Closing
  <2>3. StatesAgree' /\ ToolRevoked' /\ ReleaseVerified' /\ StopEffective'
    BY <1>2, <1>3, <1>6, <1>7, <2>1, MotionAssumption DEF MotionInv, StatesAgree,
       ToolRevoked, ReleaseVerified, StopEffective, Owning, Following
  <2>4. Supports'
    BY <1>2, <1>6, <1>7, <2>1 DEF MotionInv, Supports, Following
  <2> QED BY <2>2, <2>3, <2>4 DEF MotionInv
<1>9. CASE ~raised
  <2>1. ctl' = [ctl EXCEPT !.state = "closed"] /\ teleop' = "closed"
    BY <1>1, <1>9
  <2>2. ctl' \in Controller /\ ctl'.state = "closed" /\ ctl'.target = None
    BY <1>2, <2>1 DEF Controller, OwnerStates
  <2>3. TypeOK'
    BY <1>2, <1>3, <1>6, <1>7, <2>1, <2>2 DEF MotionInv, TypeOK, Closing
  <2>4. port.protected \/ (stop.phase = "done" /\ ~stop.error /\ motion' = "none")
    BY <1>2, <1>6, <1>9 DEF MotionInv, Supports, Joined
  <2>5. StatesAgree' /\ ReleaseVerified'
    BY <1>2, <1>3, <2>2, <2>4 DEF StatesAgree, ReleaseVerified, Owning
  <2>6. StopEffective'
    BY <1>2, <1>6, <2>2 DEF MotionInv, StopEffective
  <2>7. ToolRevoked'
    BY <1>2, <1>3, MotionAssumption DEF MotionInv, ToolRevoked, Following
  <2>8. Supports'
    BY <1>2, <1>6, <1>7, <1>9, <2>2 DEF MotionInv, Supports, Following
  <2> QED BY <2>3, <2>5, <2>6, <2>7, <2>8 DEF MotionInv
<1> QED BY <1>8, <1>9

-----------------------------------------------------------------------------
(* The workers.                                                            *)

LEMMA StopWorkerKeeps == ASSUME MotionInv, StopWorker PROVE MotionInv'
<1>1. /\ UNCHANGED <<teleop, input, gripLeft, available, ctl, port, tool, closing>>
      /\ issued' = {} /\ StopActive
      /\ stop \in [phase : {"none", "started", "braking", "done"},
                   servo : BOOLEAN, error : BOOLEAN]
      /\ motion \in {"none", "moveJ", "servoJ", "stop"}
      /\ motion' \in {motion, "stop"}
      /\ StopDispatched \/ StopAcknowledged \/ StopFails
  BY DEF StopWorker, StopDispatched, StopAcknowledged, StopFails, StopActive,
     MotionInv, TypeOK
<1>2. /\ stop' \in [phase : {"none", "started", "braking", "done"},
                    servo : BOOLEAN, error : BOOLEAN]
      /\ stop'.phase \in {"braking", "done"}
      /\ stop'.phase = "braking" => motion' = "stop"
      /\ stop'.phase = "done" /\ ~stop'.error => stop.phase = "braking" /\ motion' = motion
  BY <1>1 DEF StopDispatched, StopAcknowledged, StopFails
<1>3. TypeOK'
  BY <1>1, <1>2 DEF MotionInv, TypeOK
<1>4. StatesAgree' /\ ToolRevoked'
  BY <1>1 DEF MotionInv, StatesAgree, ToolRevoked, Owning, Following
<1>5. StopEffective'
  BY <1>1, <1>2 DEF MotionInv, StopEffective, Supports
<1>6. Joined => Joined' /\ port.protected
  BY <1>1 DEF Joined, StopActive
<1>7. ReleaseVerified'
  BY <1>1 DEF MotionInv, ReleaseVerified, StopActive
<1>8. Supports'
  BY <1>1, <1>2, <1>6 DEF MotionInv, Supports, Owning, Following
<1> QED BY <1>3, <1>4, <1>5, <1>7, <1>8 DEF MotionInv

LEMMA ToolWorkerKeeps == ASSUME MotionInv, ToolWorker PROVE MotionInv'
<1>1. /\ UNCHANGED <<teleop, input, gripLeft, available, ctl, port, stop, motion, closing>>
      /\ issued' = {} /\ ~tool.done
      /\ tool \in [pending : Grasp, taken : Grasp, error : BOOLEAN, done : BOOLEAN]
      /\ None \in Grasp
      /\ ToolTakes \/ ToolMoves \/ ToolFails
  BY DEF ToolWorker, MotionInv, TypeOK, Grasp
<1>2. /\ tool' \in [pending : Grasp, taken : Grasp, error : BOOLEAN, done : BOOLEAN]
      /\ tool'.pending \in {None, tool.pending}
  BY <1>1 DEF ToolTakes, ToolMoves, ToolFails
<1>3. TypeOK'
  BY <1>1, <1>2 DEF MotionInv, TypeOK
<1>4. StatesAgree' /\ StopEffective'
  BY <1>1 DEF MotionInv, StatesAgree, StopEffective, Owning
<1>5. ToolRevoked'
  BY <1>1, <1>2, MotionAssumption DEF MotionInv, ToolRevoked, Following
<1>6. ReleaseVerified' /\ Supports'
  BY <1>1 DEF MotionInv, ReleaseVerified, Supports, Owning, Following, Joined
<1> QED BY <1>3, <1>4, <1>5, <1>6 DEF MotionInv

LEMMA InitKeeps == ASSUME Init PROVE MotionInv
<1>1. /\ 0 \in Ages /\ 0 \in -1 .. (StopTimeout + MoveTimeout)
      /\ 0 \in -1 .. OpenTimeout /\ 0 \in -1 .. StopTimeout
  BY MotionAssumption, SettlingAssumption DEF Ages
<1>2. ctl \in Controller /\ ctl.state = "hold" /\ ctl.target = None
  BY <1>1, FresherWindow DEF Init, Controller, OwnerStates
<1>3. /\ port \in [halted : BOOLEAN, protected : BOOLEAN, staged : Grasp]
      /\ stop \in [phase : {"none", "started", "braking", "done"},
                   servo : BOOLEAN, error : BOOLEAN]
      /\ tool \in [pending : Grasp, taken : Grasp, error : BOOLEAN, done : BOOLEAN]
      /\ closing \in Closing /\ closing.at = "no"
      /\ port.staged = None /\ tool.pending = None /\ ~port.halted
      /\ stop.phase = "none"
  BY <1>1, FresherWindow DEF Init, Grasp, Closing
<1>4. TypeOK
  BY <1>1, <1>2, <1>3 DEF Init, TypeOK, Closing
<1>5. StatesAgree /\ StopEffective /\ ReleaseVerified
  BY <1>2, <1>3 DEF Init, StatesAgree, StopEffective, ReleaseVerified, Owning
<1>6. ToolRevoked
  BY <1>3, MotionAssumption DEF ToolRevoked
<1>7. Supports
  BY <1>2, <1>3 DEF Init, Supports
<1> QED BY <1>4, <1>5, <1>6, <1>7 DEF MotionInv

\* Every step keeps the invariant, whichever action it is.
LEMMA NextKeeps == ASSUME MotionInv, [Next]_vars PROVE MotionInv'
<1>1. CASE Step
  BY <1>1, StepFaultsKeeps, StepProtectedKeeps, StepRejectedKeeps, StepRestsKeeps,
     StepUnsteadyKeeps, StepEngagesKeeps, StepFollowsKeeps, StepRefusedKeeps DEF Step
<1>2. CASE Operator
  BY <1>2, KeyHomeKeeps, KeyHomeFaultsKeeps, SessionErrorsKeep, KeysKeep, StopsKeep
     DEF Operator
<1>3. CASE CloseBegins
  BY <1>3, CloseBeginsKeeps
<1>4. CASE Close
  BY <1>4, CloseObservesKeeps, CloseWatchesKeeps, ClosePlaceKeeps, CloseCleansKeeps
     DEF Close
<1>5. CASE StopWorker
  BY <1>5, StopWorkerKeeps
<1>6. CASE ToolWorker
  BY <1>6, ToolWorkerKeeps
<1>7. CASE UNCHANGED vars
  <2>1. TypeOK' /\ StatesAgree' /\ StopEffective'
    BY <1>7 DEF vars, MotionInv, TypeOK, StatesAgree, StopEffective, Owning
  <2>2. ToolRevoked' /\ ReleaseVerified' /\ Supports'
    BY <1>7 DEF vars, MotionInv, ToolRevoked, ReleaseVerified, Supports, Owning,
       Following, Joined
  <2> QED BY <2>1, <2>2 DEF MotionInv
<1> QED BY <1>1, <1>2, <1>3, <1>4, <1>5, <1>6, <1>7 DEF Next

-----------------------------------------------------------------------------
(* Theorems.                                                               *)

\* The motion owner keeps the invariant: its types, the agreement of
\* Teleoperation with the Controller, the effect of every stop, the end of
\* staged tool work, and what a close that returns has behind it.
THEOREM MotionSafe == Spec => []MotionInv
<1>1. Init => MotionInv
  BY InitKeeps
<1>2. MotionInv /\ [Next]_vars => MotionInv'
  BY NextKeeps
<1> QED BY <1>1, <1>2, PTL DEF Spec

\* While the owner is not faulted, Teleoperation and Controller describe one
\* situation and the leader is bound exactly while the arm follows.
THEOREM AgreementHolds == Spec => []StatesAgree
<1>1. MotionInv => StatesAgree
  BY DEF MotionInv
<1> QED BY <1>1, MotionSafe, PTL

\* An arm that was told to stop was really told.
THEOREM StopsAreEffective == Spec => []StopEffective
<1>1. MotionInv => StopEffective
  BY DEF MotionInv
<1> QED BY <1>1, MotionSafe, PTL

\* No grasp of a stopped interval rides on a later HOME.
THEOREM ToolWorkIsRevoked == Spec => []ToolRevoked
<1>1. MotionInv => ToolRevoked
  BY DEF MotionInv
<1> QED BY <1>1, MotionSafe, PTL

\* A close that returns has an acknowledged or a protective stop behind it.
THEOREM ReleaseIsVerified == Spec => []ReleaseVerified
<1>1. MotionInv => ReleaseVerified
  BY DEF MotionInv
<1> QED BY <1>1, MotionSafe, PTL

\* The control thread never writes to the SDK while a stop worker is in it:
\* in every pass, key and step of close.
THEOREM SdkIsExclusive == Spec => SdkExclusive
<1>1. Next => (issued' # {} => ~StopActive)
  <2>1. Step => (issued' # {} => ~StopActive)
    BY Issues DEF Step, StepFaults, StepProtected, StepRejected, StepRests,
       StepUnsteady, StepEngages, StepFollows, StepRefused
  <2>2. Operator => (issued' # {} => ~StopActive)
    BY DEF Operator, KeyHome, KeyHomeFaults, KeyHomeEarly, KeyStarts, KeyWithdraws,
       Stops, SessionRejects, SessionResumes
  <2>3. CloseBegins \/ StopWorker \/ ToolWorker => issued' = {}
    BY DEF CloseBegins, StopWorker, ToolWorker
  <2>4. Close => (issued' # {} => ~StopActive)
    BY Issues DEF Close, CloseObserves, CloseWatches, CloseReleases, CloseHeld,
       CloseRaises, CloseCleans, JoinFails
  <2> QED BY <2>1, <2>2, <2>3, <2>4 DEF Next
<1>2. Spec => [][Next]_vars
  BY PTL DEF Spec
<1> QED BY <1>1, <1>2, PTL DEF SdkExclusive

\* Once stopped, the arm moves again only on a HOME asked for by a key in rest:
\* Supports excludes a halted arm in every state that could command it.
THEOREM StopThenOnlyHome == Spec => StopThenHome
<1> DEFINE Moves == port.halted /\ motion' \in {"moveJ", "servoJ"} =>
                       \/ motion' = motion
                       \/ motion' = "moveJ" /\ teleop \in {"needs_home", "held"}
<1>1. ASSUME MotionInv, Next PROVE Moves
  <2>1. CASE Step
    <3>1. motion' = motion \/ StepFollows \/ StepRefused
      BY <2>1 DEF Step, StepFaults, StepProtected, StepRejected, StepRests,
         StepUnsteady, StepEngages
    <3>2. StepFollows \/ StepRefused => ~port.halted
      BY <1>1 DEF StepFollows, StepRefused, Ticked, Stepping, MotionInv, Supports
    <3> QED BY <3>1, <3>2
  <2>2. CASE Operator
    BY <2>2 DEF Operator, KeyHome, KeyHomeFaults, KeyHomeEarly, KeyStarts,
       KeyWithdraws, Stops, SessionRejects, SessionResumes
  <2>3. CASE CloseBegins \/ ToolWorker \/ Close \/ StopWorker
    BY <2>3 DEF CloseBegins, ToolWorker, Close, StopWorker, CloseObserves, CloseWatches,
       CloseReleases, CloseHeld, CloseRaises, CloseCleans, StopDispatched,
       StopAcknowledged, StopFails
  <2> QED BY <1>1, <2>1, <2>2, <2>3 DEF Next
<1>2. Spec => []MotionInv /\ [][Next]_vars
  BY MotionSafe, PTL DEF Spec
<1> QED BY <1>1, <1>2, PTL DEF StopThenHome
===============================================================================
