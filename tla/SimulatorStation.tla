-------------------------- MODULE SimulatorStation --------------------------
(***************************************************************************)
(* simulation/connection.py under simulation/session.py: client processes  *)
(* that share one simulated robot.  A client takes the lease, brings the   *)
(* robot up, and then runs the native HOME program or uploads the script   *)
(* of the SDK, one after the other.  A native program is acknowledged at   *)
(* once and started a while later.  What the robot executes, or has still  *)
(* to start, survives its client: the native program until it has arrived, *)
(* a script until its watchdog misses the client.                          *)
(*                                                                         *)
(* A command to the robot with the checks before it is a step; between     *)
(* such steps the robot goes on and the other clients try.  A client may   *)
(* fail at every step, be killed, and be launched again.                   *)
(***************************************************************************)
EXTENDS Integers

CONSTANTS
    None,
    Clients,
    MaxLaunches \* bound: launches of each client

VARIABLES
    lease, \* who has the lock
    robot, \* its mode, what it executes and for whom, the program it has
           \* still to start, whether the arm is still
    client,\* each process: its place, Station.owner, NativeHome.state, the SDK
    stray  \* history: a client has held, given up or died on its HOME while
           \* the robot had still to start it

vars == <<lease, robot, client, stray>>

Outside(launches) ==
    [launches |-> launches, at |-> "out", owner |-> None, native |-> "idle", control |-> "none"]

Init ==
    /\ lease = None
    /\ robot \in [mode : {"off", "idle", "running"}, program : {None}, pending : {None}, still : {TRUE}]
    /\ client = [c \in Clients |-> Outside(0)]
    /\ stray = FALSE

At(c, at) == client[c].at = at
Client(c, f) == client' = [client EXCEPT ![c] = f]
Goes(c, at) == Client(c, [client[c] EXCEPT !.at = at])

-----------------------------------------------------------------------------
(* The robot.                                                               *)

Robot(r) == robot' = r /\ UNCHANGED <<lease, client, stray>>
Executes(kind) == robot.program # None /\ robot.program.kind = kind

PowersUp == robot.mode = "powering" /\ Robot([robot EXCEPT !.mode = "idle"])
BrakesRelease == robot.mode = "releasing" /\ Robot([robot EXCEPT !.mode = "running"])
ArmMoves == robot.program # None /\ robot.still /\ Robot([robot EXCEPT !.still = FALSE])
ArmSettles == robot.program = None /\ ~robot.still /\ Robot([robot EXCEPT !.still = TRUE])
HomeArrives == Executes("home") /\ Robot([robot EXCEPT !.program = None])

\* The program that play acknowledged is started, whatever runs by then.
Starts ==
    /\ robot.pending # None
    /\ Robot([robot EXCEPT !.program = robot.pending, !.pending = None])

\* A script whose client is not connected stops when it misses the watchdog.
WatchdogStops ==
    /\ Executes("script") /\ client[robot.program.by].control = "none"
    /\ Robot([robot EXCEPT !.program = None])

-----------------------------------------------------------------------------
(* open_station.                                                            *)

Leases(c) ==
    /\ At(c, "out") /\ client[c].launches < MaxLaunches
    /\ IF lease = None
       THEN lease' = c /\ Client(c, [client[c] EXCEPT !.at = "identify", !.launches = @ + 1])
       ELSE lease' = lease /\ Client(c, [client[c] EXCEPT !.launches = @ + 1])
    /\ UNCHANGED <<robot, stray>>

\* _initialize, its commands: one power on, one brake release, as needed.
PowersOn(c) ==
    /\ At(c, "identify") /\ robot.mode = "off"
    /\ robot' = [robot EXCEPT !.mode = "powering"] /\ Goes(c, "waiting")
    /\ UNCHANGED <<lease, stray>>

ReleasesBrake(c) ==
    /\ At(c, "identify") \/ At(c, "waiting")
    /\ robot.mode = "idle"
    /\ robot' = [robot EXCEPT !.mode = "releasing"] /\ Goes(c, "braking")
    /\ UNCHANGED <<lease, stray>>

\* The receiver is connected and the session is created.
Opens(c) ==
    /\ At(c, "identify") \/ At(c, "braking")
    /\ robot.mode = "running"
    /\ Goes(c, "session") /\ UNCHANGED <<lease, robot, stray>>

\* A check fails, a wait takes too long, the recorder does not start, or the
\* session ends with no program owned; the lease is the last to be closed.
Leaves(c) ==
    /\ ~At(c, "out") /\ client[c].owner = None
    /\ lease' = None /\ Client(c, Outside(client[c].launches))
    /\ UNCHANGED <<robot, stray>>

-----------------------------------------------------------------------------
(* Station.home.                                                            *)

Free(c) == At(c, "session") /\ client[c].owner = None

AcquiresHome(c) ==
    /\ Free(c) /\ Client(c, [client[c] EXCEPT !.owner = "home", !.native = "idle"])
    /\ UNCHANGED <<lease, robot, stray>>

Stopped == robot.still /\ robot.program = None
Program(kind, c) == [kind |-> kind, by |-> c]

\* NativeHome.start: a stopped arm, no program, load, no program, play, which
\* the robot acknowledges.
Plays(c) ==
    /\ client[c].owner = "home" /\ client[c].native = "idle" /\ Stopped
    /\ robot' = [robot EXCEPT !.pending = Program("home", c)]
    /\ Client(c, [client[c] EXCEPT !.native = "moving"])
    /\ UNCHANGED <<lease, stray>>

Underway(c) == client[c].owner = "home" /\ client[c].native \in {"moving", "stopping"}

\* The client is through with its HOME, or gone.
IsThrough(c) == stray' = (stray \/ robot'.pending = Program("home", c))

\* NativeHome.step has seen the arm at rest and no program run.
Holds(c) ==
    /\ Underway(c) /\ Stopped
    /\ Client(c, [client[c] EXCEPT !.native = "hold"]) /\ UNCHANGED <<lease, robot>>
    /\ IsThrough(c)

\* NativeHome.stop, asked for by the user, a failed step or close: the robot
\* answers Stopped, and may yet start what it has not, or it does not and the
\* program goes on.
StopsHome(c) ==
    /\ Underway(c)
    /\ robot' \in {robot, [robot EXCEPT !.program = None], [robot EXCEPT !.program = None, !.pending = None]}
    /\ \/ /\ robot'.program = None
          /\ Client(c, [client[c] EXCEPT !.native = "stopping"]) /\ UNCHANGED stray
       \/ Client(c, [client[c] EXCEPT !.native = "fault"]) /\ IsThrough(c)
    /\ UNCHANGED lease

\* The context ends after close, which has nothing more to cancel.  A HOME
\* that was not held is a fault of the session, which then only ends.
EndsHome(c) ==
    /\ client[c].owner = "home" /\ ~Underway(c)
    /\ Client(c, [client[c] EXCEPT !.owner = None, !.native = "idle",
                                   !.at = IF client[c].native = "hold" THEN "session" ELSE "fault"])
    /\ UNCHANGED <<lease, robot, stray>>

-----------------------------------------------------------------------------
(* Station.motion.                                                          *)

AcquiresMotion(c) ==
    /\ Free(c) /\ Client(c, [client[c] EXCEPT !.owner = "rtde"])
    /\ UNCHANGED <<lease, robot, stray>>

\* Mutant of MayUpload: the arm must stand still, whatever program runs.
MayUploadOver == robot.still

MayUpload == robot.program = None /\ robot.still

\* The checks, and the constructor that uploads the script over any program.
Uploads(c) ==
    /\ client[c].owner = "rtde" /\ client[c].control = "none" /\ MayUpload
    /\ robot' = [robot EXCEPT !.program = Program("script", c)]
    /\ Client(c, [client[c] EXCEPT !.control = "created"])
    /\ UNCHANGED <<lease, stray>>

Yields(c) ==
    /\ client[c].control = "created"
    /\ Client(c, [client[c] EXCEPT !.control = "watched"]) /\ UNCHANGED <<lease, robot, stray>>

\* The context ends, wherever it was: the script is stopped, if it runs and
\* the call does not raise, and the SDK is disconnected.
EndsMotion(c) ==
    /\ client[c].owner = "rtde"
    /\ Client(c, [client[c] EXCEPT !.owner = None, !.control = "none"])
    /\ \/ robot' = robot
       \/ /\ robot.program = Program("script", c) /\ client[c].control # "none"
          /\ robot' = [robot EXCEPT !.program = None]
    /\ UNCHANGED <<lease, stray>>

-----------------------------------------------------------------------------
\* The process is killed; the kernel lets go of the lock.
Dies(c) ==
    /\ ~At(c, "out") /\ lease' = None
    /\ Client(c, Outside(client[c].launches)) /\ UNCHANGED robot
    /\ IsThrough(c)

Next ==
    \/ PowersUp \/ BrakesRelease \/ ArmMoves \/ ArmSettles \/ Starts \/ HomeArrives \/ WatchdogStops
    \/ \E c \in Clients :
          \/ Leases(c) \/ PowersOn(c) \/ ReleasesBrake(c) \/ Opens(c) \/ Leaves(c)
          \/ AcquiresHome(c) \/ Plays(c) \/ Holds(c) \/ StopsHome(c) \/ EndsHome(c)
          \/ AcquiresMotion(c) \/ Uploads(c) \/ Yields(c) \/ EndsMotion(c) \/ Dies(c)

Spec == Init /\ [][Next]_vars

-----------------------------------------------------------------------------
(* Properties.                                                              *)

TypeOK ==
    /\ lease \in Clients \cup {None}
    /\ \A c \in Clients : client[c].owner \in {None, "home", "rtde"}

(* One client at a time is beyond the lease.  As long as no client was      *)
(* through with its HOME before the robot had started it, no program is     *)
(* started over another, whoever started that and however its client ended, *)
(* nor while the arm still moves; the SDK commands an arm that executes     *)
(* this client's script or nothing; and a client that goes on after HOME    *)
(* has left no program behind, running or still to start.  Nothing in the   *)
(* code keeps a client from being through too early: native_home shows one  *)
(* that holds, and a killed one leaves the next a program still to start.   *)
ProgramsExclusive ==
    [][/\ \A c \in Clients : client'[c].at # "out" => lease' = c
       /\ ~stray' =>
            /\ (robot'.program # None /\ robot'.program # robot.program) =>
                 robot.program = None /\ robot.still
            /\ \A c \in Clients : client'[c].control # "none" =>
                 robot'.program \in {None, Program("script", c)}
            /\ \A c \in Clients :
                 (client[c].owner = "home" /\ client'[c].owner = None /\ client'[c].at = "session") =>
                 robot.program = None /\ robot.pending = None]_vars
=============================================================================
