--------------------------- MODULE StationPrograms ---------------------------
(***************************************************************************)
(* The programs beside a collection session, one instance of each: the     *)
(* maintenance of the leader's motors, the simulator session, the station  *)
(* file and the calibrations that fill it, the simulated robot and its     *)
(* clients, and the programs that lease the station.  They share no state. *)
(***************************************************************************)
EXTENDS MaintenanceJournal, FiniteSets

CONSTANTS
    Nothing, \* None, in each of the modules
    \* SimulatorSession
    ReplyQueue, PlayDelay, MaxEpisodes,
    \* StationFile
    Roles, Mounts, Writers, Solvers, MaxFaults, MaxDeaths,
    \* SimulatorStation, StationLease
    Clients, MaxLaunches, Processes, Runs

VARIABLES
    healthy, host, permit, run,
    lifecycle, arm, leader, recorder, outcomes,
    path, disk, lock, writer, solver, bundle, shelf, tree, mixed, faults, deaths, accepted, unsettled,
    lease, robot, client, stray,
    holder, launched, outputs

Maintenance == INSTANCE LeaderMaintenance
Simulator == INSTANCE SimulatorSession WITH QueueSize <- ReplyQueue
Station == INSTANCE StationFile WITH None <- Nothing
Robot == INSTANCE SimulatorStation WITH None <- Nothing
Launch == INSTANCE StationLease WITH None <- Nothing, run <- launched, disk <- outputs

-----------------------------------------------------------------------------
(* Nothing is no writer, no client, no program and none of their things,    *)
(* and every program is one of the two that lease the station.              *)

ASSUME StationAssumption ==
    /\ Nothing \notin Writers
    /\ Nothing \notin Solvers

ASSUME RobotAssumption ==
    /\ Nothing \notin Clients
    /\ Nothing \notin {"home", "rtde"}
    /\ Nothing \notin [kind : {"home", "script"}, by : Clients]

ASSUME LaunchAssumption ==
    /\ Nothing \notin Processes
    /\ Nothing \notin {"earlier", "own", "partial", "complete"}
    /\ \A p \in Processes : Runs[p] \in {"teleop", "calibration"}

-----------------------------------------------------------------------------
(* The modules' properties, under the names they have there.                *)

SessionOrdered == Simulator!RecorderAccepts /\ Simulator!ReleasedStill
EvidenceKept == Station!StationKept /\ Station!BundleWhole
ProgramsExclusive == Robot!ProgramsExclusive
LeaseCovers == Launch!LeaseCovers
=============================================================================
