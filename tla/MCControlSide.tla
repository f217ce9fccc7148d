---------------------------- MODULE MCControlSide ----------------------------
(***************************************************************************)
(* One small instance of every part of ControlLoop and of StationPrograms  *)
(* in one run.  They share no state: part says which of them a behaviour   *)
(* is about, and the others stay as they begin.                            *)
(***************************************************************************)
EXTENDS ControlLoop, StationPrograms

\* One step back, no step, the longest allowed step and one beyond it.
MCJumps == {-1, 0, 2, 3}

\* The motors of the leader, three of the seven.
MCIds == <<1, 2, 3>>

\* What the readers may take of the arm and of the gripper.
MCTaken == [ur |-> 3, hande |-> 2]

\* A collection session and a calibration share the station.
MCProgram == [console |-> "teleop", calibrator |-> "calibration"]

VARIABLE part

Parts == {"standstill", "leader", "simulator", "maintenance", "traversal", "station", "bundle",
          "log", "twins", "observer", "robot", "launch"}

standstillVars == <<window, samples, confirmed>>
leaderVars == <<mailbox, reader, consumer, intent, acquired, written>>
simulatorVars == <<lifecycle, arm, leader, recorder, outcomes>>
maintenanceVars == <<rate, began, healthy, host, permit, journal, run, found>>
traversalVars == <<loop, traversal, checkpoint, feedback, camera, selected, results>>
stationVars ==
    <<path, disk, lock, writer, solver, bundle, shelf, tree, mixed, faults, deaths, accepted,
      unsettled>>
logVars == <<devices, supervised, session, target, sequences, log, validator, verdict>>
twinVars == <<commands, group, pending, twin>>
observerVars == <<queue, pipe, worker, owner, side>>
robotVars == <<lease, robot, client, stray>>
launchVars == <<holder, launched, outputs>>

SideInit ==
    /\ part \in Parts
    /\ Init /\ Leader!Init /\ Simulator!Init /\ Maintenance!Init
    /\ Traversal!Init /\ Station!Init /\ Records!Init
    /\ Twins!Init /\ Observation!Init /\ Robot!Init /\ Launch!Init
    /\ part # "leader" => consumer.mode = "control"
    /\ part # "simulator" => arm.pose = "ready"
    /\ part # "maintenance" => \A m \in DOMAIN healthy : healthy[m] /\ rate[m] = Source
    /\ part # "observer" => side.phase = 1
    /\ part # "robot" => robot.mode = "off"
    /\ part # "launch" => outputs["calibrator"].partial = Nothing /\ outputs["calibrator"].destination = Nothing

\* The writers of the station file only ask whether there is a bundle: in
\* their part one solver makes one, and they work before or after that. The
\* rivalry for the name is a part of its own, with no writer in it.
Rivals == Solvers \ {CHOOSE s \in Solvers : TRUE}
Solving == \E s \in Solvers : solver[s] \notin {"idle", "done"}

\* Bound: resources of a program that a failure leaves open.
MaxMissed == 1

\* Places of the standstill policy are only compared: the first is <<0, 0>>.
SideNext ==
    \/ /\ part = "standstill" /\ Next /\ samples'[1].at = <<0, 0>>
       /\ UNCHANGED <<part, now, leaderVars, simulatorVars, maintenanceVars, traversalVars,
                      stationVars, logVars, twinVars, observerVars, robotVars, launchVars>>
    \/ /\ part = "leader" /\ Leader!Next
       /\ UNCHANGED <<part, standstillVars, simulatorVars, maintenanceVars, traversalVars,
                      stationVars, logVars, twinVars, observerVars, robotVars, launchVars>>
    \/ /\ part = "simulator" /\ Simulator!Next
       /\ UNCHANGED <<part, now, standstillVars, leaderVars, maintenanceVars, traversalVars,
                      stationVars, logVars, twinVars, observerVars, robotVars, launchVars>>
    \/ /\ part = "maintenance" /\ Maintenance!Next
       /\ UNCHANGED <<part, now, standstillVars, leaderVars, simulatorVars, traversalVars,
                      stationVars, logVars, twinVars, observerVars, robotVars, launchVars>>
    \/ /\ part = "traversal" /\ Traversal!Next
       /\ UNCHANGED <<part, standstillVars, leaderVars, simulatorVars, maintenanceVars,
                      stationVars, logVars, twinVars, observerVars, robotVars, launchVars>>
    \/ /\ \/ /\ part = "station" /\ Station!Next
             /\ \A s \in Rivals : solver'[s] = "idle"
             /\ Solving => UNCHANGED writer
          \/ part = "bundle" /\ Station!Next /\ UNCHANGED writer
       /\ UNCHANGED <<part, now, standstillVars, leaderVars, simulatorVars, maintenanceVars,
                      traversalVars, logVars, twinVars, observerVars, robotVars, launchVars>>
    \/ /\ part = "log" /\ Records!Next
       /\ UNCHANGED <<part, standstillVars, leaderVars, simulatorVars, maintenanceVars,
                      traversalVars, stationVars, twinVars, observerVars, robotVars, launchVars>>
    \/ /\ part = "twins" /\ Twins!Next
       /\ UNCHANGED <<part, now, standstillVars, leaderVars, simulatorVars, maintenanceVars,
                      traversalVars, stationVars, logVars, observerVars, robotVars, launchVars>>
    \/ /\ part = "observer" /\ Observation!Next
       /\ UNCHANGED <<part, now, standstillVars, leaderVars, simulatorVars, maintenanceVars,
                      traversalVars, stationVars, logVars, twinVars, robotVars, launchVars>>
    \/ /\ part = "robot" /\ Robot!Next
       /\ UNCHANGED <<part, now, standstillVars, leaderVars, simulatorVars, maintenanceVars,
                      traversalVars, stationVars, logVars, twinVars, observerVars, launchVars>>
    \/ /\ part = "launch" /\ Launch!Next
       /\ \A p \in DOMAIN launched : Cardinality(launched'[p].missed) <= MaxMissed
       /\ UNCHANGED <<part, now, standstillVars, leaderVars, simulatorVars, maintenanceVars,
                      traversalVars, stationVars, logVars, twinVars, observerVars, robotVars>>

sideVars ==
    <<part, now, standstillVars, leaderVars, simulatorVars, maintenanceVars, traversalVars,
      stationVars, logVars, twinVars, observerVars, robotVars, launchVars>>

SideSpec == SideInit /\ [][SideNext]_sideVars

\* The modules' properties, under the names they have there.
TypesOK ==
    /\ part = "leader" => Leader!TypeOK
    /\ part = "simulator" => Simulator!TypeOK
    /\ part = "maintenance" => Maintenance!TypeOK
    /\ part = "traversal" => Traversal!TypeOK
    /\ part \in {"station", "bundle"} => Station!TypeOK
    /\ part = "log" => Records!TypeOK
    /\ part = "twins" => Twins!TypeOK
    /\ part = "observer" => Observation!TypeOK
    /\ part = "robot" => Robot!TypeOK
    /\ part = "launch" => Launch!TypeOK
=============================================================================
