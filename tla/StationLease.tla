---------------------------- MODULE StationLease ----------------------------
(***************************************************************************)
(* control/runtime.py and calibration/replay.py: the two programs that move *)
(* the physical arm.  Each takes the host's lease, opens its resources one *)
(* after the other, registers how to close them, drives the arm and then   *)
(* closes in the reverse order, whatever failed or interrupted it.         *)
(* Calibration keeps its evidence in a directory it publishes at the end.  *)
(*                                                                         *)
(* A statement of the program is a step.  Any statement may raise, be      *)
(* interrupted, or be the last before the process is killed; the kernel    *)
(* then closes what the process had open.  Every calibration has an output *)
(* of its own.                                                             *)
(***************************************************************************)
EXTENDS Integers, Sequences, SequencesExt

CONSTANTS
    None,
    Processes,
    Runs       \* what a process runs: "teleop" or "calibration"

VARIABLES
    holder, \* who has the lock on the lease file
    run,    \* each process: its place, what it has open and registered
    disk    \* the output of each calibration

vars == <<holder, run, disk>>

Calibrations == {p \in Processes : Runs[p] = "calibration"}

Open(x) == <<"open", x>>
Register(x) == <<"register", x>>
Use(x) == <<"use", x>>

\* runtime.launch: the lease, whose lock is taken when its closing is
\* registered, the log, the recorder with cameras, the leader, the arm,
\* readers, leader and watchdog in action, the session and the handler.  What
\* is opened is then registered; a use may fail.
Teleop ==
    <<Open("lease"), Register("lease"), <<"lock", "lease">>, Open("log"), Register("log"),
      Open("capture"), Register("capture"), Use("capture"), Open("leader"), Register("leader"),
      Open("device"), Register("device"), Use("capture"), Use("leader"), Use("device"),
      Open("session"), Register("session"), Open("handler"), Register("handler")>>

\* replay.run: the arm is registered after a controller was made for it.
Calibration ==
    <<Open("lease"), Register("lease"), <<"lock", "lease">>, Open("log"), Register("log"),
      Open("handler"), Register("handler"), Open("source"), Register("source"), Use("source"),
      Open("device"), Use("device"), Register("device"), Use("device")>>

Plan == [p \in Processes |-> IF Runs[p] = "teleop" THEN Teleop ELSE Calibration]

Init ==
    /\ holder = None
    /\ run = [p \in Processes |->
                [at |-> IF Runs[p] = "teleop" THEN "acquiring" ELSE "start", step |-> 1,
                 open |-> {}, stack |-> <<>>, state |-> "partial", missed |-> {}]]
    /\ disk \in [Calibrations -> [partial : {None, "earlier"}, document : {None},
                                  destination : {None, "earlier"}]]

Goes(p, at) == [run[p] EXCEPT !.at = at]
Becomes(p, r) == run' = [run EXCEPT ![p] = r]
Is(p, at) == run[p].at = at

-----------------------------------------------------------------------------
(* Acquisition.                                                             *)

\* _paths: a fresh destination and a fresh partial directory.
Reserve(p) ==
    /\ Is(p, "start")
    /\ IF disk[p].destination = None /\ disk[p].partial = None
       THEN disk' = [disk EXCEPT ![p].partial = "own"] /\ Becomes(p, Goes(p, "acquiring"))
       ELSE disk' = disk /\ Becomes(p, Goes(p, "exiting"))
    /\ UNCHANGED holder

Statement(p) == Plan[p][run[p].step]
Acquiring(p) == Is(p, "acquiring") /\ run[p].step <= Len(Plan[p])
Does(p, op) == Acquiring(p) /\ Statement(p)[1] = op
Advanced(p) == [run[p] EXCEPT !.step = @ + 1]

Opens(p) ==
    /\ Does(p, "open")
    /\ Becomes(p, [Advanced(p) EXCEPT !.open = @ \cup {Statement(p)[2]}])
    /\ UNCHANGED <<holder, disk>>

Registers(p) ==
    /\ Does(p, "register")
    /\ Becomes(p, [Advanced(p) EXCEPT !.stack = <<Statement(p)[2]>> \o @])
    /\ UNCHANGED <<holder, disk>>

Locks(p) ==
    /\ Does(p, "lock") /\ holder = None
    /\ holder' = p /\ Becomes(p, Advanced(p))
    /\ UNCHANGED disk

Uses(p) ==
    /\ Does(p, "use") /\ Becomes(p, Advanced(p))
    /\ UNCHANGED <<holder, disk>>

\* drive comes back: the user quit, or every pose is done.
Drives(p) ==
    /\ Is(p, "acquiring") /\ run[p].step > Len(Plan[p])
    /\ Becomes(p, [Goes(p, "closing") EXCEPT !.state = "complete"])
    /\ UNCHANGED <<holder, disk>>

\* A statement raises: it failed, the lock was taken, or an interrupt came
\* before it took effect; what was opened and not yet registered is missed.
Raises(p) ==
    /\ Is(p, "acquiring")
    /\ Becomes(p, [Goes(p, "closing") EXCEPT
                     !.missed = IF Acquiring(p) THEN run[p].open \ Range(run[p].stack) ELSE {}])
    /\ UNCHANGED <<holder, disk>>

-----------------------------------------------------------------------------
(* Closing.                                                                 *)

\* Mutant of CloseNext: resources are closed in the order they were opened.
CloseNextOldest(p) == Len(run[p].stack)

CloseNext(p) == 1

\* The stack closes what is registered, the last first; a close that raises
\* is remembered and the others still happen.
Closes(p) ==
    /\ Is(p, "closing") /\ run[p].stack # <<>>
    /\ LET x == run[p].stack[CloseNext(p)]
           rest == [run[p] EXCEPT !.stack = RemoveAt(@, CloseNext(p))]
       IN  /\ \/ Becomes(p, [rest EXCEPT !.open = @ \ {x}])
              \/ /\ x # "lease"
                 /\ Becomes(p, [rest EXCEPT !.missed = @ \cup {x}, !.state = "partial"])
           /\ holder' = IF x = "lease" /\ holder = p THEN None ELSE holder
    /\ UNCHANGED disk

Closed(p) ==
    /\ Is(p, "closing") /\ run[p].stack = <<>>
    /\ Becomes(p, Goes(p, IF Runs[p] = "teleop" THEN "exiting" ELSE "saving"))
    /\ UNCHANGED <<holder, disk>>

-----------------------------------------------------------------------------
(* The evidence of a calibration.                                           *)

\* _save, and on to publish if nothing was raised.
Saves(p) ==
    /\ Is(p, "saving")
    /\ disk' = [disk EXCEPT ![p].document = run[p].state]
    /\ Becomes(p, Goes(p, IF run[p].state = "complete" THEN "publishing" ELSE "exiting"))
    /\ UNCHANGED holder

\* filesystem.publish: the tree is flushed and renamed, its parent flushed.
Renames(p) ==
    /\ Is(p, "publishing") /\ disk[p].destination = None
    /\ disk' = [disk EXCEPT ![p].destination = "own", ![p].partial = None]
    /\ Becomes(p, Goes(p, "flushing"))
    /\ UNCHANGED holder

Publishes(p) ==
    /\ Is(p, "flushing")
    /\ Becomes(p, Goes(p, "published")) /\ UNCHANGED <<holder, disk>>

Withdraws(p) ==
    /\ Is(p, "flushing")
    /\ disk' = [disk EXCEPT ![p].destination = None, ![p].partial = "own"]
    /\ Becomes(p, Goes(p, "exiting"))
    /\ UNCHANGED holder

SavingFails(p) ==
    /\ run[p].at \in {"saving", "publishing"}
    /\ Becomes(p, Goes(p, "exiting")) /\ UNCHANGED <<holder, disk>>

\* The process ends, by itself or because it is killed.
Ends(p) ==
    /\ ~Is(p, "ended")
    /\ Becomes(p, [Goes(p, "ended") EXCEPT !.open = {}, !.stack = <<>>, !.missed = {},
                                           !.state = IF Is(p, "published") THEN "published" ELSE "partial"])
    /\ holder' = IF holder = p THEN None ELSE holder
    /\ UNCHANGED disk

Next ==
    \E p \in Processes :
        \/ Reserve(p) \/ Opens(p) \/ Registers(p) \/ Locks(p) \/ Uses(p) \/ Drives(p) \/ Raises(p)
        \/ Closes(p) \/ Closed(p) \/ Saves(p) \/ Renames(p) \/ Publishes(p) \/ Withdraws(p)
        \/ SavingFails(p) \/ Ends(p)

Spec == Init /\ [][Next]_vars

-----------------------------------------------------------------------------
(* Properties.                                                              *)

TypeOK ==
    /\ holder \in Processes \cup {None}
    /\ \A p \in Processes : run[p].missed \subseteq run[p].open

\* The arm is connected, and closing it is still the program's to do: it was
\* not missed, by a failure between its opening and its registration or by a
\* close that raised.
Connected(p) == "device" \in run[p].open \ run[p].missed

(* A program drives the arm only with the lease.  One that is connected to  *)
(* it has the lease, its evidence log and its camera, or its recorder and   *)
(* leader, until the connection is closed, with two exceptions: an arm      *)
(* opened and not registered when a statement between fails or is           *)
(* interrupted, and an arm whose close raises, stay connected to the end of *)
(* the process, and the lease goes before.  A program that left a resource  *)
(* in that way drives nothing any more and publishes nothing.  A            *)
(* calibration is published only when every resource was closed without an  *)
(* error, with a complete document, and a result or the remains of another  *)
(* run are never replaced.                                                  *)
LeaseCovers ==
    /\ \A p \in Processes :
        /\ Connected(p) => holder = p /\ "log" \in run[p].open
        /\ run[p].missed # {} => ~Is(p, "acquiring")
        /\ "session" \in run[p].open \ run[p].missed =>
             {"device", "leader", "capture"} \subseteq run[p].open
    /\ \A p \in Calibrations :
        /\ Connected(p) => "source" \in run[p].open
        /\ run[p].missed # {} => run[p].at \notin {"publishing", "flushing", "published"}
        /\ disk[p].destination = "own" =>
             disk[p].document = "complete" /\ run[p].open = {} /\ disk[p].partial = None
        /\ disk[p].document # None => "own" \in {disk[p].partial, disk[p].destination}
=============================================================================
