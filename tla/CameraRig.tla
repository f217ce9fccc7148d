------------------------------ MODULE CameraRig ------------------------------
(***************************************************************************)
(* rig.py: one worker process for each camera, and the process that starts *)
(* them, reads them in turn and closes them.  Images pass through a ring   *)
(* of slots (RigRings), readiness and errors through a pipe.               *)
(*                                                                         *)
(* The reader is one thread.  read() visits the cameras in order: status   *)
(* messages, whether the process is alive, at most Capacity frames, and    *)
(* the age of the newest.  An exception ends the run; the owner closes it. *)
(*                                                                         *)
(* Data abstraction: a frame is its ticket, its color counter and its      *)
(* receipt.  Time is a few ticks.  Capturing through the SDK is external:  *)
(* a camera delivers, restarts its counters or fails.                      *)
(***************************************************************************)
EXTENDS RigRings

CONSTANTS
    Stale,       \* STALE_NS
    Deadline,    \* the timeout of start
    MaxNow,      \* bound: ticks of the clock
    MaxFrames    \* bound: frames of each camera

Cameras == 1..Len(RoleOrder)

VARIABLES
    now,       \* time.monotonic_ns
    stop,      \* the shared cancellation flag
    worker,    \* [step, counter] of each camera process
    headers,   \* the frame header of each ticket: counter and receipt
    status,    \* the pipe of each worker
    camera,    \* _Camera of the reader: observed, last_receipt, previous
    rig        \* where the reader is: phase, camera, part of read(), budget

vars == <<now, stop, worker, rings, headers, status, camera, rig>>

Between == [at |-> 0, part |-> "between", budget |-> 0]
AtCamera(c) == [at |-> c, part |-> "status", budget |-> Capacity]

Init ==
    /\ now = 0 /\ stop = FALSE
    /\ worker = [r \in Roles |-> [step |-> "none", counter |-> 0, exit |-> "none"]]
    /\ rings = [r \in Roles |-> NewRing]
    /\ headers = [r \in Roles |-> <<>>]
    /\ status = [r \in Roles |-> <<>>]
    /\ camera = [r \in Roles |-> [observed |-> FALSE, receipt |-> 0, previous |-> 0]]
    /\ rig = [phase |-> "starting", spawned |-> 0, read |-> Between,
              returned |-> FALSE, fault |-> FALSE]

Tick ==
    /\ now < MaxNow
    /\ now' = now + 1
    /\ UNCHANGED <<stop, worker, rings, headers, status, camera, rig>>

-----------------------------------------------------------------------------
(* The worker process _worker.                                              *)

WorkerAt(r, step) == worker[r].step = step
WorkerTo(r, step) == worker' = [worker EXCEPT ![r].step = step]
Exits(r, how) == worker' = [worker EXCEPT ![r].step = "exited", ![r].exit = how]
Says(r, what) == status' = [status EXCEPT ![r] = Append(@, what)]

ReaderUnchanged == UNCHANGED <<now, stop, camera, rig>>

\* The first item of the stream: identity and clock were checked.
WorkerReady(r) ==
    /\ WorkerAt(r, "opening")
    /\ Says(r, "ready") /\ WorkerTo(r, "streaming")
    /\ ReaderUnchanged /\ UNCHANGED <<rings, headers>>

\* A frame from the SDK, stamped on receipt.  The counter may restart; a
\* skipped number is only counted.
WorkerGrabs(r) ==
    /\ WorkerAt(r, "streaming") /\ ~stop /\ Len(headers[r]) < MaxFrames[r]
    /\ \E counter \in {worker[r].counter + 1, 0} :
         /\ worker' = [worker EXCEPT ![r].step = "packing", ![r].counter = counter]
         /\ headers' = [headers EXCEPT ![r] =
                            Append(@, [counter |-> counter, receipt |-> now])]
    /\ ReaderUnchanged /\ UNCHANGED <<rings, status>>

WorkerReserves(r) ==
    /\ WorkerAt(r, "packing") /\ CanReserve(Ring(r))
    /\ SetRing(r, Reserve(Ring(r)))
    /\ WorkerTo(r, "copying")
    /\ ReaderUnchanged /\ UNCHANGED <<headers, status>>

\* Mutant of WorkerCopies: the ticket may be queued after the first image.
WorkerCopiesHalf(r) ==
    /\ WorkerAt(r, "copying")
    /\ Ring(r).producer.step = "rgb"
    /\ SetRing(r, [PackRgb(Ring(r)) EXCEPT !.producer.step = "put"])
    /\ WorkerTo(r, "putting")
    /\ ReaderUnchanged /\ UNCHANGED <<headers, status>>

WorkerCopies(r) ==
    /\ WorkerAt(r, "copying")
    /\ \/ Ring(r).producer.step = "rgb" /\ SetRing(r, PackRgb(Ring(r))) /\ UNCHANGED worker
       \/ /\ Ring(r).producer.step = "depth" /\ SetRing(r, PackDepth(Ring(r)))
          /\ WorkerTo(r, "putting")
    /\ ReaderUnchanged /\ UNCHANGED <<headers, status>>

WorkerPuts(r) ==
    /\ WorkerAt(r, "putting") /\ CanPut(Ring(r))
    /\ SetRing(r, Put(Ring(r)))
    /\ WorkerTo(r, "streaming")
    /\ ReaderUnchanged /\ UNCHANGED <<headers, status>>

\* The SDK raises or times out, no slot is free, or the queue is full.
MayFail(r) ==
    \/ worker[r].step \in {"opening", "streaming"}
    \/ WorkerAt(r, "packing") /\ ~CanReserve(Ring(r))
    \/ WorkerAt(r, "putting") /\ ~CanPut(Ring(r))

WorkerFails(r) ==
    /\ MayFail(r)
    /\ Says(r, "error") /\ Exits(r, "clean")
    /\ ReaderUnchanged /\ UNCHANGED <<rings, headers>>

\* The native library takes the process down at any step.
WorkerDies(r) ==
    /\ worker[r].step \notin {"none", "exited"}
    /\ Exits(r, "killed")
    /\ ReaderUnchanged /\ UNCHANGED <<rings, headers, status>>

WorkerStops(r) ==
    /\ stop /\ worker[r].step \in {"opening", "streaming"}
    /\ Exits(r, "clean")
    /\ ReaderUnchanged /\ UNCHANGED <<rings, headers, status>>

-----------------------------------------------------------------------------
(* The reader.                                                              *)

WorldUnchanged == UNCHANGED <<now, worker, headers>>
Role == RoleOrder[rig.read.at]
ReadAt(part) == rig.read.at # 0 /\ rig.read.part = part
ReadTo(read) == rig' = [rig EXCEPT !.read = read]

\* An exception of start or read: the owner does not read again.
Raises == rig' = [rig EXCEPT !.phase = "failed", !.read = Between]

Spawn ==
    /\ rig.phase = "starting" /\ rig.spawned < Len(RoleOrder)
    /\ LET r == RoleOrder[rig.spawned + 1] IN
       \/ /\ WorkerTo(r, "opening")
          /\ rig' = [rig EXCEPT !.spawned = @ + 1]
       \/ Raises /\ UNCHANGED worker
    /\ UNCHANGED <<now, stop, rings, headers, status, camera>>

Started == rig.spawned = Len(RoleOrder)
AllObserved == \A r \in Roles : camera[r].observed

\* start returns when every camera is ready, and gives up at its deadline.
StartReturns ==
    /\ rig.phase = "starting" /\ Started /\ rig.read = Between
    /\ IF rig.returned /\ AllObserved THEN rig' = [rig EXCEPT !.phase = "running", !.returned = FALSE]
       ELSE now >= Deadline /\ Raises
    /\ WorldUnchanged /\ UNCHANGED <<stop, rings, status, camera>>

\* The fault known when a read starts; a jump of the wall clock raises.
ReadStarts ==
    /\ rig.phase \in {"starting", "running"} /\ Started /\ rig.read = Between
    /\ rig.phase = "starting" => now < Deadline /\ (rig.returned => ~AllObserved)
    /\ \/ rig' = [rig EXCEPT !.read = AtCamera(1), !.returned = FALSE,
                             !.fault = \E r \in Roles : WorkerAt(r, "exited")]
       \/ Raises
    /\ WorldUnchanged /\ UNCHANGED <<stop, rings, status, camera>>

ReadStatus ==
    /\ ReadAt("status") /\ status[Role] # <<>>
    /\ status' = [status EXCEPT ![Role] = Tail(@)]
    /\ IF Head(status[Role]) = "error" THEN Raises /\ UNCHANGED camera
       ELSE /\ camera' = [camera EXCEPT ![Role].observed = TRUE, ![Role].receipt = now]
            /\ UNCHANGED rig
    /\ WorldUnchanged /\ UNCHANGED <<stop, rings>>

\* Mutant of Alive: an empty pipe is taken for a healthy worker.
AliveIfQuiet(r) == ~WorkerAt(r, "exited") \/ status[r] = <<>>

Alive(r) == ~WorkerAt(r, "exited")

ReadAlive ==
    /\ ReadAt("status") /\ status[Role] = <<>>
    /\ IF Alive(Role) THEN ReadTo([rig.read EXCEPT !.part = "drain"]) ELSE Raises
    /\ WorldUnchanged /\ UNCHANGED <<stop, rings, status, camera>>

ReadTakes ==
    /\ ReadAt("drain") /\ rig.read.budget > 0 /\ Ring(Role).queue # <<>>
    /\ IF CanTake(Ring(Role))
       THEN /\ SetRing(Role, Take(Ring(Role)))
            /\ ReadTo([rig.read EXCEPT !.part = "unpack", !.budget = @ - 1])
       ELSE Raises /\ UNCHANGED rings
    /\ WorldUnchanged /\ UNCHANGED <<stop, status, camera>>

ReadUnpacks ==
    /\ ReadAt("unpack")
    /\ \/ Ring(Role).consumer.step = "rgb" /\ SetRing(Role, UnpackRgb(Ring(Role)))
       \/ Ring(Role).consumer.step = "depth" /\ SetRing(Role, UnpackDepth(Ring(Role)))
    /\ WorldUnchanged /\ UNCHANGED <<stop, status, camera, rig>>

\* The slot is released and the frame observed; a restarted counter raises.
ReadObserves ==
    /\ ReadAt("unpack") /\ Ring(Role).consumer.step = "copied"
    /\ SetRing(Role, Release(Ring(Role)))
    /\ LET frame == headers[Role][Ring(Role).read + 1] IN
       /\ camera' = [camera EXCEPT ![Role].receipt = frame.receipt,
                                   ![Role].previous = frame.counter]
       /\ IF Ring(Role).read > 0 /\ frame.counter <= camera[Role].previous THEN Raises
          ELSE ReadTo([rig.read EXCEPT !.part = "drain"])
    /\ WorldUnchanged /\ UNCHANGED <<stop, status>>

\* get_nowait also finds nothing while a frame is still in the feeder thread.
ReadNext ==
    /\ ReadAt("drain")
    /\ IF camera[Role].observed /\ now - camera[Role].receipt > Stale THEN Raises
       ELSE IF rig.read.at < Len(RoleOrder) THEN ReadTo(AtCamera(rig.read.at + 1))
       ELSE rig' = [rig EXCEPT !.read = Between, !.returned = TRUE]
    /\ WorldUnchanged /\ UNCHANGED <<stop, rings, status, camera>>

\* The owner closes after a failure or when its work is done.
CloseStarts ==
    /\ rig.phase \in {"running", "failed"} /\ rig.read = Between
    /\ stop' = TRUE
    /\ rig' = [rig EXCEPT !.phase = "closing", !.returned = FALSE]
    /\ WorldUnchanged /\ UNCHANGED <<rings, status, camera>>

\* workers.stop: a worker that does not end by itself is terminated.
CloseTerminates(r) ==
    /\ rig.phase = "closing" /\ worker[r].step \notin {"none", "exited"}
    /\ Exits(r, "killed")
    /\ UNCHANGED <<now, headers, stop, rings, status, camera, rig>>

Gone(r) == worker[r].step \in {"none", "exited"}

\* close reports the errors left in the pipes and every forced exit.
CloseEnds ==
    /\ rig.phase = "closing" /\ \A r \in Roles : Gone(r)
    /\ rig' = [rig EXCEPT !.phase =
                 IF \E r \in Roles : Contains(status[r], "error") \/ worker[r].exit = "killed"
                 THEN "closed_with_errors" ELSE "closed"]
    /\ WorldUnchanged /\ UNCHANGED <<stop, rings, status, camera>>

ReaderNext ==
    \/ Spawn \/ StartReturns \/ ReadStarts \/ ReadStatus \/ ReadAlive \/ ReadTakes
    \/ ReadUnpacks \/ ReadObserves \/ ReadNext \/ CloseStarts \/ CloseEnds
    \/ \E r \in Roles : CloseTerminates(r)

WorkerNext(r) ==
    \/ WorkerReady(r) \/ WorkerGrabs(r) \/ WorkerReserves(r) \/ WorkerCopies(r)
    \/ WorkerPuts(r) \/ WorkerFails(r) \/ WorkerDies(r) \/ WorkerStops(r)

Next == Tick \/ ReaderNext \/ \E r \in Roles : WorkerNext(r)

Spec == Init /\ [][Next]_vars

-----------------------------------------------------------------------------
(* Properties.                                                              *)

TypeOK ==
    /\ now \in 0..MaxNow /\ stop \in BOOLEAN
    /\ \A r \in Roles :
         /\ worker[r].step \in {"none", "opening", "streaming", "packing", "copying",
                                "putting", "exited"}
         /\ Len(rings[r].queue) <= Capacity /\ rings[r].free \in 0..Capacity
         /\ Len(headers[r]) <= MaxFrames[r]
    /\ rig.phase \in {"starting", "running", "failed", "closing", "closed",
                      "closed_with_errors"}

(* A read that starts after a camera process has ended does not return     *)
(* frames, whatever that process left in its pipe and in its queue, and    *)
(* however many other cameras were drained before.                         *)
LostCameraSurfaces == rig.fault => ~rig.returned
=============================================================================
