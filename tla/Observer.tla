------------------------------ MODULE Observer ------------------------------
(***************************************************************************)
(* ros_observer.py: the process that shows a session's records and status  *)
(* to ROS.  It is fed through a bounded queue that the control side never  *)
(* waits for, and answers through a pipe that the control side polls.      *)
(*                                                                         *)
(* A phase is a number and a batch of records is its length.  The worker   *)
(* may fail at any message and die at any time; the calls of the control   *)
(* side and the worker's handling of a message are the steps.              *)
(***************************************************************************)
EXTENDS Integers, Sequences, SequencesExt

CONSTANTS
    None,
    Capacity,  \* CAPACITY of the queue
    Phases,    \* what a session can show
    MaxRecords \* bound: records offered

VARIABLES
    queue,  \* Observer.messages
    pipe,   \* Observer.replies
    worker, \* the process, what it has shown, and what was lost with it
    owner,  \* the other fields of Observer, and whether a status is recent
    side    \* the session: its phase and the records it offered

vars == <<queue, pipe, worker, owner, side>>

Init ==
    /\ queue = <<>> /\ pipe = <<>>
    /\ worker = [at |-> "none", shown |-> 0, phase |-> None, dropped |-> 0, unshown |-> 0]
    /\ owner = [at |-> "new", ready |-> FALSE, error |-> FALSE, dropped |-> 0,
                status |-> None, recent |-> FALSE, sending |-> None]
    /\ side \in [phase : Phases, offered : {0}]

-----------------------------------------------------------------------------
(* The worker.                                                              *)

Worker(w) == worker' = w /\ UNCHANGED <<owner, side>>
Ended == [worker EXCEPT !.at = "ended"]

\* The node comes up and shows the context, or does not.
WorkerInitialises ==
    /\ worker.at = "starting" /\ queue' = queue
    /\ \/ pipe' = Append(pipe, "ready") /\ Worker([worker EXCEPT !.at = "serving"])
       \/ pipe' = Append(pipe, "error") /\ Worker(Ended)

Shown(message) ==
    IF message.kind = "records" THEN [worker EXCEPT !.shown = @ + message.records]
    ELSE [worker EXCEPT !.phase = message.phase, !.dropped = message.dropped]

\* A message is shown, ends the worker because it cannot be, or asks for the end.
WorkerServes ==
    /\ worker.at = "serving" /\ queue # <<>>
    /\ queue' = Tail(queue)
    /\ LET message == Head(queue) IN
       \/ message.kind # "stop" /\ pipe' = pipe /\ Worker(Shown(message))
       \/ /\ message.kind # "stop" /\ pipe' = Append(pipe, "error")
          /\ Worker([Ended EXCEPT !.unshown = message.records])
       \/ message.kind = "stop" /\ pipe' = pipe /\ Worker(Ended)

WorkerDies == worker.at \in {"starting", "serving"} /\ Worker(Ended) /\ UNCHANGED <<queue, pipe>>

-----------------------------------------------------------------------------
(* The control side.                                                        *)

Start ==
    /\ owner.at = "new"
    /\ worker' = [worker EXCEPT !.at = "starting"] /\ owner' = [owner EXCEPT !.at = "starting"]
    /\ UNCHANGED <<queue, pipe, side>>

\* start: an answer, the end of the worker, or nothing for 15 s.
StartReturns ==
    /\ owner.at = "starting"
    /\ IF pipe = <<>> THEN pipe' = pipe ELSE pipe' = Tail(pipe)
    /\ owner' = IF pipe # <<>> /\ Head(pipe) = "ready"
                THEN [owner EXCEPT !.ready = TRUE, !.at = "idle"]
                ELSE [owner EXCEPT !.at = "closing"]
    /\ UNCHANGED <<queue, worker, side>>

\* Observer.health, as an error: everything in the pipe, and whether the worker lives.
Failed == owner.error \/ "error" \in Range(pipe) \/ worker.at = "ended"

\* Observer._send: a look at the health, and then the queue.
Looks(message) ==
    /\ owner.at = "idle"
    /\ pipe' = IF owner.error THEN pipe ELSE <<>>
    /\ owner' = IF Failed
                THEN [owner EXCEPT !.error = TRUE, !.dropped = @ + message.records,
                                   !.at = IF message.kind = "stop" THEN "closing" ELSE "idle"]
                ELSE [owner EXCEPT !.at = "sending", !.sending = message]
    /\ UNCHANGED <<queue, worker>>

Message(kind, records, phase) ==
    [kind |-> kind, records |-> records, phase |-> phase, dropped |-> owner.dropped]

Records ==
    \E n \in 1..2 :
        /\ side.offered + n <= MaxRecords
        /\ side' = [side EXCEPT !.offered = @ + n]
        /\ Looks(Message("records", n, None))

\* The session asks for this in every period of its loop.
Status ==
    /\ ~(side.phase = owner.status /\ owner.recent)
    /\ Looks(Message("status", 0, side.phase)) /\ side' = side

\* close, to the call of workers.stop.
Close == Looks(Message("stop", 0, None)) /\ side' = side

\* Mutant of Refused: a status is taken for sent although the queue is full.
RefusedUnnoticed(message) ==
    IF message.kind = "status" THEN [owner EXCEPT !.status = message.phase, !.recent = TRUE]
    ELSE [owner EXCEPT !.dropped = @ + message.records]

\* What the owner keeps of a message the queue takes, and of one it does not.
Taken(message) ==
    IF message.kind = "status" THEN [owner EXCEPT !.status = message.phase, !.recent = TRUE] ELSE owner
Refused(message) == [owner EXCEPT !.dropped = @ + message.records]

Puts ==
    /\ owner.at = "sending"
    /\ LET message == owner.sending
           takes == Len(queue) < Capacity
           o == IF takes THEN Taken(message) ELSE Refused(message)
       IN  /\ queue' = IF takes THEN Append(queue, message) ELSE queue
           /\ owner' = [o EXCEPT !.sending = None,
                                 !.at = IF message.kind = "stop" THEN "closing" ELSE "idle"]
    /\ UNCHANGED <<pipe, worker, side>>

\* workers.stop: the worker ends by itself within a second or is killed.
CloseStops ==
    /\ owner.at = "closing" /\ owner' = [owner EXCEPT !.at = "closed"]
    /\ worker' = IF worker.at = "none" THEN worker ELSE Ended
    /\ UNCHANGED <<queue, pipe, side>>

\* The session moves on, and half a second passes since the last status.
PhaseChanges ==
    /\ owner.at = "idle" /\ \E phase \in Phases \ {side.phase} : side' = [side EXCEPT !.phase = phase]
    /\ UNCHANGED <<queue, pipe, worker, owner>>
HalfSecondPasses ==
    /\ owner.recent /\ owner' = [owner EXCEPT !.recent = FALSE]
    /\ UNCHANGED <<queue, pipe, worker, side>>

Next ==
    \/ WorkerInitialises \/ WorkerServes \/ WorkerDies
    \/ Start \/ StartReturns \/ Records \/ Status \/ Close \/ Puts \/ CloseStops
    \/ PhaseChanges \/ HalfSecondPasses

Spec == Init /\ [][Next]_vars

-----------------------------------------------------------------------------
(* Properties.                                                              *)

TypeOK ==
    /\ Len(queue) <= Capacity
    /\ worker.at \in {"none", "starting", "serving", "ended"}
    /\ owner.at \in {"new", "starting", "idle", "sending", "closing", "closed"}
    /\ side.offered \in 0..MaxRecords

InHand == IF owner.at = "sending" THEN owner.sending.records ELSE 0

\* behind[i] is how many records the messages of the queue after the i-th have.
Waiting(behind) ==
    /\ behind[Len(queue)] = 0
    /\ \A i \in DOMAIN queue : behind[i - 1] = queue[i].records + behind[i]

Statuses == {i \in DOMAIN queue : queue[i].kind = "status"}
Coming == IF Statuses = {} THEN worker.phase ELSE queue[Max(Statuses)].phase

(* The observer accounts for what it was offered: each record was shown, is *)
(* in the queue, was counted as dropped or was in the message that ended    *)
(* the worker; the loss it shows is never more than the loss there was.     *)
(* The phase it takes for sent is the last that a viewer has seen or will   *)
(* see, so a phase that met a full queue is sent again.  Once it is closed  *)
(* no worker is left.                                                       *)
ObserverAccounts ==
    /\ \E behind \in [0 .. Len(queue) -> 0 .. side.offered] :
          /\ Waiting(behind)
          /\ side.offered = worker.shown + worker.unshown + owner.dropped + InHand + behind[0]
    /\ worker.dropped <= owner.dropped
    /\ worker.at = "serving" => owner.status = Coming
    /\ owner.at = "closed" => worker.at \in {"none", "ended"}
=============================================================================
