--------------------------- MODULE RecorderCapture ---------------------------
(***************************************************************************)
(* recording.py: the recorder process, its loop _run around _Capture, and  *)
(* the camera episode (session.Session) that _Capture feeds.               *)
(*                                                                         *)
(* Two streams meet in the child: commands of the control process, in the  *)
(* order they were sent, and camera frames, late and out of order between  *)
(* cameras.  They meet by receipt time: control announces how far its own  *)
(* records go (the watermark) and where the episode ends (the cutoff), and *)
(* the child holds every frame back until the watermark has passed it.     *)
(*                                                                         *)
(* Data abstraction: time is a few ticks; a frame is its receipt, at most  *)
(* one per tick; a batch of control samples is its watermark.  The writer  *)
(* is EpisodeWriter seen by its verdict.  Matching stores every frame      *)
(* pushed to it, in a group or in a rejection.                             *)
(***************************************************************************)
EXTENDS Integers, Sequences, FiniteSets

CONSTANTS
    None,             \* no cutoff, no boundary, no completion
    MaxTime,          \* bound: ticks of the clock
    Wait,             \* MatchConfig.wait_ns: the drain after a cutoff
    PendingCapacity,  \* frames held back above the watermark (CAPACITY)
    MaxEpisodes,      \* bound: episodes prepared
    MaxInbox,         \* bound: unread commands
    MaxFrames,        \* bound: frames of a behaviour
    OwnerMayGo        \* the control process may close the recorder or die

Times == 0..MaxTime

ASSUME BoundsAssumption ==
    /\ MaxTime \in Nat /\ Wait \in Nat /\ MaxEpisodes \in Nat
    /\ PendingCapacity \in Nat /\ MaxInbox \in Nat /\ MaxFrames \in Nat
    /\ OwnerMayGo \in BOOLEAN
    /\ None \notin Nat \cup {"called", "waiting", "result", "exception"}

VARIABLES
    now,        \* time.monotonic_ns of both processes
    control,    \* the control process, as far as the recorder sees it
    inbox,      \* Recorder.commands
    outbox,     \* Recorder.replies
    abort,      \* the shared cancellation flag
    arriving,   \* receipts of frames stamped by a camera and not yet read
    stamped,    \* history: receipts of all frames
    pc,         \* where _run is: take, step, poll
    child,      \* _Capture and session.Session
    pending,    \* _Capture.pending
    writer,     \* the episode's writer: verdict and whether its thread ended
    final,      \* Session._completion of the finalizer thread
    stored,     \* what the writer accepted: frames and control records
    read,       \* history: frames read after the child took begin
    early,      \* history: frames read between prepare and begin
    refused     \* history: a command was refused

worldVars == <<now, arriving, stamped>>
controlVars == <<control, outbox>>
writerVars == <<writer, final>>
episodeVars == <<pending, stored, read, early>>
vars == <<worldVars, controlVars, inbox, abort, pc, child, writerVars,
          episodeVars, refused>>

NoEpisode == [frames |-> {}, log |-> <<>>]

Init ==
    /\ now = 0 /\ arriving = {} /\ stamped = {}
    /\ control = [step |-> "idle", episodes |-> 0, start |-> None, mark |-> None,
                  cutoff |-> None, stopSent |-> FALSE, confirmed |-> FALSE,
                  sent |-> <<>>]
    /\ inbox = <<>> /\ outbox = <<>> /\ abort = FALSE
    /\ pc = "take"
    /\ child = [state |-> "idle", start |-> None, watermark |-> 0, cutoff |-> None,
                boundary |-> None, settled |-> FALSE, acked |-> FALSE]
    /\ pending = {}
    /\ writer = [verdict |-> "none", done |-> TRUE]
    /\ final = None
    /\ stored = NoEpisode /\ read = {} /\ early = {}
    /\ refused = FALSE

-----------------------------------------------------------------------------
(* The world: time passes, cameras stamp frames.                            *)

Tick ==
    /\ now < MaxTime
    /\ now' = now + 1
    /\ UNCHANGED <<arriving, stamped, controlVars, inbox, abort, pc, child,
                   writerVars, episodeVars, refused>>

FrameArrives ==
    /\ now \notin stamped /\ Cardinality(stamped) < MaxFrames
    /\ arriving' = arriving \cup {now}
    /\ stamped' = stamped \cup {now}
    /\ UNCHANGED <<now, controlVars, inbox, abort, pc, child,
                   writerVars, episodeVars, refused>>

-----------------------------------------------------------------------------
(* The control process: CollectionSession with the times it sends.          *)

Alive == control.step # "gone"
Send(operation, at) == inbox' = Append(inbox, [operation |-> operation, at |-> at])
Free(n) == Len(inbox) + n <= MaxInbox

ControlUnchanged == UNCHANGED <<worldVars, outbox, abort, pc, child, writerVars,
                                episodeVars, refused>>

ControlPrepare ==
    /\ control.step = "idle" /\ control.episodes < MaxEpisodes /\ Free(1)
    /\ control' = [control EXCEPT !.step = "preparing", !.episodes = @ + 1,
                     !.start = None, !.mark = None, !.cutoff = None,
                     !.stopSent = FALSE, !.confirmed = FALSE, !.sent = <<>>]
    /\ Send("prepare", None)
    /\ ControlUnchanged

\* The boundary is the creation of the first followed target.
ControlBegin ==
    /\ control.step = "engaging" /\ Free(1)
    /\ control' = [control EXCEPT !.step = "recording", !.start = now, !.mark = now]
    /\ Send("begin", now)
    /\ ControlUnchanged

\* Every watermark is a fresh reading of the clock.
ControlSamples ==
    /\ control.step = "recording" /\ now > control.mark /\ Free(1)
    /\ control' = [control EXCEPT !.mark = now, !.sent = Append(@, now)]
    /\ Send("samples", now)
    /\ ControlUnchanged

\* Bound: the clock reaches the end of the drain of every cutoff.
Drainable == now + Wait <= MaxTime

ControlStop ==
    /\ control.step = "recording" /\ now > control.mark /\ Drainable
    /\ control' = [control EXCEPT !.step = "stopping", !.cutoff = now]
    /\ UNCHANGED inbox
    /\ ControlUnchanged

FreezeAt == IF control.cutoff = None THEN now ELSE control.cutoff

\* A rejection freezes the capture before the tail is known.
ControlReject ==
    /\ control.step \in {"recording", "stopping"} /\ ~control.stopSent
    /\ now > control.mark /\ Drainable /\ Free(1)
    /\ control' = [control EXCEPT !.step = "review",
                     !.cutoff = IF @ = None THEN now ELSE @]
    /\ Send("freeze", FreezeAt)
    /\ ControlUnchanged

\* A rejection before recording began only leaves cancellation.
ControlRejectEarly ==
    /\ control.step \in {"preparing", "engaging"}
    /\ control' = [control EXCEPT !.step = "review"]
    /\ UNCHANGED inbox
    /\ ControlUnchanged

\* _tail: flush what was held back, if anything was, then close the interval.
ControlTail ==
    /\ control.step \in {"stopping", "review"}
    /\ control.start # None /\ ~control.stopSent
    /\ \E flush \in BOOLEAN :
         LET command(op) == [operation |-> op, at |-> control.cutoff]
         IN  IF flush
             THEN /\ Free(2)
                  /\ inbox' = inbox \o <<command("samples"), command("stop")>>
                  /\ control' = [control EXCEPT !.stopSent = TRUE,
                                   !.sent = Append(@, control.cutoff)]
             ELSE /\ Free(1)
                  /\ inbox' = Append(inbox, command("stop"))
                  /\ control' = [control EXCEPT !.stopSent = TRUE]
    /\ ControlUnchanged

\* _finalize, after a measured hold.
ControlSettled ==
    /\ control.step \in {"stopping", "review"} /\ control.stopSent /\ Free(1)
    /\ control' = [control EXCEPT !.step = "sealing", !.confirmed = TRUE]
    /\ Send("settled", None)
    /\ ControlUnchanged

ControlCancel ==
    /\ control.step = "review" /\ Free(1)
    /\ control' = [control EXCEPT !.step = "cancelling"]
    /\ Send("cancel", None)
    /\ ControlUnchanged

\* A reply moves control on; a preparation that comes late is ignored.
ControlReply ==
    /\ Alive /\ outbox # <<>>
    /\ outbox' = Tail(outbox)
    /\ control' = [control EXCEPT !.step =
         CASE Head(outbox) = "prepare" /\ @ = "preparing" -> "engaging"
           [] Head(outbox) \in {"complete", "cancelled"} -> "idle"
           [] OTHER -> @]
    /\ UNCHANGED <<worldVars, inbox, abort, pc, child, writerVars,
                   episodeVars, refused>>

\* The control process closes the recorder, or dies without doing so.
ControlGone ==
    /\ Alive /\ OwnerMayGo
    /\ control' = [control EXCEPT !.step = "gone"]
    /\ abort' \in BOOLEAN
    /\ UNCHANGED <<worldVars, outbox, inbox, pc, child, writerVars,
                   episodeVars, refused>>

-----------------------------------------------------------------------------
(* The writer thread and the finalizer thread.                              *)

WriterUnchanged == UNCHANGED <<worldVars, controlVars, inbox, abort, pc, child,
                               episodeVars, refused>>

WriterOpens ==
    /\ writer.verdict = "opening"
    /\ writer' = [writer EXCEPT !.verdict = "open"]
    /\ UNCHANGED final
    /\ WriterUnchanged

\* A codec, disk, verification or deadline failure.
WriterFails ==
    /\ ~writer.done /\ writer.verdict # "aborted"
    /\ writer' = [verdict |-> "failed", done |-> TRUE]
    /\ UNCHANGED final
    /\ WriterUnchanged

\* The thread of an aborted writer notices and ends.
WriterStops ==
    /\ ~writer.done /\ writer.verdict = "aborted"
    /\ writer' = [writer EXCEPT !.done = TRUE]
    /\ UNCHANGED final
    /\ WriterUnchanged

WriterCommits ==
    /\ writer.verdict = "closing"
    /\ writer' = [verdict |-> "committed", done |-> TRUE]
    /\ UNCHANGED final
    /\ WriterUnchanged

\* writer.finish: refused by a writer that is no longer open.
FinishStarts ==
    /\ final = "called"
    /\ IF writer.verdict = "open"
       THEN final' = "waiting" /\ writer' = [writer EXCEPT !.verdict = "closing"]
       ELSE final' = "exception" /\ UNCHANGED writer
    /\ WriterUnchanged

FinishReturns ==
    /\ final = "waiting" /\ writer.done
    /\ final' = IF writer.verdict = "committed" THEN "result" ELSE "exception"
    /\ UNCHANGED writer
    /\ WriterUnchanged

Revoked == IF writer.verdict \in {"opening", "open", "closing"}
           THEN [writer EXCEPT !.verdict = "aborted"] ELSE writer

-----------------------------------------------------------------------------
(* The child loop: commands first.                                          *)

Running == child.state \notin {"failed", "closed"}
At(label) == Running /\ ~abort /\ pc = label

\* Any exception: owner.abort revokes the writer, and the child sets abort.
Fails ==
    /\ child' = [child EXCEPT !.state = "failed"]
    /\ writer' = Revoked
    /\ abort' = TRUE

\* The loop sees the flag at its head, and leaves through owner.close.
ChildCloses ==
    /\ Running /\ abort
    /\ child' = [child EXCEPT !.state = "closed"]
    /\ writer' = Revoked
    /\ UNCHANGED <<worldVars, controlVars, inbox, abort, pc, final,
                   episodeVars, refused>>

Fits(c) ==
    CASE c.operation = "prepare" -> child.state = "idle"
      [] c.operation = "begin" -> child.state = "prepared"
      [] c.operation = "freeze" -> child.state = "recording" /\ c.at >= child.watermark
      [] c.operation = "samples" ->
           /\ child.state = "recording" /\ child.cutoff = None
           /\ child.boundary = None \/ c.at <= child.boundary
           /\ c.at > child.watermark
      [] c.operation = "stop" ->
           /\ child.state = "recording" /\ c.at >= child.watermark
           /\ child.boundary \in {None, c.at}
      [] c.operation = "cancel" -> child.state \in {"prepared", "recording"}
      [] c.operation = "settled" -> child.cutoff # None

Begun(c) ==
    [child EXCEPT !.state = "recording", !.start = c.at, !.watermark = c.at,
                  !.cutoff = None, !.boundary = None, !.settled = FALSE]

\* _recordable, in the state recording: the end of the window is the caller's.
\* Mutant: a record at the cutoff itself is filtered too.
RecordableBeforeCutoff(receipt) ==
    receipt >= child.start /\ (child.cutoff = None \/ receipt < child.cutoff)

Recordable(receipt) == receipt >= child.start

AfterCommand(c) ==
    CASE c.operation = "prepare" -> [child EXCEPT !.state = "prepared", !.acked = FALSE]
      [] c.operation = "begin" -> Begun(c)
      [] c.operation = "freeze" -> [child EXCEPT !.boundary = c.at]
      [] c.operation = "samples" -> [child EXCEPT !.watermark = c.at]
      [] c.operation = "stop" -> [child EXCEPT !.watermark = c.at, !.cutoff = c.at,
                                               !.boundary = c.at]
      [] c.operation = "cancel" -> [child EXCEPT !.state = "cancelling",
                                      !.boundary = None, !.cutoff = None,
                                      !.settled = FALSE]
      [] c.operation = "settled" -> [child EXCEPT !.settled = TRUE]

WriterAfter(c) ==
    CASE c.operation = "prepare" -> [verdict |-> "opening", done |-> FALSE]
      [] c.operation = "cancel" -> Revoked
      [] OTHER -> writer

\* A control record; submit_feedback drops it when its receipt is outside.
Log(kind, at) == IF Recordable(at) THEN Append(stored.log, <<kind, at>>) ELSE stored.log

StoredAfter(c) ==
    CASE c.operation = "prepare" -> NoEpisode
      [] c.operation = "begin" -> [stored EXCEPT !.log = <<<<"acquired", c.at>>>>]
      [] c.operation = "samples" -> [stored EXCEPT !.log = Log("samples", c.at)]
      [] OTHER -> stored

TakeCommand ==
    /\ At("take") /\ inbox # <<>>
    /\ inbox' = Tail(inbox)
    /\ LET c == Head(inbox)
       IN  IF Fits(c)
           THEN /\ child' = AfterCommand(c)
                /\ writer' = WriterAfter(c)
                /\ stored' = StoredAfter(c)
                /\ pending' = IF c.operation \in {"begin", "cancel"} THEN {} ELSE pending
                /\ read' = IF c.operation = "prepare" THEN {} ELSE read
                /\ early' = IF c.operation = "prepare" THEN {} ELSE early
                /\ UNCHANGED <<abort, refused>>
           ELSE /\ Fails
                /\ refused' = TRUE
                /\ UNCHANGED <<stored, pending, read, early>>
    /\ UNCHANGED <<worldVars, controlVars, pc, final>>

TakeNoMore ==
    /\ At("take")
    /\ pc' = "step"
    /\ UNCHANGED <<worldVars, controlVars, inbox, abort, child, writerVars,
                   episodeVars, refused>>

\* Mutant of Supervised: a prepared writer is not supervised.
SupervisedWhileRecording == {"recording", "finalizing"}

\* States in which silence of the owner for HEARTBEAT_NS or HANDOVER_NS is fatal.
Supervised == {"prepared", "recording", "finalizing"}

\* No command and no heartbeat arrived for that long.
HeartbeatLost ==
    /\ At("step") /\ inbox = <<>>
    /\ child.state \in Supervised
    /\ Fails
    /\ UNCHANGED <<worldVars, controlVars, inbox, pc, final, episodeVars, refused>>

-----------------------------------------------------------------------------
(* The child loop: _Capture.step drains the cameras and admits frames.      *)

\* Frames read now that _Capture may ever admit.
Kept(new) ==
    IF child.state = "recording"
    THEN {r \in new : child.boundary = None \/ r < child.boundary}
    ELSE {}

Admitted(frameSet) == {r \in frameSet : r < child.watermark}

Waiting(frameSet) ==
    {r \in frameSet \ Admitted(frameSet) : child.boundary = None \/ r < child.boundary}

Overflows(frameSet) == Cardinality(Waiting(frameSet)) > PendingCapacity

\* Mutant of Late: a frame after the drain disappears silently.
LateNever(new) == {}

\* Frames of the interval that is already being sealed.
Late(new) ==
    IF child.state = "finalizing"
    THEN {r \in new : child.start <= r /\ r < child.cutoff} ELSE {}

\* Mutant of MaySeal: the drain is over, but the hold is not confirmed.
MaySealUnconfirmed ==
    /\ child.state = "recording" /\ child.cutoff # None
    /\ now >= child.cutoff + Wait

\* The hold is confirmed and the drain of one matching wait is over.
MaySeal ==
    /\ child.state = "recording" /\ child.cutoff # None /\ child.settled
    /\ now >= child.cutoff + Wait

Step ==
    /\ At("step")
    /\ pc' = "poll"
    /\ \E new \in SUBSET arriving :
         LET all == pending \cup Kept(new)
             open == child.state = "recording"
         IN  /\ Late(new) = {} /\ ~Overflows(all)
             /\ arriving' = arriving \ new
             /\ pending' = Waiting(all)
             /\ stored' =
                  [frames |-> stored.frames \cup
                                (IF open THEN {r \in Admitted(all) : Recordable(r)} ELSE {}),
                   log |-> IF MaySeal THEN Log("released", child.cutoff) ELSE stored.log]
             /\ read' = IF child.state \in {"recording", "finalizing"}
                        THEN read \cup new ELSE read
             /\ early' = IF child.state = "prepared" THEN early \cup new ELSE early
    /\ IF MaySeal
       THEN child' = [child EXCEPT !.state = "finalizing"] /\ final' = "called"
       ELSE UNCHANGED <<child, final>>
    /\ UNCHANGED <<now, stamped, controlVars, inbox, abort, writer, refused>>

\* A frame after the drain, or an overflow of the held frames.
StepFails ==
    /\ At("step")
    /\ \E new \in SUBSET arriving :
         /\ \/ Late(new) # {}
            \/ Overflows(pending \cup Kept(new))
         /\ arriving' = arriving \ new
    /\ Fails
    /\ UNCHANGED <<now, stamped, controlVars, inbox, pc, final, episodeVars, refused>>

\* A camera, the matcher or the writer raises.
SourceFails ==
    /\ At("step")
    /\ Fails
    /\ UNCHANGED <<worldVars, controlVars, inbox, pc, final, episodeVars, refused>>

-----------------------------------------------------------------------------
(* The child loop: Session.poll, and the acknowledgement of a preparation.  *)

Reply(operation) == outbox' = Append(outbox, operation)

PollNothing ==
    /\ At("poll")
    /\ child.state \in {"prepared", "recording", "finalizing"} =>
          writer.verdict \notin {"aborted", "failed"}
    /\ child.state = "finalizing" => final \notin {"result", "exception"}
    /\ child.state = "cancelling" => ~writer.done
    /\ pc' = "take"
    /\ IF child.state = "prepared" /\ ~child.acked /\ writer.verdict # "opening"
       THEN child' = [child EXCEPT !.acked = TRUE] /\ Reply("prepare")
       ELSE UNCHANGED <<child, outbox>>
    /\ UNCHANGED <<worldVars, control, inbox, abort, writerVars, episodeVars, refused>>

PollFails ==
    /\ At("poll")
    /\ \/ /\ child.state \in {"prepared", "recording", "finalizing"}
          /\ writer.verdict \in {"aborted", "failed"}
       \/ child.state = "finalizing" /\ final = "exception"
    /\ Fails
    /\ UNCHANGED <<worldVars, controlVars, inbox, pc, final, episodeVars, refused>>

PollReports ==
    /\ At("poll")
    /\ \/ /\ child.state = "finalizing" /\ final = "result"
          /\ Reply("complete")
       \/ /\ child.state = "cancelling" /\ writer.done
          /\ Reply("cancelled")
    /\ child' = [child EXCEPT !.state = "idle"]
    /\ final' = None
    /\ pc' = "take"
    /\ UNCHANGED <<worldVars, control, inbox, abort, writer, episodeVars, refused>>

-----------------------------------------------------------------------------
Control == \/ ControlPrepare \/ ControlBegin \/ ControlSamples \/ ControlStop
           \/ ControlReject \/ ControlRejectEarly \/ ControlTail \/ ControlSettled
           \/ ControlCancel \/ ControlReply \/ ControlGone

\* What the two threads of a writer do in the end.
Works == WriterOpens \/ WriterStops \/ WriterCommits \/ FinishStarts \/ FinishReturns

Writer == Works \/ WriterFails

Loop == \/ TakeCommand \/ TakeNoMore \/ Step \/ StepFails \/ SourceFails
        \/ PollNothing \/ PollFails \/ PollReports

\* Nothing is left to see once the child has to leave its loop.
Next == \/ ~abort /\ (Tick \/ FrameArrives \/ Control \/ Writer \/ Loop \/ HeartbeatLost)
        \/ ChildCloses

Spec == Init /\ [][Next]_vars

-----------------------------------------------------------------------------
(* Properties.                                                              *)

Time == Times \cup {None}

ControlType ==
    [step : {"idle", "preparing", "engaging", "recording", "stopping", "review",
             "sealing", "cancelling", "gone"},
     episodes : 0..MaxEpisodes, start : Time, mark : Time, cutoff : Time,
     stopSent : BOOLEAN, confirmed : BOOLEAN, sent : Seq(Times)]

Command == [operation : {"prepare", "begin", "samples", "freeze", "stop",
                         "settled", "cancel"}, at : Time]

ChildType ==
    [state : {"idle", "prepared", "recording", "finalizing", "cancelling",
              "failed", "closed"},
     start : Time, watermark : Times, cutoff : Time, boundary : Time,
     settled : BOOLEAN, acked : BOOLEAN]

WriterType == [verdict : {"none", "opening", "open", "closing", "committed",
                          "aborted", "failed"}, done : BOOLEAN]

StoredType == [frames : SUBSET Times,
               log : Seq({"acquired", "samples", "released"} \X Times)]

TypeOK ==
    /\ now \in Times /\ arriving \subseteq stamped /\ stamped \subseteq Times
    /\ control \in ControlType
    /\ inbox \in Seq(Command)
    /\ outbox \in Seq({"prepare", "complete", "cancelled"})
    /\ abort \in BOOLEAN /\ refused \in BOOLEAN
    /\ pc \in {"take", "step", "poll"}
    /\ child \in ChildType
    /\ pending \subseteq stamped /\ Cardinality(pending) <= PendingCapacity
    /\ writer \in WriterType
    /\ final \in {None, "called", "waiting", "result", "exception"}
    /\ stored \in StoredType
    /\ read \subseteq stamped /\ early \subseteq stamped

\* The child has closed the interval and nothing was found missing.
Sealed == child.state = "finalizing" \/ (child.state = "idle" /\ writer.verdict = "committed")

(***************************************************************************)
(* The episode that is sealed and reported holds exactly the frames of its *)
(* interval that the child read after it took begin: none is lost between  *)
(* the two streams, whatever the delays, none comes from outside, and a    *)
(* frame that comes too late to be stored prevents the report.  Nor is at  *)
(* any moment before, not even before a stop or a freeze has reached the   *)
(* child, a frame stored that control places outside the interval: before  *)
(* its start, or at or after the operator's stop or the fault.             *)
(* Its log is the acquisition at its start, every batch that control sent, *)
(* in order, and the release at its cutoff, last.                          *)
(***************************************************************************)
WindowExact ==
    /\ Sealed => stored.frames = {r \in read : child.start <= r /\ r < child.cutoff}
    /\ child.state \in {"recording", "finalizing"} => \A r \in stored.frames :
        /\ control.start <= r
        /\ control.cutoff # None => r < control.cutoff
    /\ child.state = "finalizing" =>
        stored.log = <<<<"acquired", child.start>>>>
                        \o [i \in DOMAIN control.sent |-> <<"samples", control.sent[i]>>]
                        \o <<<<"released", child.cutoff>>>>

(***************************************************************************)
(* The child seals an episode only after control has confirmed the hold of *)
(* that very episode, also when the confirmation of an earlier one and the *)
(* stop of this one are all the child has seen; and however commands,      *)
(* rejections and cancellations follow each other, the times control sends *)
(* satisfy the checks the child makes on them.                             *)
(***************************************************************************)
ConfirmedBeforeSeal == ~refused /\ (child.state = "finalizing" => control.confirmed)

Active == child.state \in {"prepared", "recording", "finalizing", "cancelling"}

(***************************************************************************)
(* An episode that was confirmed, cancelled, or whose control process is   *)
(* gone does not stay open: it is reported, or the child gives it up.      *)
(***************************************************************************)
EpisodeEnds ==
    (Active /\ (~Alive \/ child.settled \/ child.state = "cancelling")) ~> ~Active

(***************************************************************************)
(* "one monotonic boundary between control records and camera admission":  *)
(* a sealed episode also holds the frames of its interval that the child   *)
(* read before the begin command reached it.                               *)
(***************************************************************************)
SharedBoundary == Sealed =>
    stored.frames = {r \in read \cup early : child.start <= r /\ r < child.cutoff}

(***************************************************************************)
(* The child is scheduled and receives its commands; a writer opens, ends  *)
(* when it is aborted, and commits or fails by the deadline of its finish; *)
(* time passes; and a silent owner is noticed.  Nothing makes an open      *)
(* writer fail.                                                            *)
(***************************************************************************)
Fairness ==
    /\ WF_vars(Loop) /\ WF_vars(ChildCloses) /\ SF_vars(TakeCommand)
    /\ WF_vars(Works) /\ WF_vars(Tick)
    /\ SF_vars(HeartbeatLost /\ ~Alive)

FairSpec == Spec /\ Fairness
=============================================================================
