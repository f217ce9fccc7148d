------------------------- MODULE CollectionSession -------------------------
(***************************************************************************)
(* control/collection.Session: the control thread that records episodes    *)
(* around teleoperation.  One loop (teleop.drive) alternates Session.step  *)
(* with at most one key; step polls the recorder, reads feedback, steps    *)
(* motion and then advances the phase.  Each of those is an action here,   *)
(* so that the recorder child, Ctrl+C and the devices act in between.      *)
(*                                                                         *)
(* The recorder is another process: commands and replies are two FIFO      *)
(* queues, the child checks every command against its own state            *)
(* (recording._Capture over session.Session), and may die at any moment.   *)
(*                                                                         *)
(* Data abstraction: receipts are before or at the episode's cutoff; an    *)
(* episode is its number; a device failure is "soft" when the controller   *)
(* still works and "hard" when it latched a fault.                         *)
(***************************************************************************)
EXTENDS Naturals, Sequences, FiniteSets

CONSTANTS
    None,                   \* no episode, no rejection, no choice, no file
    MaxEpisodes,            \* bound: episodes of a session
    Capacity,               \* capacity of the command queue
    InterruptInCompletion   \* a signal may arrive between listing and retiring

ASSUME BoundsAssumption ==
    /\ MaxEpisodes \in Nat \ {0}
    /\ Capacity \in Nat \ {0}
    /\ InterruptInCompletion \in BOOLEAN

VARIABLES
    pc,         \* where the control loop is
    phase,      \* Session.phase
    active,     \* Session.active, or None
    completed,  \* Session.completed, the entries of session.json
    quit,       \* Session.quit
    rejection,  \* Session.rejection, or None
    motion,     \* Teleoperation.state (waiting_leader counted as engaging)
    inbox,      \* Recorder.commands
    outbox,     \* Recorder.replies
    child,      \* the recorder process
    disk,       \* the directory of each episode
    outcome,    \* outcome.json of each episode, or None
    faulted,    \* history: episodes a fault or an interrupt hit while active
    refused     \* history: the child refused a command as out of protocol

loopVars == <<phase, active, completed, quit, rejection, motion>>
childVars == <<outbox, child, disk>>
historyVars == <<faulted, refused>>
vars == <<pc, loopVars, inbox, childVars, outcome, historyVars>>

Episodes == 0..(MaxEpisodes - 1)
Lossy == {"motion", "recorder", "readers"}

NewChild == [state |-> "idle", id |-> 0, acked |-> FALSE, frozen |-> FALSE,
             flushed |-> FALSE, cutoff |-> FALSE, settled |-> FALSE]
DeadChild == [NewChild EXCEPT !.state = "dead"]

Init ==
    /\ pc = "loop"
    /\ phase = "idle" /\ active = None /\ completed = <<>>
    /\ quit = FALSE /\ rejection = None
    /\ motion = "needs_home"
    /\ inbox = <<>> /\ outbox = <<>>
    /\ child = NewChild
    /\ disk = [e \in Episodes |-> "none"]
    /\ outcome = [e \in Episodes |-> None]
    /\ faulted = {} /\ refused = FALSE

-----------------------------------------------------------------------------
(* Episode and Rejection.                                                   *)

NewEpisode == [id |-> Len(completed), started |-> FALSE, cutoff |-> FALSE,
               settled |-> FALSE, stopSent |-> FALSE, reason |-> "unstarted",
               interrupted |-> FALSE]

\* Mutant of Disposition: the operator's reason outranks the interruption.
UpgradedDisposition(a) ==
    CASE a.reason = "space" -> "success"
      [] a.reason = "fail" -> "fail"
      [] OTHER -> "aborted"

Disposition(a) ==
    CASE ~a.interrupted /\ a.reason = "space" -> "success"
      [] ~a.interrupted /\ a.reason = "fail" -> "fail"
      [] OTHER -> "aborted"

Interrupted(a) == IF a = None THEN None ELSE [a EXCEPT !.interrupted = TRUE]

Unavailable == IF rejection = None THEN {} ELSE rejection.unavailable

\* _guarded runs an operation only while its component is available.
Usable(component) == component \notin Unavailable

\* Recorder.send is put_nowait: it raises when the queue is full.
Room == Len(inbox) < Capacity
Command(operation, a) == [operation |-> operation, episode |-> a.id]
Send(operation, a) == inbox' = Append(inbox, Command(operation, a))

Entry(a, verified) ==
    [id |-> a.id, verified |-> verified, settled |-> a.settled,
     disposition |-> IF verified THEN Disposition(a) ELSE "aborted"]

Partial(a) == completed' = Append(completed, Entry(a, FALSE))

-----------------------------------------------------------------------------
(* _reject, with the episode and the motion state the failing call left.    *)

\* Mutant of MotionAfterReject: a rejection without a controller fault leaves
\* the arm under way.
MotionLeftAlone(m, hard, stopped) == IF hard THEN "blocked" ELSE m

\* motion.reject: a controller fault blocks; otherwise stop what still moves.
MotionAfterReject(m, hard, stopped) ==
    CASE hard -> "blocked"
      [] ~hard /\ m \notin {"stopping", "held"} /\ stopped -> "stopping"
      [] OTHER -> m

StopUnconfirmed(m, hard, stopped) ==
    hard \/ (m \notin {"stopping", "held"} /\ ~stopped)

\* A first failure: latch the interruption, stop the arm, freeze the capture.
BeginRejection(component, a, m, hard, quitting) ==
    \E stopped \in BOOLEAN :
      LET freeze == /\ a # None /\ phase # "finalizing" /\ component # "recorder"
                    /\ a.started /\ ~a.stopSent
          lost == (IF StopUnconfirmed(m, hard, stopped) THEN {"motion"} ELSE {})
                  \cup ({component} \ {"motion", "session"})
                  \cup (IF freeze /\ ~Room THEN {"recorder"} ELSE {})
          choice == IF a # None /\ a.reason = "abort" THEN "abort"
                    ELSE IF quitting THEN "save" ELSE None
      IN  /\ rejection' = [unavailable |-> lost, choice |-> choice,
                           stopped |-> FALSE, overdue |-> FALSE]
          /\ active' = IF a = None THEN None
                       ELSE [Interrupted(a) EXCEPT !.cutoff = @ \/ a.started]
          /\ faulted' = IF a = None THEN faulted ELSE faulted \cup {a.id}
          /\ motion' = MotionAfterReject(m, hard, stopped)
          /\ phase' = IF phase = "finalizing" /\ component # "recorder"
                      THEN phase ELSE "review"
          /\ inbox' = IF freeze /\ Room 
                      THEN Append(inbox, Command("freeze", a)) ELSE inbox

\* A later failure only takes its component away (and faults the controller).
ExtendRejection(component, a, m) ==
    /\ rejection' = [rejection EXCEPT !.unavailable = @ \cup ({component} \cap Lossy)]
    /\ active' = a
    /\ motion' = m
    /\ phase' = IF component = "recorder" THEN "review" ELSE phase
    /\ UNCHANGED <<inbox, faulted>>

RejectCall(component, a, m, hard, quitting) ==
    /\ IF rejection = None THEN BeginRejection(component, a, m, hard, quitting)
                           ELSE ExtendRejection(component, a, m)
    /\ quit' = quitting
    /\ UNCHANGED <<completed, childVars, refused>>

RejectWith(component, a, m, hard, quitting) ==
    /\ RejectCall(component, a, m, hard, quitting)
    /\ UNCHANGED outcome

Reject(component) == RejectWith(component, active, motion, FALSE, quit)

-----------------------------------------------------------------------------
(* The head of the loop: leave it when done, and close.                     *)

Done ==
    /\ quit
    /\ active = None \/ phase = "closing"
    /\ phase \in {"idle", "blocked", "closing"}
    /\ motion \in {"needs_home", "ready", "held", "engaging"} \/ ~Usable("motion")

Loop ==
    /\ pc = "loop" /\ ~Done
    /\ pc' = "poll"
    /\ UNCHANGED <<loopVars, inbox, childVars, outcome, historyVars>>

\* Mutant of Sidecars: verified entries are not skipped.
SidecarsForAll(entries, directories) ==
    [e \in Episodes |->
        IF directories[e] # "none" /\ \E i \in DOMAIN entries : entries[i].id = e
        THEN [disposition |-> "aborted", verified |-> FALSE]
        ELSE outcome[e]]

\* _unfinished_outcomes: no sidecar for an episode that has no directory.
Sidecars(entries, directories) ==
    [e \in Episodes |->
        IF /\ directories[e] # "none"
           /\ \E i \in DOMAIN entries : entries[i].id = e /\ ~entries[i].verified
        THEN [disposition |-> "aborted", verified |-> FALSE]
        ELSE outcome[e]]

\* close, with the episode as the interruption left it.  The child is reaped
\* first; a commit it was about to make may still happen.
CloseWith(a) ==
    /\ pc' = "closed"
    /\ active' = None
    /\ completed' = IF a = None THEN completed ELSE Append(completed, Entry(a, FALSE))
    /\ phase' = IF a = None THEN phase ELSE "resolving"
    /\ motion' = "closed"
    /\ inbox' = <<>> /\ outbox' = <<>>
    /\ child' = DeadChild
    /\ \/ UNCHANGED disk
       \/ child.state = "finalizing" /\ disk' = [disk EXCEPT ![child.id] = "committed"]
    /\ outcome' = Sidecars(completed', disk')
    /\ UNCHANGED <<quit, rejection, refused>>

CloseDone ==
    /\ pc = "loop" /\ Done
    /\ CloseWith(active)
    /\ UNCHANGED faulted

\* Ctrl+C, SIGTERM, end of the terminal, or an error that leaves step.
Interrupt ==
    /\ pc # "closed"
    /\ pc = "retire" => InterruptInCompletion
    /\ CloseWith(Interrupted(active))
    /\ faulted' = IF active = None THEN faulted ELSE faulted \cup {active.id}

-----------------------------------------------------------------------------
(* step: recorder replies.                                                  *)

PollNothing ==
    /\ pc = "poll"
    /\ Usable("recorder") => child.state # "dead" /\ outbox = <<>>
    /\ pc' = "move"
    /\ UNCHANGED <<loopVars, inbox, childVars, outcome, historyVars>>

\* poll raises: the child is dead (noticed before any reply it left behind is
\* handled), sent an error, gave no sign of life for too long, or takes no more
\* heartbeats.  A child that lives on may still commit what it seals.
PollFails ==
    /\ pc = "poll" /\ Usable("recorder")
    /\ pc' = "move"
    /\ Reject("recorder")

Reply(operation) ==
    /\ pc = "poll" /\ Usable("recorder")
    /\ child.state # "dead"
    /\ outbox # <<>> /\ Head(outbox) = operation

\* motion.key may ignore Space: its own debounce, or a closed gripper.
ReplyPrepared ==
    /\ Reply("prepare")
    /\ phase = "preparing"
    /\ motion' \in {motion, "engaging"}
    /\ phase' = "engaging"
    /\ outbox' = Tail(outbox)
    /\ UNCHANGED <<pc, active, completed, quit, rejection, inbox, child, disk,
                   outcome, historyVars>>

ReplyPreparedLate ==
    /\ Reply("prepare")
    /\ phase # "preparing"
    /\ quit \/ rejection # None
    /\ outbox' = Tail(outbox)
    /\ UNCHANGED <<pc, loopVars, inbox, child, disk, outcome, historyVars>>

\* The partial is listed before the episode retires.
ReplyCancelled ==
    /\ Reply("cancelled")
    /\ phase = "cancelling"
    /\ Partial(active)
    /\ outbox' = Tail(outbox)
    /\ pc' = "retire"
    /\ UNCHANGED <<phase, active, quit, rejection, motion, inbox, child, disk,
                   outcome, historyVars>>

\* The rest of _partial, called for a reply or by _review.
RetirePartial ==
    /\ pc = "retire" /\ phase # "finalizing"
    /\ active' = None
    /\ phase' = "resolving"
    /\ pc' = IF phase = "cancelling" THEN "poll" ELSE "key"
    /\ UNCHANGED <<completed, quit, rejection, motion, inbox, childVars,
                   outcome, historyVars>>

MayComplete == active.settled

WithOutcome(a) == [outcome EXCEPT ![a.id] =
                     [disposition |-> Disposition(a), verified |-> TRUE]]

\* The outcome is on disk and the entry is listed before the episode retires.
ReplyComplete ==
    /\ Reply("complete")
    /\ phase = "finalizing" /\ MayComplete
    /\ outcome' = WithOutcome(active)
    /\ completed' = Append(completed, Entry(active, TRUE))
    /\ outbox' = Tail(outbox)
    /\ pc' = "retire"
    /\ UNCHANGED <<phase, active, quit, rejection, motion, inbox, child, disk,
                   historyVars>>

\* write_outcome raises, before or after it replaced outcome.json: the reply is
\* lost and the episode stays unlisted.
ReplyCompleteFails ==
    /\ Reply("complete")
    /\ phase = "finalizing" /\ MayComplete
    /\ outcome' \in {outcome, WithOutcome(active)}
    /\ pc' = "move"
    /\ RejectCall("recorder", active, motion, FALSE, quit)

Retire ==
    /\ pc = "retire" /\ phase = "finalizing"
    /\ active' = None
    /\ phase' = IF rejection = None THEN "idle" ELSE "resolving"
    /\ pc' = "poll"
    /\ UNCHANGED <<completed, quit, rejection, motion, inbox, childVars,
                   outcome, historyVars>>

\* The replies for which _replies raises.  None ever arrives (see
\* ProtocolRespected), so raising is not an action of this model.
ReplyUnexpected ==
    \/ Reply("prepare") /\ phase # "preparing" /\ ~quit /\ rejection = None
    \/ Reply("cancelled") /\ phase # "cancelling"
    \/ Reply("complete") /\ (phase # "finalizing" \/ ~MayComplete)

-----------------------------------------------------------------------------
(* step: feedback readers, then motion.                                     *)

\* A read that succeeds only refreshes the receipts.
ReadFails ==
    /\ pc = "move" /\ Usable("readers")
    /\ Reject("readers")
    /\ UNCHANGED pc

MotionMay(m) ==
    CASE m = "homing" -> {"homing", "ready"}
      [] m = "engaging" -> {"engaging", "following"}
      [] m = "stopping" -> {"stopping", "held"}
      [] OTHER -> {m}

MoveOn ==
    /\ pc = "move" /\ Usable("motion")
    /\ motion' \in MotionMay(motion)
    /\ pc' = "record"
    /\ UNCHANGED <<phase, active, completed, quit, rejection, inbox, childVars,
                   outcome, historyVars>>

MoveFails(hard) ==
    /\ pc = "move" /\ Usable("motion")
    /\ pc' = "record"
    /\ RejectWith("motion", active, motion, hard, quit)

\* Motion is lost: only the independent readers can show that the arm stopped
\* (Rejection.observe); without them the last verdict soon goes stale.
Observe ==
    /\ pc = "move" /\ ~Usable("motion")
    /\ \E stopped \in {FALSE} \cup {Usable("readers") \/ rejection.stopped} :
         rejection' = [rejection EXCEPT !.stopped = stopped]
    /\ pc' = "record"
    /\ UNCHANGED <<phase, active, completed, quit, motion, inbox, childVars,
                   outcome, historyVars>>

\* More than STOP_TIMEOUT_NS since the rejection began; only _review asks, and
\* only once motion is lost.
Overdue ==
    /\ rejection # None
    /\ ~Usable("motion") /\ ~rejection.overdue
    /\ rejection' = [rejection EXCEPT !.overdue = TRUE]
    /\ UNCHANGED <<pc, phase, active, completed, quit, motion, inbox, childVars,
                   outcome, historyVars>>

-----------------------------------------------------------------------------
(* step: recording begins, runs and stops.                                  *)

Started == [active EXCEPT !.started = TRUE, !.reason = "recording"]

\* _begin, and in the same step _samples.  Every earlier command was answered:
\* the queue has room.
Begin ==
    /\ pc = "record" /\ phase = "engaging" /\ motion = "following"
    /\ active' = Started
    /\ phase' = "recording"
    /\ Send("begin", active)
    /\ UNCHANGED <<pc, completed, quit, rejection, motion, childVars,
                   outcome, historyVars>>

\* _samples; a step without new samples sends nothing.
Record ==
    /\ pc = "record" /\ phase = "recording"
    /\ pc' = "key"
    /\ \/ UNCHANGED <<loopVars, inbox, childVars, outcome, historyVars>>
       \/ /\ Room
          /\ Send("samples", active)
          /\ UNCHANGED <<loopVars, childVars, outcome, historyVars>>
       \/ ~Room /\ Reject("recorder")

\* The first half of _stopping: a measured hold, or an independent standstill.
Settled ==
    IF active # None /\ active.started
         /\ ((motion = "held" /\ Usable("motion"))
               \/ (rejection # None /\ rejection.stopped))
    THEN [active EXCEPT !.settled = TRUE]
    ELSE active

\* Mutant of MayFlush: the tail is flushed again after the stop was sent.
MayFlushAgain ==
    /\ active # None /\ active.started
    /\ Usable("readers") /\ Usable("recorder")

MayFlush ==
    /\ active # None /\ active.started /\ ~active.stopSent
    /\ Usable("readers") /\ Usable("recorder")

\* One of the two receipt streams has not reached the cutoff, or nothing is due.
TailWaits ==
    /\ pc = "record" /\ phase \in {"stopping", "review"}
    /\ active' = Settled
    /\ pc' = "dispose"
    /\ UNCHANGED <<phase, completed, quit, rejection, motion, inbox, childVars,
                   outcome, historyVars>>

\* _tail: both streams crossed the cutoff; flush what was held back, then stop.
TailCloses ==
    /\ pc = "record" /\ phase \in {"stopping", "review"}
    /\ MayFlush
    /\ pc' = "dispose"
    /\ \E last \in {<<"stop">>, <<"flush", "stop">>} :
         IF Len(inbox) + Len(last) <= Capacity
         THEN /\ inbox' = inbox \o [i \in DOMAIN last |-> Command(last[i], active)]
              /\ active' = [Settled EXCEPT !.stopSent = TRUE]
              /\ UNCHANGED <<phase, completed, quit, rejection, motion, childVars,
                             outcome, historyVars>>
         ELSE RejectWith("recorder", Settled, motion, FALSE, quit)

RecordIdle ==
    /\ pc = "record"
    /\ phase \notin {"recording", "stopping", "review", "resolving"}
    /\ ~(phase = "engaging" /\ motion = "following")
    /\ pc' = "key"
    /\ UNCHANGED <<loopVars, inbox, childVars, outcome, historyVars>>

\* _finalize
Finalize ==
    IF Room
    THEN /\ Send("settled", active)
         /\ phase' = "finalizing"
         /\ UNCHANGED <<active, completed, quit, rejection, motion, childVars,
                        outcome, historyVars>>
    ELSE Reject("recorder")

-----------------------------------------------------------------------------
(* step: the operator's disposition of a rejected episode.                  *)

\* _resolved, entered from resolving or from review.
ResolvedTo(next) ==
    /\ CASE rejection.unavailable # {} -> phase' = "blocked" /\ UNCHANGED rejection
         [] rejection.unavailable = {} /\ motion = "held" ->
              phase' = "idle" /\ rejection' = None
         [] OTHER -> phase' = next /\ UNCHANGED rejection
    /\ UNCHANGED <<active, completed, quit, motion, inbox, childVars,
                   outcome, historyVars>>

Resolve ==
    /\ pc = "record" /\ phase = "resolving"
    /\ pc' = "key"
    /\ ResolvedTo("resolving")

\* _cancel, after the operator's choice became "choice"; a partial listed here
\* is retired by RetirePartial.
Cancel(choice) ==
    CASE ~Usable("recorder") ->
           /\ Partial(active)
           /\ rejection' = [rejection EXCEPT !.choice = choice]
           /\ UNCHANGED <<phase, active, quit, motion, inbox, childVars,
                          outcome, historyVars>>
      [] Usable("recorder") /\ Room ->
           /\ phase' = "cancelling"
           /\ Send("cancel", active)
           /\ rejection' = [rejection EXCEPT !.choice = choice]
           /\ UNCHANGED <<active, completed, quit, motion, childVars,
                          outcome, historyVars>>
      [] OTHER ->
           /\ phase' = "review"
           /\ rejection' = [rejection EXCEPT !.choice = choice,
                              !.unavailable = @ \cup {"recorder"}]
           /\ UNCHANGED <<active, completed, quit, motion, inbox, childVars,
                          outcome, historyVars>>

\* Mutant of Unverifiable: the quit is forgotten.
UnverifiableAsks ==
    /\ rejection' = [rejection EXCEPT !.choice = None]
    /\ UNCHANGED <<phase, active, completed, quit, motion, inbox, childVars,
                   outcome, historyVars>>

\* The episode cannot be verified: ask again, or keep the partial on quit.
Unverifiable ==
    IF quit
    THEN Cancel(None)
    ELSE /\ rejection' = [rejection EXCEPT !.choice = None]
         /\ UNCHANGED <<phase, active, completed, quit, motion, inbox, childVars,
                        outcome, historyVars>>

\* Mutant of StopConfirmed: the operator's choice alone finalizes.
StopAssumed == TRUE

StopConfirmed == (motion = "held" /\ Usable("motion")) \/ rejection.stopped

\* _review
Review ==
    /\ rejection.choice # None
    /\ CASE active = None -> ResolvedTo("resolving")
         [] active # None /\ (rejection.choice = "abort" \/ ~active.started) ->
              Cancel(rejection.choice)
         [] active # None /\ active.started /\ rejection.choice = "save" ->
              CASE rejection.unavailable \ {"motion"} # {} -> Unverifiable
                [] rejection.unavailable \subseteq {"motion"}
                     /\ active.stopSent /\ StopConfirmed -> Finalize
                [] rejection.unavailable = {"motion"}
                     /\ ~(active.stopSent /\ StopConfirmed)
                     /\ rejection.overdue -> Unverifiable
                [] OTHER -> UNCHANGED <<loopVars, inbox, childVars,
                                        outcome, historyVars>>

\* The second half of _stopping.
Dispose ==
    /\ pc = "dispose"
    /\ CASE phase = "stopping" /\ motion = "held" /\ active.stopSent -> Finalize
         [] phase = "review" /\ rejection.choice # None -> Review
         [] OTHER -> UNCHANGED <<loopVars, inbox, childVars, outcome, historyVars>>
    /\ pc' = IF completed' = completed THEN "key" ELSE "retire"

-----------------------------------------------------------------------------
(* key: at most one key after each step.  A key inside the debounce         *)
(* interval is no key; only q is never debounced.                           *)

NoKey ==
    /\ pc = "key"
    /\ pc' = "loop"
    /\ UNCHANGED <<loopVars, inbox, childVars, outcome, historyVars>>

Key == pc = "key" /\ pc' = "loop"

KeyReview(choice) ==
    /\ Key
    /\ phase = "review"
    /\ rejection' = [rejection EXCEPT !.choice = choice]
    /\ UNCHANGED <<phase, active, completed, quit, motion, inbox, childVars,
                   outcome, historyVars>>

\* _stop: the reason is set first; the cutoff only when the arm is stopping.
Stop(reason, quitting) ==
    /\ active' = [active EXCEPT !.reason = reason, !.cutoff = TRUE]
    /\ motion' = "stopping"
    /\ phase' = "stopping"
    /\ quit' = quitting
    /\ UNCHANGED <<completed, rejection, inbox, childVars, outcome, historyVars>>

KeyStop(reason) ==
    /\ Key
    /\ phase = "recording"
    /\ Stop(reason, quit)

\* halt could not stop the arm: the controller latched a fault.
KeyStopFails(reason) ==
    /\ Key
    /\ phase = "recording"
    /\ RejectWith("session", [active EXCEPT !.reason = reason], motion, TRUE, quit)

KeyEngage ==
    /\ Key
    /\ phase = "engaging" /\ motion = "ready"
    /\ motion' = "engaging"
    /\ UNCHANGED <<phase, active, completed, quit, rejection, inbox, childVars,
                   outcome, historyVars>>

KeyPrepare ==
    /\ Key
    /\ phase = "idle" /\ ~quit /\ motion = "ready"
    /\ Len(completed) < MaxEpisodes
    /\ active' = NewEpisode
    /\ Send("prepare", NewEpisode)
    /\ phase' = "preparing"
    /\ UNCHANGED <<completed, quit, rejection, motion, childVars,
                   outcome, historyVars>>

\* Space in idle goes to motion: HOME, or a stop on the way.
KeyHome ==
    /\ Key
    /\ phase = "idle" /\ ~quit
    /\ \/ motion \in {"needs_home", "held"} /\ motion' = "homing"
       \/ motion = "homing" /\ motion' = "stopping"
    /\ UNCHANGED <<phase, active, completed, quit, rejection, inbox, childVars,
                   outcome, historyVars>>

\* The gripper failed, or go_ready or halt did and latched a controller fault.
KeyHomeFails(hard) ==
    /\ Key
    /\ phase = "idle" /\ ~quit
    /\ motion \in {"needs_home", "held", "homing"}
    /\ RejectWith("session", active, motion, hard, quit)

\* _quit
KeyQuit ==
    /\ Key
    /\ CASE rejection # None ->
              /\ quit' = TRUE
              /\ rejection' = IF phase = "review"
                              THEN [rejection EXCEPT !.choice = "save"]
                              ELSE rejection
              /\ UNCHANGED <<phase, active, completed, motion, inbox, childVars,
                             outcome, historyVars>>
         [] rejection = None /\ phase = "recording" -> Stop("session_end", TRUE)
         [] rejection = None /\ phase # "recording" /\ motion = "homing" ->
              /\ quit' = TRUE
              /\ motion' = "stopping"
              /\ UNCHANGED <<phase, active, completed, rejection, inbox, childVars,
                             outcome, historyVars>>
         [] rejection = None /\ motion # "homing"
              /\ phase \in {"preparing", "engaging"} ->
              /\ quit' = TRUE
              /\ active' = [active EXCEPT !.reason = "session_end"]
              /\ phase' = "closing"
              /\ UNCHANGED <<completed, rejection, motion, inbox, childVars,
                             outcome, historyVars>>
         [] OTHER ->
              /\ quit' = TRUE
              /\ UNCHANGED <<phase, active, completed, rejection, motion, inbox,
                             childVars, outcome, historyVars>>

\* The stop that q asks for fails; the rejection already knows of the quit.
KeyQuitFails ==
    /\ Key
    /\ rejection = None
    /\ phase = "recording" \/ motion = "homing"
    /\ RejectWith("session",
                  IF phase = "recording" THEN [active EXCEPT !.reason = "session_end"]
                                         ELSE active,
                  motion, TRUE, TRUE)

-----------------------------------------------------------------------------
(* The recorder process.                                                    *)

\* What _Capture.message and session.Session require of a command.
Accepts(c) ==
    CASE c.operation = "prepare" -> child.state = "idle" /\ disk[c.episode] = "none"
      [] c.operation = "begin" -> child.state = "prepared"
      [] c.operation = "samples" -> /\ child.state = "recording"
                                    /\ ~child.cutoff /\ ~child.frozen
      [] c.operation = "flush" -> /\ child.state = "recording"
                                  /\ ~child.cutoff /\ ~child.flushed
      [] c.operation \in {"freeze", "stop"} -> child.state = "recording"
      [] c.operation = "settled" -> child.cutoff
      [] c.operation = "cancel" -> child.state \in {"prepared", "recording"}

ChildAfter(c) ==
    CASE c.operation = "prepare" ->
           [child EXCEPT !.state = "prepared", !.id = c.episode, !.acked = FALSE]
      [] c.operation = "begin" ->
           [child EXCEPT !.state = "recording", !.frozen = FALSE, !.flushed = FALSE,
                         !.cutoff = FALSE, !.settled = FALSE]
      [] c.operation = "samples" -> child
      [] c.operation = "flush" -> [child EXCEPT !.flushed = TRUE]
      [] c.operation = "freeze" -> [child EXCEPT !.frozen = TRUE]
      [] c.operation = "stop" -> [child EXCEPT !.cutoff = TRUE, !.frozen = TRUE]
      [] c.operation = "settled" -> [child EXCEPT !.settled = TRUE]
      [] c.operation = "cancel" ->
           [child EXCEPT !.state = "cancelling", !.frozen = FALSE,
                         !.cutoff = FALSE, !.settled = FALSE]

ChildTakes ==
    /\ child.state # "dead"
    /\ inbox # <<>>
    /\ inbox' = Tail(inbox)
    /\ LET c == Head(inbox)
       IN  IF Accepts(c)
           THEN /\ child' = ChildAfter(c)
                /\ disk' = IF c.operation = "prepare"
                           THEN [disk EXCEPT ![c.episode] = "partial"] ELSE disk
                /\ UNCHANGED refused
           ELSE /\ child' = DeadChild
                /\ refused' = TRUE
                /\ UNCHANGED disk
    /\ UNCHANGED <<pc, loopVars, outbox, outcome, faulted>>

ChildAcks ==
    /\ child.state = "prepared" /\ ~child.acked
    /\ child' = [child EXCEPT !.acked = TRUE]
    /\ outbox' = Append(outbox, "prepare")
    /\ UNCHANGED <<pc, loopVars, inbox, disk, outcome, historyVars>>

\* step: the cutoff is settled and the matching wait is over.
ChildFinalizes ==
    /\ child.state = "recording" /\ child.cutoff /\ child.settled
    /\ child' = [child EXCEPT !.state = "finalizing"]
    /\ UNCHANGED <<pc, loopVars, inbox, outbox, disk, outcome, historyVars>>

\* The writer's rename; the report follows in a later iteration.
ChildCommits ==
    /\ child.state = "finalizing"
    /\ child' = [child EXCEPT !.state = "committed"]
    /\ disk' = [disk EXCEPT ![child.id] = "committed"]
    /\ UNCHANGED <<pc, loopVars, inbox, outbox, outcome, historyVars>>

ChildReports ==
    /\ child.state \in {"committed", "cancelling"}
    /\ child' = [child EXCEPT !.state = "idle"]
    /\ outbox' = Append(outbox,
                   IF child.state = "committed" THEN "complete" ELSE "cancelled")
    /\ UNCHANGED <<pc, loopVars, inbox, disk, outcome, historyVars>>

\* A camera, codec, disk or heartbeat failure, or the abort flag.
ChildDies ==
    /\ child.state # "dead"
    /\ child' = DeadChild
    /\ UNCHANGED <<pc, loopVars, inbox, outbox, disk, outcome, historyVars>>

-----------------------------------------------------------------------------
Poll == \/ PollNothing \/ PollFails
        \/ ReplyPrepared \/ ReplyPreparedLate \/ ReplyCancelled
        \/ ReplyComplete \/ ReplyCompleteFails \/ Retire \/ RetirePartial

Move == MoveOn \/ Observe \/ \E hard \in BOOLEAN : MoveFails(hard)

Phases == Begin \/ Record \/ TailWaits \/ TailCloses \/ RecordIdle \/ Resolve \/ Dispose

Step == Loop \/ CloseDone \/ Poll \/ ReadFails \/ Move \/ Phases

Keys ==
    \/ NoKey
    \/ \E choice \in {"save", "abort"} : KeyReview(choice)
    \/ \E reason \in {"space", "fail", "abort"} : KeyStop(reason) \/ KeyStopFails(reason)
    \/ KeyEngage \/ KeyPrepare \/ KeyHome
    \/ \E hard \in BOOLEAN : KeyHomeFails(hard)
    \/ KeyQuit \/ KeyQuitFails

Running == pc # "closed"

Control == Step \/ Keys

Child == \/ ChildTakes \/ ChildAcks \/ ChildFinalizes \/ ChildCommits
         \/ ChildReports \/ ChildDies

Next == Control \/ Interrupt \/ (Running /\ (Child \/ Overdue))

Spec == Init /\ [][Next]_vars

-----------------------------------------------------------------------------
(* Properties.                                                              *)

EpisodeType ==
    [id : Nat, started : BOOLEAN, cutoff : BOOLEAN, settled : BOOLEAN,
     stopSent : BOOLEAN, interrupted : BOOLEAN,
     reason : {"unstarted", "recording", "space", "fail", "abort", "session_end"}]

RejectionType ==
    [unavailable : SUBSET Lossy, choice : {None, "save", "abort"},
     stopped : BOOLEAN, overdue : BOOLEAN]

EntryType ==
    [id : Nat, verified : BOOLEAN, settled : BOOLEAN,
     disposition : {"success", "fail", "aborted"}]

OutcomeType == [verified : BOOLEAN, disposition : {"success", "fail", "aborted"}]

ChildType ==
    [state : {"idle", "prepared", "recording", "finalizing", "committed",
              "cancelling", "dead"},
     id : Nat, acked : BOOLEAN, frozen : BOOLEAN, flushed : BOOLEAN,
     cutoff : BOOLEAN, settled : BOOLEAN]

CommandType ==
    [operation : {"prepare", "begin", "samples", "flush", "freeze", "stop",
                  "settled", "cancel"},
     episode : Nat]

ASSUME NoneAssumption == None \notin EpisodeType \cup RejectionType

TypeOK ==
    /\ pc \in {"loop", "poll", "retire", "move", "record",
               "dispose", "key", "closed"}
    /\ phase \in {"idle", "preparing", "engaging", "recording", "stopping",
                  "finalizing", "review", "cancelling", "resolving", "blocked",
                  "closing"}
    /\ active \in EpisodeType \cup {None}
    /\ completed \in Seq(EntryType)
    /\ quit \in BOOLEAN
    /\ rejection \in RejectionType \cup {None}
    /\ motion \in {"needs_home", "homing", "ready", "engaging", "following",
                   "stopping", "held", "blocked", "closed"}
    /\ inbox \in Seq(CommandType) /\ Len(inbox) <= Capacity
    /\ outbox \in Seq({"prepare", "cancelled", "complete"})
    /\ child \in ChildType
    /\ disk \in [Episodes -> {"none", "partial", "committed"}]
    /\ outcome \in [Episodes -> OutcomeType \cup {None}]
    /\ faulted \subseteq Nat
    /\ refused \in BOOLEAN

(***************************************************************************)
(* session.json, outcome.json and the directories tell one story.  What is *)
(* listed as verified is committed, was stopped under control and carries  *)
(* the same disposition in both files; success and fail are only ever      *)
(* given to such an episode, and never to one a fault hit while active.    *)
(* The n-th entry is the n-th episode: no episode is listed twice, and     *)
(* once the session is closed every directory that exists has its entry,   *)
(* and the files of every directory agree.  Provided that no signal falls  *)
(* between listing an episode, verified or partial, and retiring it        *)
(* (InterruptInCompletion): close would list it once more.                 *)
(***************************************************************************)
OutcomeTruthful ==
    /\ \A i \in DOMAIN completed :
        LET e == completed[i] IN
        /\ e.id = i - 1
        /\ e.verified => disk[e.id] = "committed" /\ e.settled
        /\ (e.verified \/ (pc = "closed" /\ disk[e.id] # "none")) =>
              outcome[e.id] = [disposition |-> e.disposition, verified |-> e.verified]
        /\ e.disposition # "aborted" => e.verified /\ e.id \notin faulted
    /\ pc = "closed" =>
         \A e \in Episodes : disk[e] # "none" => e < Len(completed)

(***************************************************************************)
(* Whatever the interleaving of keys, faults and replies, the child never  *)
(* receives a command its own state forbids, and every reply arrives in    *)
(* the phase that awaits it: _replies never raises "unexpected".           *)
(***************************************************************************)
ProtocolRespected ==
    /\ ~refused
    /\ ~ReplyUnexpected

(***************************************************************************)
(* Only a measured hold, or an independently observed standstill, permits  *)
(* finalization: while the recorder seals an episode the arm it recorded   *)
(* is not under way, and neither HOME nor a next engagement starts before  *)
(* the recorder has answered.                                              *)
(***************************************************************************)
StillWhileSealing ==
    (child.state \in {"finalizing", "committed"} /\ Running /\ Usable("recorder")) =>
        /\ phase = "finalizing" /\ active.settled
        /\ motion = "held" \/ ~Usable("motion")

(***************************************************************************)
(* The arm follows the leader only while an episode records it (or is      *)
(* about to, in the same step), goes HOME only between episodes, and does  *)
(* neither while a rejection is unresolved.                                *)
(***************************************************************************)
MotionAuthorized == Usable("motion") /\ Running =>
    /\ motion = "following" =>
          /\ rejection = None /\ active # None
          /\ phase = "recording" \/ (phase = "engaging" /\ pc = "record")
    /\ motion = "homing" => rejection = None /\ phase = "idle" /\ active = None
    /\ motion = "engaging" => rejection = None /\ phase \in {"engaging", "closing"}

(***************************************************************************)
(* An episode listed as verified is final: no later fault, key, interrupt  *)
(* or cleanup changes its entry, its outcome or its directory.             *)
(***************************************************************************)
VerifiedSurvives == [][\A i \in DOMAIN completed : completed[i].verified =>
    LET e == completed[i].id
    IN  /\ completed'[i] = completed[i]
        /\ outcome'[e] = outcome[e]
        /\ disk'[e] = disk[e]]_vars

(***************************************************************************)
(* The control thread keeps looping; a stopping arm is eventually held or  *)
(* faults at its deadline; receipts eventually cross a cutoff; the child   *)
(* serves its commands and its finalization is bounded; time passes.       *)
(***************************************************************************)
Serves == ChildTakes \/ ChildAcks \/ ChildFinalizes \/ ChildCommits \/ ChildReports

Fairness ==
    /\ WF_vars(Control)
    /\ SF_vars(MoveOn /\ motion = "stopping" /\ motion' = "held")
    /\ SF_vars(TailCloses)
    /\ WF_vars(Running /\ Serves)
    /\ WF_vars(Running /\ Overdue)

FairSpec == Spec /\ Fairness

\* The operator repeats q until the session ends.
InsistentSpec == FairSpec /\ SF_vars(KeyQuit)

(***************************************************************************)
(* "q: end the session" - whatever state the episode and the devices are   *)
(* in, a requested quit leads to the end of the loop.                      *)
(***************************************************************************)
QuitEnds == quit ~> pc = "closed"
=============================================================================
