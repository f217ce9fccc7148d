----------------------------- MODULE ShadowBatch -----------------------------
(***************************************************************************)
(* shadow.py with the episode session of session.py: a batch of camera     *)
(* episodes recorded one after the other, a report that is rewritten after *)
(* each of them, and a cleanup that has to leave a true report whatever    *)
(* failed or interrupted the batch.                                        *)
(*                                                                         *)
(* A statement of the loop is a step; it may raise, or be interrupted.     *)
(* The thread that finishes an episode takes steps in between.  Frames and *)
(* time are left out: when an episode stops is a choice.                   *)
(***************************************************************************)
EXTENDS Integers, Sequences

CONSTANTS
    None,
    Episodes, \* Options.episodes
    Feedback  \* Options.read_feedback

VARIABLES
    batch,   \* where run is, its report, and what is left to close
    devices, \* the cameras and the feedback readers
    owner,   \* Session.state and the writer of its episode
    output   \* the episode directories and report.json

vars == <<batch, devices, owner, output>>

Readers == IF Feedback THEN {"readers"} ELSE {}

\* What the cleanup closes, one after the other.
Closers ==
    IF Feedback THEN <<"readers", "session", "source">> ELSE <<"session", "source">>

Init ==
    /\ batch = [at |-> "opening", state |-> "running", listed |-> 0, active |-> None,
                closers |-> Closers, errors |-> FALSE, slipped |-> FALSE]
    /\ devices = [d \in Readers \cup {"source"} |-> "new"]
    /\ owner = [state |-> "none", writer |-> "none"]
    /\ output = [committed |-> {}, report |-> None]

At(place) == batch.at = place
To(place) == batch' = [batch EXCEPT !.at = place]
Report(b) == [state |-> b.state, listed |-> b.listed, active |-> b.active]
Writes(b) == output' = [output EXCEPT !.report = Report(b)]

-----------------------------------------------------------------------------
(* The episode's writer and the thread that finishes it.                    *)

Writing == owner.writer \in {"open", "finishing"}

Commits ==
    /\ owner.writer = "finishing"
    /\ owner' = [owner EXCEPT !.writer = "committed"]
    /\ output' = [output EXCEPT !.committed = @ \cup {batch.listed}]
    /\ UNCHANGED <<batch, devices>>

WriterFails ==
    /\ Writing /\ owner' = [owner EXCEPT !.writer = "failed"]
    /\ UNCHANGED <<batch, devices, output>>

\* Session.abort, which revokes what is not yet committed.
Aborted == [state |-> "failed", writer |-> IF Writing THEN "failed" ELSE owner.writer]

-----------------------------------------------------------------------------
(* run, up to the loop.                                                     *)

Begins ==
    /\ At("opening") /\ To("source") /\ Writes(batch)
    /\ UNCHANGED <<devices, owner>>

Starts(device, next) ==
    /\ At(device) /\ To(next)
    /\ devices' = [devices EXCEPT ![device] = "running"]
    /\ UNCHANGED <<owner, output>>

StartsDevices ==
    \/ Starts("source", IF Feedback THEN "readers" ELSE "session")
    \/ Feedback /\ Starts("readers", "session")

MakesSession ==
    /\ At("session") /\ To("poll") /\ owner' = [owner EXCEPT !.state = "idle"]
    /\ UNCHANGED <<devices, output>>

-----------------------------------------------------------------------------
(* _collect.                                                                *)

\* The sources are read, and nothing is completed yet.
Polls ==
    /\ At("poll") /\ owner.writer # "failed"
    /\ owner.state # "finalizing" \/ owner.writer = "finishing"
    /\ To("start") /\ UNCHANGED <<devices, owner, output>>

PollCompletes ==
    /\ At("poll") /\ owner.state = "finalizing" /\ owner.writer = "committed"
    /\ To("append") /\ owner' = [state |-> "idle", writer |-> "none"]
    /\ UNCHANGED <<devices, output>>

Appends ==
    /\ At("append")
    /\ batch' = [batch EXCEPT !.at = "write", !.listed = @ + 1]
    /\ UNCHANGED <<devices, owner, output>>

WritesReport ==
    /\ At("write") /\ Writes(batch)
    /\ IF batch.listed = Episodes
       THEN batch' = [batch EXCEPT !.at = "cleanup", !.state = "completed"] ELSE To("start")
    /\ UNCHANGED <<devices, owner>>

StartsEpisode ==
    /\ At("start") /\ To("record")
    /\ owner' = IF owner.state = "idle" THEN [state |-> "recording", writer |-> "open"] ELSE owner
    /\ UNCHANGED <<devices, output>>

\* Frames and samples are submitted; past the deadline the episode stops.
Records ==
    /\ At("record") /\ To("poll")
    /\ \/ owner' = owner
       \/ /\ owner.state = "recording" /\ owner.writer = "open"
          /\ owner' = [state |-> "finalizing", writer |-> "finishing"]
    /\ UNCHANGED <<devices, output>>

\* A statement raises or is interrupted.  An error of the session aborts its
\* episode; an interrupt that comes between poll and append slips by it.
Raises ==
    /\ batch.at \in {"opening", "source", "readers", "session", "poll", "append", "write", "start", "record"}
    /\ \E state \in {"failed", "interrupted"} :
          batch' = [batch EXCEPT !.at = "cleanup", !.state = state, !.slipped = At("append")]
    /\ \/ owner' = owner
       \/ At("poll") /\ owner.writer = "failed" /\ owner' = Aborted
       \/ At("record") /\ owner.state # "none" /\ owner' = Aborted
    /\ UNCHANGED <<devices, output>>

-----------------------------------------------------------------------------
(* The cleanup.                                                             *)

\* The active episode is noted and every producer asked to stop before one
\* of them is waited for.
CleansUp ==
    /\ At("cleanup")
    /\ batch' = [batch EXCEPT !.at = "closing",
                              !.active = IF owner.writer = "none" THEN None ELSE batch.listed]
    /\ devices' = [d \in DOMAIN devices |-> IF devices[d] = "running" THEN "stopping" ELSE devices[d]]
    /\ UNCHANGED <<owner, output>>

\* A close may raise, and is over then; the next one still happens.
Closes ==
    /\ At("closing") /\ batch.closers # <<>>
    /\ LET x == Head(batch.closers) IN
       /\ \E errors \in {batch.errors, TRUE} :
             /\ batch' = [batch EXCEPT !.closers = Tail(@), !.errors = errors]
             /\ devices' = IF x # "session" /\ errors = batch.errors
                           THEN [devices EXCEPT ![x] = "closed"] ELSE devices
       /\ owner' = IF x = "session" THEN Aborted ELSE owner
    /\ UNCHANGED output

FinalState == IF batch.errors THEN "failed" ELSE batch.state

Ends ==
    /\ At("closing") /\ batch.closers = <<>>
    /\ batch' = [batch EXCEPT !.at = "ended", !.state = FinalState]
    /\ Writes([batch EXCEPT !.state = FinalState]) \/ output' = output
    /\ UNCHANGED <<devices, owner>>

\* The process is killed, or interrupted once more while it cleans up.
Dies ==
    /\ ~At("ended") /\ ~At("dead") /\ To("dead")
    /\ owner' = [owner EXCEPT !.writer = IF Writing THEN "failed" ELSE owner.writer]
    /\ UNCHANGED <<devices, output>>

Next ==
    \/ Commits \/ WriterFails \/ Begins \/ StartsDevices \/ MakesSession
    \/ Polls \/ PollCompletes \/ Appends \/ WritesReport \/ StartsEpisode \/ Records \/ Raises
    \/ CleansUp \/ Closes \/ Ends \/ Dies

Spec == Init /\ [][Next]_vars

-----------------------------------------------------------------------------
(* Properties.                                                              *)

TypeOK ==
    /\ batch.listed \in 0..Episodes /\ output.committed \subseteq 0..Episodes
    /\ owner.state \in {"none", "idle", "recording", "finalizing", "failed"}

Listed == 0..(output.report.listed - 1)

(* The report on disk tells what the batch left, at every moment: what it   *)
(* lists is committed, of what is committed it misses at most one episode,  *)
(* and it says completed only when all were recorded.  When run is over it  *)
(* says how, what it misses is the active episode it names, unless an       *)
(* interrupt came just between the two, and a device that is not closed is  *)
(* never part of a completed batch.                                         *)
BatchTruthful ==
    /\ output.report # None =>
         /\ Listed \subseteq output.committed
         /\ \A e, f \in output.committed \ Listed : e = f
         /\ output.report.state = "completed" => output.report.listed = Episodes
    /\ (batch.at = "ended" /\ output.report # None /\ output.report.state # "running") =>
         /\ output.report.state = "completed" => \A d \in DOMAIN devices : devices[d] = "closed"
         /\ output.committed \subseteq Listed \cup {output.report.active} \/ batch.slipped
=============================================================================
