----------------------------- MODULE ControlLog -----------------------------
(***************************************************************************)
(* How the log of an episode comes about: two processes read the arm and   *)
(* the gripper (feedback_source.py), feedback.Feedback supervises them and *)
(* drains their queues, control/records.py gives each record its number,   *)
(* control/collection.py decides what belongs to the episode, and the      *)
(* validator of control_records.py judges the result.                      *)
(*                                                                         *)
(* One episode, from the pass that engages the leader to the record that   *)
(* releases the arm.  A tick brings the samples of that moment, but they   *)
(* may be on their way between the processes for any number of passes of   *)
(* the loop, which take no time.  An episode whose readers have failed     *)
(* cannot be completed: what becomes of it is left to CollectionSession.   *)
(***************************************************************************)
EXTENDS ControlRecords, SequencesExt

CONSTANTS
    Stale,          \* STALE_NS
    QueueCapacity,  \* QUEUE_CAPACITY
    MaxNow, MaxTaken

Devices == {"ur", "hande"}

VARIABLES
    now,
    reader,    \* each device process: its queue, its status and all it took
    feedback,  \* Feedback._devices: the last receipt and sample of each
    session,   \* collection.Session: phase, boundaries, tail
    target,    \* controller.progress.target: number and time
    sequences, \* Records.sequences
    log,       \* what was recorded: the device samples and the targets
    validator, \* the state of the validator in the recorder
    verdict

vars == <<now, reader, feedback, session, target, sequences, log, validator, verdict>>

Init ==
    /\ now = 0
    /\ reader = [d \in Devices |-> [taken |-> <<>>, queue |-> <<>>, running |-> TRUE]]
    /\ feedback = [d \in Devices |-> [receipt |-> 0, previous |-> None]]
    /\ session = [phase |-> "engaging", start |-> None, cutoff |-> None, tail |-> <<>>]
    /\ target = [seq |-> 0, at |-> 0]
    /\ sequences = [k \in Kinds |-> 0]
    /\ log = [ur |-> <<>>, hande |-> <<>>, targets |-> <<>>]
    /\ validator = NewLog /\ verdict = "open"

-----------------------------------------------------------------------------
(* The device processes.  The controller's time is only ever compared with  *)
(* the sample before; a packet that is read again is no sample, and one     *)
(* with an older time, or five torn ones, end the process, as does a queue  *)
(* that is full.                                                            *)

Sample(d, seq) == [device |-> d, seq |-> seq, at |-> now', source |-> IF d = "ur" THEN now' ELSE None]

MayTake(d) == reader[d].running /\ Len(reader[d].taken) < MaxTaken[d]

Took(d) ==
    LET r == reader[d] IN
    IF Len(r.queue) < QueueCapacity
    THEN [r EXCEPT !.taken = Append(@, now'), !.queue = Append(@, Sample(d, Len(r.taken)))]
    ELSE [r EXCEPT !.running = FALSE]

\* The next moment, and the devices of which it brings a sample.
Tick ==
    /\ now < MaxNow /\ now' = now + 1
    /\ \E ds \in SUBSET {d \in Devices : MayTake(d)} :
          reader' = [d \in Devices |-> IF d \in ds THEN Took(d) ELSE reader[d]]
    /\ UNCHANGED <<feedback, session, target, sequences, log, validator, verdict>>

-----------------------------------------------------------------------------
(* Feedback.read, by the control loop.                                      *)

\* _Device.observe: numbers, receipts and the controller's time advance.
Continues(previous, s) ==
    previous # None =>
        /\ s.seq = previous.seq + 1 /\ s.at > previous.at
        /\ s.source # None => s.source > previous.source

\* What a read may get from a device: of its queue, as much as has arrived.
Arrivals == [ur : Prefixes(reader["ur"].queue), hande : Prefixes(reader["hande"].queue)]

Continuous(d, samples) ==
    \A i \in DOMAIN samples :
        Continues(IF i = 1 THEN feedback[d].previous ELSE samples[i - 1], samples[i])

Receipt(got, d) == IF got[d] = <<>> THEN feedback[d].receipt ELSE Last(got[d]).at

ReadFails(got) == \E d \in Devices :
    ~reader[d].running \/ ~Continuous(d, got[d]) \/ now - Receipt(got, d) > Stale

Measured(got) == got["ur"] \o got["hande"]

\* A failed read drops what it had drained.
Drains(got) ==
    /\ reader' = [d \in Devices |->
          [reader[d] EXCEPT !.queue = SubSeq(@, Len(got[d]) + 1, Len(@))]]
    /\ feedback' = [d \in Devices |->
          [receipt |-> Receipt(got, d),
           previous |-> IF got[d] = <<>> THEN feedback[d].previous ELSE Last(got[d])]]


\* A process has failed, in one of these ways or with an error of its own:
\* _begin_rejection for the readers, the tail can no longer be completed.
PassWithoutReaders(got) ==
    /\ session.phase \in {"engaging", "recording", "stopping"}
    /\ Drains(got)
    /\ session' = [session EXCEPT !.phase = "lost"]
    /\ UNCHANGED <<now, target, sequences, log, validator, verdict>>

-----------------------------------------------------------------------------
(* records.Records: every kind has its own numbers within the episode.      *)

Record(kind, at, source, value) ==
    [kind |-> kind, seq |-> 0, at |-> at, source |-> source, value |-> value, genuine |-> TRUE]

Authority(action, at) == Record("authority_event", at, at, action)
Commanded(t) == <<Record("leader_intent", t.at, t.at, t.seq), Record("sent_command", now, now, t.seq)>>
ObservedRecords(s) ==
    IF s.device = "ur"
    THEN <<Record("follower_state", s.at, s.source, s.at), Record("ur_feedback", s.at, s.source, s.at)>>
    ELSE <<Record("hande_feedback", s.at, s.source, s.at)>>

\* A state and its readback share one number: both counters advance together.
Numbered(records) ==
    [i \in DOMAIN records |->
        [records[i] EXCEPT !.seq =
            sequences[records[i].kind]
                + Cardinality({j \in 1..(i - 1) : records[j].kind = records[i].kind})]]

\* The records reach the validator in the order they are sent.
Validates(records) ==
    LET step(v, r) == IF v # None /\ Accepts(v, r, r.at) THEN Checked(v, r) ELSE None
        after == FoldLeft(step, validator, Numbered(records))
    IN  /\ validator' = IF after = None THEN validator ELSE after
        /\ verdict' = CASE after = None -> "refused"
                        [] session'.phase # "stopped" -> "open"
                        [] OTHER -> IF Complete(after) THEN "accepted" ELSE "short"
        /\ sequences' = [k \in Kinds |->
              sequences[k] + Cardinality({i \in DOMAIN records : records[i].kind = k})]

InWindow(s) == s.at >= session'.start /\ (session'.cutoff # None => s.at < session'.cutoff)

Receipts(samples, d) ==
    LET of == SelectSeq(samples, LAMBDA s : s.device = d) IN [i \in DOMAIN of |-> of[i].at]

\* _samples, after the records in front.
Sends(front, commanded, samples, behind) ==
    LET kept == SelectSeq(samples, InWindow) IN
    /\ Validates(front \o commanded
                 \o FlattenSeq([i \in DOMAIN kept |-> ObservedRecords(kept[i])]) \o behind)
    /\ log' = [ur |-> log.ur \o Receipts(kept, "ur"), hande |-> log.hande \o Receipts(kept, "hande"),
               targets |-> IF commanded = <<>> THEN log.targets ELSE Append(log.targets, target'.at)]

-----------------------------------------------------------------------------
(* A pass of the loop, and a key.                                           *)

\* The leader is engaged: the seed's time is the start of the episode, and
\* what earlier passes drained is older.
PassEngages(got) ==
    /\ session.phase = "engaging" /\ ~ReadFails(got) /\ Drains(got)
    /\ \A d \in Devices : feedback[d].previous # None => feedback[d].previous.at < now
    /\ target' = [seq |-> 0, at |-> now]
    /\ session' = [session EXCEPT !.phase = "recording", !.start = now]
    /\ Sends(<<Authority("acquired", now)>>, <<>>, Measured(got), <<>>)
    /\ UNCHANGED now

PassWaits(got) ==
    /\ session.phase = "engaging" /\ ~ReadFails(got) /\ Drains(got)
    /\ UNCHANGED <<now, session, target, sequences, log, validator, verdict>>

\* The arm follows; a target has to be newer than the one before, but not
\* by more than the freshness, which is the gap the log may have.
PassFollows(got) ==
    /\ session.phase = "recording" /\ ~ReadFails(got) /\ Drains(got)
    /\ now - target.at \in 1..MaxGap
    /\ target' = [seq |-> target.seq + 1, at |-> now]
    /\ session' = session
    /\ Sends(<<>>, Commanded(target'), Measured(got), <<>>)
    /\ UNCHANGED now

\* Mutant of TailComplete: one device has passed the cutoff.
TailCompleteOne == \E d \in Devices : feedback'[d].receipt >= session'.cutoff

\* _tail: both streams have crossed the cutoff.
TailComplete == \A d \in Devices : feedback'[d].receipt >= session'.cutoff

\* Of a pass in which the arm was or is stopped, with the samples it read.
Stopping(got, cutoff) ==
    LET tail == session.tail \o SelectSeq(Measured(got), LAMBDA s : s.at < cutoff) IN
    /\ UNCHANGED <<now, target>>
    /\ \/ /\ session' = [session EXCEPT !.phase = "stopped", !.cutoff = cutoff, !.tail = <<>>]
          /\ TailComplete
          /\ Sends(<<>>, <<>>, tail, <<Authority("released", cutoff)>>)
       \/ /\ session' = [session EXCEPT !.phase = "stopping", !.cutoff = cutoff, !.tail = tail]
          /\ ~TailComplete
          /\ UNCHANGED <<sequences, log, validator, verdict>>

\* The motion fails in a pass: frozen there, the tail begins at once.
PassRejects(got) ==
    /\ session.phase = "recording" /\ now > target.at
    /\ ~ReadFails(got) /\ Drains(got)
    /\ Stopping(got, now)

PassStopping(got) ==
    /\ session.phase = "stopping" /\ ~ReadFails(got) /\ Drains(got)
    /\ Stopping(got, session.cutoff)

KeyStops ==
    /\ session.phase = "recording" /\ now > target.at
    /\ session' = [session EXCEPT !.phase = "stopping", !.cutoff = now]
    /\ UNCHANGED <<now, reader, feedback, target, sequences, log, validator, verdict>>

Next ==
    /\ verdict = "open" /\ session.phase # "lost"
    /\ \/ Tick \/ KeyStops
       \/ \E got \in Arrivals :
             \/ PassWithoutReaders(got) \/ PassEngages(got) \/ PassWaits(got)
             \/ PassFollows(got) \/ PassRejects(got) \/ PassStopping(got)

Spec == Init /\ [][Next]_vars

-----------------------------------------------------------------------------
(* Properties.                                                              *)

TypeOK ==
    /\ now \in 0..MaxNow /\ verdict \in {"open", "refused", "short", "accepted"}
    /\ session.phase \in {"engaging", "recording", "stopping", "stopped", "lost"}
    /\ \A d \in Devices : Len(reader[d].queue) <= QueueCapacity
    /\ sequences \in [Kinds -> Nat]

Taken(d) == SelectSeq(reader[d].taken, LAMBDA at : session.start <= at /\ at < session.cutoff)

\* Without a hole longer than MaxGap from a to b.
NoHole(times, a, b) ==
    LET all == <<a>> \o times \o <<b>> IN
    \A i \in 1..(Len(all) - 1) : all[i + 1] - all[i] <= MaxGap

Sound ==
    /\ \A times \in {log.ur, log.hande, log.targets} :
         times # <<>> /\ NoHole(times, session.start, session.cutoff)
    /\ Len(log.targets) * CommandEvery > session.cutoff - session.start

(* The log of an episode that was stopped holds every sample the two device *)
(* processes took in its interval, and none beside it, although they wait   *)
(* in queues and come after the stop; and the validator, which sees only    *)
(* the records, accepts it exactly when no stream has a hole longer than    *)
(* the gap and commands were frequent enough.  A record is refused only for *)
(* such a hole: numbers, pairs and boundaries are right in every order of   *)
(* passes, keys and failures.                                               *)
LogTruthful ==
    /\ session.phase = "stopped" /\ verdict # "refused" =>
         log.ur = Taken("ur") /\ log.hande = Taken("hande")
    /\ verdict \in {"accepted", "short"} => (verdict = "accepted" <=> Sound)
    /\ verdict = "refused" => \E times \in {log.ur, log.hande} :
         \E i \in 2..Len(times) : times[i] - times[i - 1] > MaxGap
=============================================================================
