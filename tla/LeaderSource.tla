---------------------------- MODULE LeaderSource ----------------------------
(***************************************************************************)
(* leader/source.py, native.py, input.py, episode.py and stream.py: one    *)
(* thread reads the leader and publishes in a mailbox.  Either a control   *)
(* loop turns the samples into intents, or a capture writes them to disk.  *)
(* The mailbox keeps a short recent view, which control must find fresh,   *)
(* and a bounded queue, of which nothing may be lost silently.             *)
(*                                                                         *)
(* A sample is its sequence number and the start and end of the bus        *)
(* transaction.  One tick is one read period.  Counts and the mapping are  *)
(* left out: whether a reference is stable and whether a mapped target is  *)
(* allowed are choices.                                                    *)
(***************************************************************************)
EXTENDS Integers, Sequences, FiniteSets, SequencesExt

CONSTANTS
    None,         \* nothing yet
    Capacity,     \* Mailbox._capacity
    Fresh,        \* FRESH_NS, which is also the age of the mapper
    Window,       \* the 80 ms of Leader.samples
    Span,         \* the 40 ms a startup reference must span
    HealthEvery,  \* from one health read to the next
    HealthFresh,  \* HEALTH_NS
    MaxNow,       \* bound: ticks
    MaxBus        \* bound: ticks of a bus transaction

VARIABLES
    now,        \* time.monotonic_ns
    mailbox,    \* newest of recent, pending, health, fault
    reader,     \* the thread: step, samples, start of a transaction, health due
    consumer,   \* the thread that started the reader
    intent,     \* the last target returned by Input.sample
    acquired,   \* history of a capture: every completed motion transaction
    written     \* history of a capture: samples.jsonl

vars == <<now, mailbox, reader, consumer, intent, acquired, written>>

Init ==
    /\ now = 0
    /\ mailbox = [newest |-> None, pending |-> <<>>, health |-> None, fault |-> FALSE]
    /\ reader = [step |-> "off", n |-> 0, start |-> 0, due |-> 0, ready |-> FALSE, stop |-> FALSE]
    /\ \E mode \in {"control", "capture"} :
         consumer = [mode |-> mode, step |-> "new", at |-> 0, recent |-> <<>>, batch |-> <<>>,
                     reading |-> None, fault |-> FALSE, dropped |-> FALSE]
    /\ intent = None /\ acquired = <<>> /\ written = <<>>

Tick ==
    /\ now < MaxNow
    /\ reader.step \in {"sync", "health", "first_health"} => now < reader.start + MaxBus
    /\ now' = now + 1
    /\ UNCHANGED <<mailbox, reader, consumer, intent, acquired, written>>

-----------------------------------------------------------------------------
(* Mailbox, every operation under its lock.                                 *)

Faulted(box) == [box EXCEPT !.fault = TRUE]

Discontinuous(box, sample) ==
    /\ box.newest # None
    /\ ~(/\ sample.start >= box.newest.end
         /\ sample.start - box.newest.start \in 1..Fresh)

Refuses(box, sample) ==
    box.fault \/ Discontinuous(box, sample) \/ Len(box.pending) >= Capacity

\* Mutant of Publish: a full queue gives up its oldest sample instead.
PublishDropping(box, sample) ==
    IF box.fault \/ Discontinuous(box, sample) THEN Faulted(box)
    ELSE [box EXCEPT !.newest = sample,
                     !.pending = Append(IF Len(@) >= Capacity THEN Tail(@) ELSE @, sample)]

Publish(box, sample) ==
    IF Refuses(box, sample) THEN Faulted(box)
    ELSE [box EXCEPT !.newest = sample, !.pending = Append(@, sample)]

\* Mutant of NotReady: the samples of a source that has failed are still shown.
NotReadyYet(box) == box.newest = None \/ box.health = None

\* view at instant t: not ready, then stale.
NotReady(box) == box.fault \/ box.newest = None \/ box.health = None
ViewFresh(box, t) ==
    /\ t \in box.newest.end..(box.newest.start + Fresh)
    /\ t \in box.health.end..(box.health.start + HealthFresh)
Viewable(box, t) == ~NotReady(box) /\ ViewFresh(box, t)
Viewed(box, t) == IF NotReady(box) \/ ViewFresh(box, t) THEN box ELSE Faulted(box)

-----------------------------------------------------------------------------
(* Reader._run.  A failed transaction, a hardware error in the health and  *)
(* an exception of the mailbox end the thread with a latched fault.         *)

ReaderTo(step) == reader' = [reader EXCEPT !.step = step]
ReaderEnds == reader' = [reader EXCEPT !.step = "exited", !.ready = TRUE]
OthersThanReader == UNCHANGED <<now, consumer, written, intent>>

ReaderFails ==
    /\ reader.step \in {"opening", "first_health", "sync", "health"}
    /\ mailbox' = Faulted(mailbox)
    /\ ReaderEnds
    /\ OthersThanReader /\ UNCHANGED acquired

ReaderOpens ==
    /\ reader.step = "opening"
    /\ reader' = [reader EXCEPT !.step = "first_health", !.start = now]
    /\ OthersThanReader /\ UNCHANGED <<mailbox, acquired>>

\* The block of a health transaction; torque on is for control to refuse.
ReaderHealth ==
    /\ reader.step \in {"first_health", "health"}
    /\ IF mailbox.fault THEN ReaderEnds /\ UNCHANGED mailbox
       ELSE /\ \E torque \in BOOLEAN :
                 mailbox' = [mailbox EXCEPT !.health =
                                [start |-> reader.start, end |-> now, torque |-> torque]]
            /\ reader' = [reader EXCEPT !.step = "wait", !.due = now + HealthEvery]
    /\ OthersThanReader /\ UNCHANGED acquired

\* The next slot: next_deadline skips the slots that have passed.
SlotDue == mailbox.newest # None => now > mailbox.newest.start
ReaderSyncs ==
    /\ reader.step = "wait" /\ ~reader.stop /\ SlotDue
    /\ reader' = [reader EXCEPT !.step = "sync", !.start = now]
    /\ OthersThanReader /\ UNCHANGED <<mailbox, acquired>>

ReaderPublishes ==
    /\ reader.step = "sync"
    /\ LET sample == [n |-> reader.n + 1, start |-> reader.start, end |-> now] IN
       /\ acquired' = IF consumer.mode = "capture" THEN Append(acquired, sample) ELSE acquired
       /\ mailbox' = Publish(mailbox, sample)
       /\ IF Refuses(mailbox, sample) THEN ReaderEnds
          ELSE reader' = [reader EXCEPT !.n = @ + 1, !.ready = TRUE, !.start = now,
                              !.step = IF now >= reader.due THEN "health" ELSE "wait"]
    /\ OthersThanReader

ReaderStops ==
    /\ reader.step = "wait" /\ reader.stop
    /\ ReaderEnds
    /\ OthersThanReader /\ UNCHANGED <<mailbox, acquired>>

-----------------------------------------------------------------------------
(* Reader.start and Reader.close, called by the consumer.                   *)

At(step) == consumer.step = step
ConsumerTo(step) == consumer' = [consumer EXCEPT !.step = step]
Quiet == UNCHANGED <<now, intent, acquired, written>>

\* The first half of close: consumers are refused before the wait.
Closing(box) ==
    /\ mailbox' = Faulted(box)
    /\ reader' = [reader EXCEPT !.stop = TRUE]
    /\ consumer' = [consumer EXCEPT !.step = "closing", !.batch = <<>>]

Start ==
    /\ At("new") /\ reader.step = "off"
    /\ ReaderTo("opening")
    /\ ConsumerTo("starting")
    /\ Quiet /\ UNCHANGED mailbox

StartReturns ==
    /\ At("starting") /\ reader.ready
    /\ IF Viewable(mailbox, now) THEN ConsumerTo("open") /\ UNCHANGED <<mailbox, reader>>
       ELSE Closing(mailbox)
    /\ Quiet

StartTimesOut ==
    /\ At("starting") /\ ~reader.ready
    /\ Closing(mailbox)
    /\ Quiet

\* The end of a session, of an episode or of a capture.
CloseStarts ==
    /\ At("open") \/ At("leading")
    /\ Closing(mailbox)
    /\ Quiet

\* A reader stuck in a transaction is given up after ten seconds.  The
\* capture drains once more after the join, whatever ended it.
CloseJoins ==
    /\ At("closing")
    /\ \/ /\ reader.step = "exited" /\ ConsumerTo("closed")
          /\ IF consumer.mode = "capture"
             THEN /\ written' = written \o mailbox.pending
                  /\ mailbox' = [mailbox EXCEPT !.pending = <<>>]
             ELSE UNCHANGED <<written, mailbox>>
       \/ reader.step # "exited" /\ ConsumerTo("not_joined") /\ UNCHANGED <<written, mailbox>>
    /\ UNCHANGED <<now, intent, acquired, reader>>

-----------------------------------------------------------------------------
(* The control consumer: Input over Leader.samples.  The caller reads the   *)
(* clock before the call; the view reads it again.                          *)

Control == consumer.mode = "control"

CallBegins ==
    /\ Control /\ (At("open") \/ At("leading"))
    /\ consumer' = [consumer EXCEPT !.step = IF At("open") THEN "view" ELSE "view_leading",
                                    !.at = now, !.fault = mailbox.fault]
    /\ Quiet /\ UNCHANGED <<mailbox, reader>>

Engaged == At("view_leading") \/ At("drain_leading")

\* An exception ends the engagement; the owner then closes the source.
CallViews ==
    /\ At("view") \/ At("view_leading")
    /\ LET box == Viewed(mailbox, now) IN
       IF Viewable(mailbox, now) /\ ~mailbox.health.torque
       THEN /\ ConsumerTo(IF Engaged THEN "drain_leading" ELSE "drain")
            /\ UNCHANGED <<mailbox, reader>>
       ELSE Closing(box)
    /\ Quiet

\* The deque, its maxlen, and the places in it of what a call returns.
Deque == 16
Retained ==
    LET all == consumer.recent \o mailbox.pending
    IN  IF Len(all) <= Deque THEN all ELSE SubSeq(all, Len(all) - Deque + 1, Len(all))
Readings(t) == {i \in DOMAIN Retained : Retained[i].end <= t /\ t - Retained[i].start <= Window}
IsNewest(i, t) == i \in Readings(t) /\ \A j \in Readings(t) : j <= i
Follows(i, j, t) == {i, j} \subseteq Readings(t) /\ i < j /\ Readings(t) \cap (i + 1)..(j - 1) = {}

\* check_advance and _fresh, as EpisodeMapper and Input apply them.
Advances(previous, sample) ==
    /\ sample.n > previous.n /\ sample.start >= previous.end
    /\ sample.start - previous.start \in 1..Fresh
StillFresh(sample, t) == sample.end <= t /\ t - sample.start <= Fresh

GoodReference(t) ==
    /\ Cardinality(Readings(t)) >= 3
    /\ \A i \in Readings(t) : StillFresh(Retained[i], t)
    /\ \A i, j \in Readings(t) : Follows(i, j, t) => Advances(Retained[i], Retained[j])
    /\ \E i, j \in Readings(t) : Retained[j].start - Retained[i].start >= Span

Drains == mailbox' = [mailbox EXCEPT !.pending = <<>>]
Intent(sample) == [sample |-> sample, at |-> consumer.at, fault |-> consumer.fault]
Leads(sample) ==
    /\ consumer' = [consumer EXCEPT !.step = "leading", !.reading = sample, !.recent = Retained]
    /\ intent' = Intent(sample)

\* Input(): the reference of the episode, and its first intent.  A moving
\* reference may be tried again; a bad one is an error.
Engage ==
    /\ At("drain")
    /\ IF GoodReference(consumer.at)
       THEN /\ Drains /\ UNCHANGED reader
            /\ \/ \E i \in DOMAIN Retained : IsNewest(i, consumer.at) /\ Leads(Retained[i])
               \/ /\ consumer' = [consumer EXCEPT !.step = "open", !.recent = Retained]
                  /\ UNCHANGED intent
       ELSE Closing([mailbox EXCEPT !.pending = <<>>]) /\ UNCHANGED intent
    /\ UNCHANGED <<now, acquired, written>>

\* Input._advance: the selected reading is reused while fresh, or continues.
Usable(reading, t) ==
    IF reading = consumer.reading THEN t - reading.start <= Fresh
    ELSE StillFresh(reading, t) /\ Advances(consumer.reading, reading)

\* Guards, limits and precision may refuse the target.
Follow ==
    /\ At("drain_leading")
    /\ \/ /\ Drains /\ UNCHANGED reader
          /\ \E i \in DOMAIN Retained :
               IsNewest(i, consumer.at) /\ Usable(Retained[i], consumer.at) /\ Leads(Retained[i])
       \/ Closing([mailbox EXCEPT !.pending = <<>>]) /\ UNCHANGED intent
    /\ UNCHANGED <<now, acquired, written>>

-----------------------------------------------------------------------------
(* The capture: stream._capture.                                            *)

Capture == consumer.mode = "capture"

CaptureViews ==
    /\ Capture /\ At("open")
    /\ IF Viewable(mailbox, now) THEN ConsumerTo("evidence") /\ UNCHANGED <<mailbox, reader>>
       ELSE Closing(Viewed(mailbox, now))
    /\ Quiet

CaptureDrains ==
    /\ At("evidence") /\ mailbox.pending # <<>>
    /\ consumer' = [consumer EXCEPT !.step = "write", !.batch = mailbox.pending]
    /\ mailbox' = [mailbox EXCEPT !.pending = <<>>]
    /\ Quiet /\ UNCHANGED reader

CaptureWrites ==
    /\ At("write")
    /\ written' = Append(written, Head(consumer.batch))
    /\ consumer' = [consumer EXCEPT !.batch = Tail(@),
                                    !.step = IF Len(consumer.batch) = 1 THEN "open" ELSE "write"]
    /\ UNCHANGED <<now, intent, acquired, mailbox, reader>>

CaptureIdles ==
    /\ At("evidence") /\ mailbox.pending = <<>>
    /\ ConsumerTo("open")
    /\ Quiet /\ UNCHANGED <<mailbox, reader>>

\* An interrupt or a disk error: what was taken and not written is dropped.
CaptureBreaks ==
    /\ At("write")
    /\ mailbox' = Faulted(mailbox)
    /\ reader' = [reader EXCEPT !.stop = TRUE]
    /\ consumer' = [consumer EXCEPT !.step = "closing", !.batch = <<>>,
                                    !.dropped = TRUE]
    /\ Quiet

Next ==
    \/ Tick
    \/ ReaderFails \/ ReaderOpens \/ ReaderHealth \/ ReaderSyncs \/ ReaderPublishes \/ ReaderStops
    \/ Start \/ StartReturns \/ StartTimesOut \/ CloseStarts \/ CloseJoins
    \/ CallBegins \/ CallViews \/ Engage \/ Follow
    \/ CaptureViews \/ CaptureDrains \/ CaptureWrites \/ CaptureIdles \/ CaptureBreaks

Spec == Init /\ [][Next]_vars

-----------------------------------------------------------------------------
(* Properties.                                                              *)

TypeOK ==
    /\ now \in 0..MaxNow /\ mailbox.fault \in BOOLEAN /\ Len(mailbox.pending) <= Capacity
    /\ reader.step \in {"off", "opening", "first_health", "wait", "sync", "health", "exited"}
    /\ ToSet(written) \subseteq ToSet(acquired)

(* The evidence of a capture is whole: what was written, what is about to   *)
(* be written and what still waits is every acquisition, in order and       *)
(* without a gap, up to the first one the mailbox refused, and a refusal    *)
(* is latched.  After the join nothing waits.  An overflow of the queue, a  *)
(* stale view and a close between two drains lose nothing acquired before.  *)
EvidenceWhole ==
    Capture /\ ~consumer.dropped =>
        LET kept == written \o consumer.batch \o mailbox.pending IN
        /\ IsPrefix(kept, acquired)
        /\ kept # acquired => mailbox.fault
        /\ At("closed") => mailbox.pending = <<>>

(* Every intent is a live one: its sample was complete when the call began  *)
(* and is not older than Fresh, it is the sample of the intent before or a  *)
(* later one that follows it within Fresh, and the source had not failed    *)
(* or been closed when the call began.  Two clock reads and two locked      *)
(* sections, with the reader running in between, do not change that.        *)
IntentsLive ==
    [][intent' # intent =>
         /\ StillFresh(intent'.sample, intent'.at) /\ ~intent'.fault
         /\ intent # None => \/ intent'.sample = intent.sample
                             \/ Advances(intent.sample, intent'.sample)]_vars
=============================================================================
