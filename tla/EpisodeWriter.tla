--------------------------- MODULE EpisodeWriter ---------------------------
(***************************************************************************)
(* storage.EpisodeWriter: one bounded queue between the acquisition owner  *)
(* and a writer thread, completed by one rename from the partial directory *)
(* to the episode directory.                                               *)
(*                                                                         *)
(* Three threads touch a writer: the owner (constructor, submit, abort),   *)
(* the finalizer thread of session.Session (finish) and the writer thread  *)
(* (_run).  Several processes may be given the same episode name; they     *)
(* share only the file system.  A process may die between any two steps.   *)
(*                                                                         *)
(* Data abstraction: an entry is the counter it is charged to and the size *)
(* it is charged; the episode files are whether they exist and whether     *)
(* they reached the disk; the deadline is the flag "expired".              *)
(***************************************************************************)
EXTENDS Integers, Sequences, SequencesExt

CONSTANTS
    Writers,           \* processes that open a writer for the same episode
    NoOne,             \* the absence of a file's creator
    Sentinel,          \* the None that finish puts behind the last entry
    Capacity,          \* queue capacity for groups, rejections and records
    FeedbackCapacity,  \* queue capacity for batched feedback records
    Batches,           \* sizes of a feedback batch (1..64 in submit_records)
    MaxEntries         \* bound: accepted submissions of a writer

Counters == {"item", "feedback"}
Entry == [counter: {"item"}, count: {1}] \cup [counter: {"feedback"}, count: Batches]

ASSUME NamesAssumption ==
    NoOne \notin Writers
ASSUME SentinelAssumption ==
    Sentinel \notin Entry
ASSUME CapacityAssumption ==
    /\ Capacity \in Nat \ {0}
    /\ FeedbackCapacity \in Nat \ {0}
    /\ Batches \subseteq Nat \ {0}
    /\ MaxEntries \in Nat

VARIABLES
    lockFile,   \* creator of <name>.lock, or NoOne
    partial,    \* creator of <name>.partial, or NoOne
    dest,       \* creator of the published <name>, or NoOne
    files,      \* what each writer's episode directory holds, on disk or not
    obtained,   \* history: processes whose constructor made the partial directory
    owner,      \* progress of the constructor; then running or killed
    finisher,   \* progress and result of finish
    state,      \* _status["state"]
    queue,      \* _queue
    queued,     \* _status["queued"] and _status["queued_feedback"]
    expired,    \* monotonic() has reached the deadline given to finish
    pc,         \* where the writer thread is
    held,       \* the entry the writer thread took and has not written
    accepted,   \* history: entries accepted by _submit, in order
    written,    \* entries in episode.mcap, in order
    stranded    \* history: the rename back after a failed commit also failed

fileVars == <<lockFile, partial, dest, files, obtained>>
callVars == <<owner, finisher, expired>>
workVars == <<pc, held, written, stranded>>
vars == <<fileVars, callVars, workVars, state, queue, queued, accepted>>

Consuming == {"check", "get", "count", "write"}
Sealing == {"finish", "verify", "metadata", "sync", "commit", "renamed"}
Ending == {"except", "drain", "unlink", "done"}

Init ==
    /\ lockFile = NoOne /\ partial = NoOne /\ dest = NoOne
    /\ files = [w \in Writers |->
                  [mcap |-> "none", meta |-> "none", listed |-> FALSE]]
    /\ obtained = {}
    /\ owner = [w \in Writers |-> "idle"]
    /\ finisher = [w \in Writers |-> "idle"]
    /\ state = [w \in Writers |-> "open"]
    /\ queue = [w \in Writers |-> <<>>]
    /\ queued = [w \in Writers |-> [c \in Counters |-> 0]]
    /\ expired = [w \in Writers |-> FALSE]
    /\ pc = [w \in Writers |-> "none"]
    /\ held = [w \in Writers |-> <<>>]
    /\ accepted = [w \in Writers |-> <<>>]
    /\ written = [w \in Writers |-> <<>>]
    /\ stranded = [w \in Writers |-> FALSE]

Running(w) == owner[w] = "running"

\* _lock is held across one interval only: from the rename to the end of _commit.
Locked(w) == pc[w] = "renamed"

QueueFull(w) == Len(queue[w]) = Capacity + FeedbackCapacity

-----------------------------------------------------------------------------
(* The constructor: _reserve, then the start of the writer thread.          *)

\* Exclusive creation of the lock file; an existing one refuses the writer.
Reserve(w) ==
    /\ owner[w] = "idle"
    /\ IF lockFile = NoOne
       THEN lockFile' = w /\ owner' = [owner EXCEPT ![w] = "reserved"]
       ELSE owner' = [owner EXCEPT ![w] = "refused"] /\ UNCHANGED lockFile
    /\ UNCHANGED <<partial, dest, files, obtained, finisher, expired,
                   workVars, state, queue, queued, accepted>>

\* An existing episode withdraws the reservation.
CheckDestination(w) ==
    /\ owner[w] = "reserved"
    /\ IF dest = NoOne
       THEN owner' = [owner EXCEPT ![w] = "checked"] /\ UNCHANGED lockFile
       ELSE owner' = [owner EXCEPT ![w] = "refused"] /\ lockFile' = NoOne
    /\ UNCHANGED <<partial, dest, files, obtained, finisher, expired,
                   workVars, state, queue, queued, accepted>>

\* Mutant of PartialAbsent: a partial directory left behind is taken over.
PartialAdopted == TRUE

PartialAbsent == partial = NoOne

\* So does an existing partial directory.
MakePartial(w) ==
    /\ owner[w] = "checked"
    /\ IF PartialAbsent
       THEN /\ partial' = w
            /\ obtained' = obtained \cup {w}
            /\ owner' = [owner EXCEPT ![w] = "made"]
            /\ UNCHANGED lockFile
       ELSE /\ lockFile' = NoOne
            /\ owner' = [owner EXCEPT ![w] = "refused"]
            /\ UNCHANGED <<partial, obtained>>
    /\ UNCHANGED <<dest, files, finisher, expired, workVars,
                   state, queue, queued, accepted>>

StartThread(w) ==
    /\ owner[w] = "made"
    /\ owner' = [owner EXCEPT ![w] = "running"]
    /\ pc' = [pc EXCEPT ![w] = "open"]
    /\ UNCHANGED <<fileVars, finisher, expired, held, written, stranded,
                   state, queue, queued, accepted>>

StartThreadFails(w) ==
    /\ owner[w] = "made"
    /\ lockFile' = NoOne
    /\ owner' = [owner EXCEPT ![w] = "refused"]
    /\ UNCHANGED <<partial, dest, files, obtained, finisher, expired,
                   workVars, state, queue, queued, accepted>>

\* The recorder process is killed; its files stay as they are.
Kill(w) ==
    /\ owner[w] \in {"reserved", "checked", "made", "running"}
    /\ pc[w] # "done"
    /\ owner' = [owner EXCEPT ![w] = "killed"]
    /\ UNCHANGED <<fileVars, finisher, expired, workVars,
                   state, queue, queued, accepted>>

-----------------------------------------------------------------------------
(* The owner's calls.                                                       *)

Limit(counter) == IF counter = "feedback" THEN FeedbackCapacity ELSE Capacity
Fits(w, e) == queued[w][e.counter] + e.count <= Limit(e.counter)

\* Mutant of Accepting: only a revoked writer refuses submissions.
AcceptingWhileClosing(w) == state[w] \in {"open", "closing"}

Accepting(w) == state[w] = "open"

\* A refused submission (state not open) raises and changes nothing.
Submit(w, e) ==
    /\ Running(w) /\ ~Locked(w)
    /\ Accepting(w)
    /\ Len(accepted[w]) < MaxEntries
    /\ Fits(w, e)
    /\ queue' = [queue EXCEPT ![w] = Append(@, e)]
    /\ queued' = [queued EXCEPT ![w][e.counter] = @ + e.count]
    /\ accepted' = [accepted EXCEPT ![w] = Append(@, e)]
    /\ UNCHANGED <<fileVars, callVars, workVars, state>>

\* Overflow makes the episode uncommittable before it raises.
SubmitOverflows(w, e) ==
    /\ Running(w) /\ ~Locked(w)
    /\ Accepting(w)
    /\ ~Fits(w, e)
    /\ state' = [state EXCEPT ![w] = "aborted"]
    /\ UNCHANGED <<fileVars, callVars, workVars, queue, queued, accepted>>

Abort(w) ==
    /\ Running(w) /\ ~Locked(w)
    /\ state[w] # "committed"
    /\ state' = [state EXCEPT ![w] = "aborted"]
    /\ UNCHANGED <<fileVars, callVars, workVars, queue, queued, accepted>>

-----------------------------------------------------------------------------
(* finish, on the finalizer thread.                                         *)

FinishStart(w) ==
    /\ Running(w) /\ ~Locked(w)
    /\ finisher[w] = "idle"
    /\ IF state[w] = "open"
       THEN /\ state' = [state EXCEPT ![w] = "closing"]
            /\ finisher' = [finisher EXCEPT ![w] = "put"]
       ELSE /\ finisher' = [finisher EXCEPT ![w] = "raised"]
            /\ UNCHANGED state
    /\ UNCHANGED <<fileVars, owner, expired, workVars, queue, queued, accepted>>

FinishPut(w) ==
    /\ Running(w)
    /\ finisher[w] = "put"
    /\ ~QueueFull(w)
    /\ queue' = [queue EXCEPT ![w] = Append(@, Sentinel)]
    /\ finisher' = [finisher EXCEPT ![w] = "wait"]
    /\ UNCHANGED <<fileVars, owner, expired, workVars, state, queued, accepted>>

\* queue.Full is swallowed: the sentinel is never delivered.
FinishPutTimesOut(w) ==
    /\ Running(w)
    /\ finisher[w] = "put"
    /\ QueueFull(w) /\ expired[w]
    /\ finisher' = [finisher EXCEPT ![w] = "wait"]
    /\ UNCHANGED <<fileVars, owner, expired, workVars,
                   state, queue, queued, accepted>>

FinishReturn(w) ==
    /\ Running(w) /\ ~Locked(w)
    /\ finisher[w] = "wait"
    /\ pc[w] = "done" \/ expired[w]
    /\ IF state[w] = "committed"
       THEN /\ finisher' = [finisher EXCEPT ![w] = "report"]
            /\ UNCHANGED state
       ELSE /\ finisher' = [finisher EXCEPT ![w] = "raised"]
            /\ state' = [state EXCEPT ![w] = "aborted"]
    /\ UNCHANGED <<fileVars, owner, expired, workVars, queue, queued, accepted>>

Expire(w) ==
    /\ finisher[w] \in {"put", "wait"}
    /\ ~expired[w]
    /\ expired' = [expired EXCEPT ![w] = TRUE]
    /\ UNCHANGED <<fileVars, owner, finisher, workVars,
                   state, queue, queued, accepted>>

-----------------------------------------------------------------------------
(* The writer thread, _run.  Any file operation may raise: _run then goes   *)
(* to its exception handler.                                                *)

At(w, label) == Running(w) /\ pc[w] = label
Goto(w, label) == pc' = [pc EXCEPT ![w] = label]

\* An exception in _run, raised by the file system, the encoder or a check.
Raise(w) ==
    /\ Running(w)
    /\ pc[w] \in {"open", "write", "finish", "verify", "metadata", "sync"}
    /\ Goto(w, "except")
    /\ UNCHANGED <<fileVars, callVars, held, written, stranded,
                   state, queue, queued, accepted>>

OpenStream(w) ==
    /\ At(w, "open")
    /\ Goto(w, "check")
    /\ files' = [files EXCEPT ![w].mcap = "open"]
    /\ UNCHANGED <<lockFile, partial, dest, obtained, callVars, held, written, stranded,
                   state, queue, queued, accepted>>

Active(w) == state[w] \in {"open", "closing"}

\* _active: a state other than open or closing ends the loop with an error.
CheckActive(w) ==
    /\ At(w, "check")
    /\ Goto(w, IF Active(w) THEN "get" ELSE "except")
    /\ UNCHANGED <<fileVars, callVars, held, written, stranded,
                   state, queue, queued, accepted>>

\* Mutant of GetEmpty: the loop waits for an entry without asking _active again.
GetEmptyAgain(w) ==
    /\ At(w, "get")
    /\ queue[w] = <<>>
    /\ UNCHANGED vars

GetEmpty(w) ==
    /\ At(w, "get")
    /\ queue[w] = <<>>
    /\ Goto(w, "check")
    /\ UNCHANGED <<fileVars, callVars, held, written, stranded,
                   state, queue, queued, accepted>>

GetEntry(w) ==
    /\ At(w, "get")
    /\ queue[w] # <<>>
    /\ queue' = [queue EXCEPT ![w] = Tail(@)]
    /\ IF Head(queue[w]) = Sentinel
       THEN Goto(w, "finish") /\ UNCHANGED held
       ELSE Goto(w, "count") /\ held' = [held EXCEPT ![w] = <<Head(queue[w])>>]
    /\ UNCHANGED <<fileVars, callVars, written, stranded,
                   state, queued, accepted>>

\* Mutant of Release: a whole batch gives back one unit of its counter.
ReleaseOne(e) == 1

Release(e) == e.count

\* The counter is released after the entry has left the queue.
CountEntry(w) ==
    /\ At(w, "count")
    /\ LET e == Head(held[w])
       IN  queued' = [queued EXCEPT ![w][e.counter] = @ - Release(e)]
    /\ Goto(w, "write")
    /\ UNCHANGED <<fileVars, callVars, held, written, stranded,
                   state, queue, accepted>>

WriteEntry(w) ==
    /\ At(w, "write")
    /\ written' = [written EXCEPT ![w] = @ \o held[w]]
    /\ held' = [held EXCEPT ![w] = <<>>]
    /\ Goto(w, "check")
    /\ UNCHANGED <<fileVars, callVars, stranded, state, queue, queued, accepted>>

\* writer.finish, flush and fsync of episode.mcap.
FinishStream(w) ==
    /\ At(w, "finish")
    /\ files' = [files EXCEPT ![w].mcap = "synced"]
    /\ Goto(w, "verify")
    /\ UNCHANGED <<lockFile, partial, dest, obtained, callVars, held, written, stranded,
                   state, queue, queued, accepted>>

\* Verification of the stored file and of its message counts.
VerifyStream(w) ==
    /\ At(w, "verify")
    /\ Goto(w, "metadata")
    /\ UNCHANGED <<fileVars, callVars, held, written, stranded,
                   state, queue, queued, accepted>>

WriteMetadata(w) ==
    /\ At(w, "metadata")
    /\ files' = [files EXCEPT ![w].meta = "synced"]
    /\ Goto(w, "sync")
    /\ UNCHANGED <<lockFile, partial, dest, obtained, callVars, held, written, stranded,
                   state, queue, queued, accepted>>

\* Mutant of SyncPartial: the partial directory is renamed without being synced.
SkipSyncPartial(w) ==
    /\ At(w, "sync")
    /\ Goto(w, "commit")
    /\ UNCHANGED <<fileVars, callVars, held, written, stranded,
                   state, queue, queued, accepted>>

\* filesystem.sync(partial): the directory entries of both files are on disk.
SyncPartial(w) ==
    /\ At(w, "sync")
    /\ files' = [files EXCEPT ![w].listed = TRUE]
    /\ Goto(w, "commit")
    /\ UNCHANGED <<lockFile, partial, dest, obtained, callVars, held, written, stranded,
                   state, queue, queued, accepted>>

\* Mutant of MayCommit: the deadline is checked, the revocation is not.
MayCommitRevoked(w) == ~expired[w] /\ dest = NoOne

MayCommit(w) == state[w] = "closing" /\ ~expired[w] /\ dest = NoOne

CommitRename(w) ==
    /\ At(w, "commit")
    /\ MayCommit(w)
    /\ partial' = NoOne
    /\ dest' = w
    /\ Goto(w, "renamed")
    /\ UNCHANGED <<lockFile, files, obtained, callVars, held, written, stranded,
                   state, queue, queued, accepted>>

\* Revoked, expired, or something already has the name; or the rename fails.
CommitRefused(w) ==
    /\ At(w, "commit")
    /\ Goto(w, "except")
    /\ UNCHANGED <<fileVars, callVars, held, written, stranded,
                   state, queue, queued, accepted>>

CommitDurable(w) ==
    /\ At(w, "renamed")
    /\ state' = [state EXCEPT ![w] = "committed"]
    /\ Goto(w, "drain")
    /\ UNCHANGED <<fileVars, callVars, held, written, stranded,
                   queue, queued, accepted>>

\* The parent directory cannot be synced: rename back, if that works.
CommitUndone(w) ==
    /\ At(w, "renamed")
    /\ \/ dest' = NoOne /\ partial' = w /\ UNCHANGED stranded
       \/ /\ stranded' = [stranded EXCEPT ![w] = TRUE]
          /\ UNCHANGED <<dest, partial>>
    /\ Goto(w, "except")
    /\ UNCHANGED <<lockFile, files, obtained, callVars, held, written,
                   state, queue, queued, accepted>>

\* The handler of _run: failure.json is diagnostic only.
RecordFailure(w) ==
    /\ At(w, "except")
    /\ state' = [state EXCEPT ![w] = "failed"]
    /\ Goto(w, "drain")
    /\ UNCHANGED <<fileVars, callVars, held, written, stranded,
                   queue, queued, accepted>>

DrainQueue(w) ==
    /\ At(w, "drain")
    /\ queue' = [queue EXCEPT ![w] = <<>>]
    /\ Goto(w, "unlink")
    /\ UNCHANGED <<fileVars, callVars, held, written, stranded,
                   state, queued, accepted>>

\* The lock file goes before _done is set; _done is set even if unlink raises.
ReleaseLock(w) ==
    /\ At(w, "unlink")
    /\ lockFile' \in {NoOne, lockFile}
    /\ Goto(w, "done")
    /\ UNCHANGED <<partial, dest, files, obtained, callVars, held, written, stranded,
                   state, queue, queued, accepted>>

-----------------------------------------------------------------------------
Construct(w) ==
    \/ Reserve(w) \/ CheckDestination(w) \/ MakePartial(w)
    \/ StartThread(w) \/ StartThreadFails(w)

Call(w) == \/ \E e \in Entry : Submit(w, e) \/ SubmitOverflows(w, e)
           \/ Abort(w)

Finish(w) == FinishPut(w) \/ FinishPutTimesOut(w) \/ FinishReturn(w)

Consume(w) ==
    \/ OpenStream(w) \/ CheckActive(w) \/ GetEmpty(w) \/ GetEntry(w)
    \/ CountEntry(w) \/ WriteEntry(w)

Seal(w) == FinishStream(w) \/ VerifyStream(w) \/ WriteMetadata(w) \/ SyncPartial(w)

Conclude(w) ==
    \/ CommitRename(w) \/ CommitRefused(w) \/ CommitDurable(w) \/ CommitUndone(w)
    \/ RecordFailure(w) \/ DrainQueue(w) \/ ReleaseLock(w)

Thread(w) == Raise(w) \/ Consume(w) \/ Seal(w) \/ Conclude(w)

Next == \E w \in Writers :
    \/ Construct(w) \/ Kill(w) \/ Call(w)
    \/ FinishStart(w) \/ Finish(w) \/ Expire(w)
    \/ Thread(w)

Spec == Init /\ [][Next]_vars

(***************************************************************************)
(* Threads of a live process are scheduled, every file operation returns,  *)
(* and time passes.  The owner is free: nobody has to call finish.         *)
(***************************************************************************)
Fairness == \A w \in Writers :
    WF_vars(Thread(w)) /\ WF_vars(Finish(w)) /\ WF_vars(Expire(w))

FairSpec == Spec /\ Fairness

-----------------------------------------------------------------------------
(* Properties.                                                              *)

TypeFiles ==
    /\ lockFile \in Writers \cup {NoOne}
    /\ partial \in Writers \cup {NoOne}
    /\ dest \in Writers \cup {NoOne}
    /\ files \in [Writers -> [mcap : {"none", "open", "synced"},
                              meta : {"none", "synced"}, listed : BOOLEAN]]
    /\ obtained \subseteq Writers

TypeCalls ==
    /\ owner \in [Writers -> {"idle", "reserved", "checked", "made", "running",
                              "refused", "killed"}]
    /\ finisher \in [Writers -> {"idle", "put", "wait", "report", "raised"}]
    /\ expired \in [Writers -> BOOLEAN]

TypeState ==
    state \in [Writers -> {"open", "closing", "committed", "aborted", "failed"}]

\* No counter exceeds its capacity; that none is negative is QueueAccounting.
TypeQueue ==
    /\ queue \in [Writers -> Seq(Entry \cup {Sentinel})]
    /\ queued \in [Writers -> [Counters -> Int]]
    /\ \A w \in Writers, c \in Counters : queued[w][c] <= Limit(c)
    /\ accepted \in [Writers -> Seq(Entry)]

TypeWork ==
    /\ pc \in [Writers -> {"none", "open"} \cup Consuming \cup Sealing \cup Ending]
    /\ held \in [Writers -> {<<>>} \cup {<<e>> : e \in Entry}]
    /\ \A w \in Writers : pc[w] \in {"count", "write"} => held[w] # <<>>
    /\ written \in [Writers -> Seq(Entry)]
    /\ stranded \in [Writers -> BOOLEAN]

TypeOK == TypeFiles /\ TypeCalls /\ TypeState /\ TypeQueue /\ TypeWork

\* Entries that left no counter yet: queued, or taken and not yet counted.
Charged(w) == (IF pc[w] = "count" THEN held[w] ELSE <<>>) \o queue[w]

Unit(e, counter) == IF e # Sentinel /\ e.counter = counter THEN e.count ELSE 0

\* The entries of s are charged n to a counter, those behind each place what
\* is left there.
Charges(s, counter, n) ==
    \E left \in [0..Len(s) -> 0..n] :
        /\ left[0] = n /\ left[Len(s)] = 0
        /\ \A i \in DOMAIN s : left[i - 1] = Unit(s[i], counter) + left[i]

(***************************************************************************)
(* While a writer accepts entries its two counters say exactly what is     *)
(* charged to them, so an entry that fits its counter fits the queue:      *)
(* put_nowait in _submit never raises queue.Full.                          *)
(***************************************************************************)
QueueAccounting == \A w \in Writers : Accepting(w) =>
    /\ \A c \in Counters :
          pc[w] \notin Ending => Charges(Charged(w), c, queued[w][c])
    /\ \A e \in Entry : Fits(w, e) => ~QueueFull(w)

(***************************************************************************)
(* Whatever bears the episode's name holds every accepted entry in order,  *)
(* and its stream, its metadata and their directory entries are on disk:   *)
(* a crash at any step leaves either no episode or a complete one.         *)
(***************************************************************************)
PublishedComplete == \A w \in Writers : dest = w =>
    /\ written[w] = accepted[w]
    /\ files[w] = [mcap |-> "synced", meta |-> "synced", listed |-> TRUE]

(***************************************************************************)
(* A writer that was aborted, failed, or whose finish raised has no        *)
(* published episode, however late the writer thread gets to the rename.   *)
(* The exception is a commit whose rollback failed too.                    *)
(***************************************************************************)
RevokedUnpublished == \A w \in Writers :
    (state[w] \in {"aborted", "failed"} \/ finisher[w] = "raised") =>
        dest # w \/ stranded[w]

(***************************************************************************)
(* At most one of the processes given a name ever obtains its partial      *)
(* directory: when that one crashed, failed or committed, no later one     *)
(* takes what it left, and a directory renamed away is not made again.     *)
(***************************************************************************)
SoleOwner == \A v, w \in obtained : v = w

(***************************************************************************)
(* A writer that is closed, aborted or failed ends: its thread notices,    *)
(* releases what it holds and sets _done, and a finish under way returns.  *)
(***************************************************************************)
WriterEnds == \A w \in Writers :
    (Running(w) /\ state[w] # "open") ~>
        (~Running(w) \/ (pc[w] = "done" /\ finisher[w] \notin {"put", "wait"}))

-----------------------------------------------------------------------------
(* Each writer implements the abstract commit.                              *)

Verdict(w) ==
    CASE state[w] = "open" -> "recording"
      [] state[w] = "closing" -> "sealed"
      [] state[w] = "committed" -> "committed"
      [] OTHER -> "lost"

Commit(w) == INSTANCE EpisodeCommit WITH
    phase <- Verdict(w),
    content <- accepted[w],
    published <- IF state[w] = "committed" THEN written[w] ELSE <<>>

(***************************************************************************)
(* The queue, the deadline and the file system together give the owner     *)
(* the all-or-nothing episode of EpisodeCommit.                            *)
(***************************************************************************)
ImplementsCommit ==
    /\ \A w \in Writers : Commit(w)!Init
    /\ [][\A w \in Writers : [Commit(w)!Next]_(Commit(w)!vars)]_vars
=============================================================================
