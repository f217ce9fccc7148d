# Verification of UR12e Collection

TLA+ models, TLC runs and TLAPS proofs for the collection program of this
repository. Paths below are relative to `src/ur12e_collection/` of the package
unless they start with `docs/` or `README.md`.

1. [The system](#1-the-system)
2. [Modules and what they model](#2-modules-and-what-they-model)
3. [Runs, bounds and results](#3-runs-bounds-and-results)
4. [Fairness](#4-fairness)
5. [Proofs](#5-proofs)
6. [Disagreements between code and documents](#6-disagreements-between-code-and-documents)
7. [What is not modelled](#7-what-is-not-modelled)
8. [Plan](#8-plan)

## 1. The system

One session records demonstrations of a UR12e arm that follows a GELLO leader.
Three kinds of work run side by side:

- the **control process**: a 120 Hz loop (`control/runtime.drive`) that reads
  feedback and leader, steps the motion and takes at most one key. Two threads
  share the devices with it: the stop worker and the tool worker;
- the **recorder process** (`recording._run`): takes camera frames and commands,
  feeds the current episode, and answers. A finalizer thread and a writer thread
  complete the episode;
- the **reader processes** of the cameras, which put images into shared slots, and
  those of the arm and the gripper, which put samples into bounded queues.

Control and recorder share two FIFO queues, a cancellation flag, a
status block with timestamps, the image slots, and the file system. Around a
session stand other programs: the calibration that drives the arm through a
route, a batch of camera-only episodes, the simulator's session with its own
recorder, the maintenance of the leader's motors, an observer that shows a
session to ROS. Those that move an arm lease it.

### Inventory

| Component | State it keeps | Operations | Hard part | What makes it correct |
|---|---|---|---|---|
| Episode writer (`storage.py`) | lock, partial and final directory; bounded queue with two counters; `state`, `error` | reserve, submit, abort, finish; thread: consume, seal, verify, commit | three threads, a deadline, process death, I/O failure around one rename | the directory appears only complete and durable; who was told "failed" never sees it appear |
| Collection session (`control/collection.py`) | phase, active episode, `completed`, quit, rejection | keys, replies, feedback, rejection, disposition, close, interrupt | replies that arrive in a phase a key has changed; failures inside failure handling; signals | outcomes say what happened; the arm is still while an episode is sealed; a verified episode stays so |
| Recorder and camera episode (`recording.py`, `session.py`) | capture state, boundary, watermark, cutoff, held-back frames; control log; completion | take a command, take frames, seal, supervise the owner | two streams meet by timestamp, late and out of order; two episodes share one object | the episode holds exactly its interval; no episode stays open without an owner |
| Standstill policy (`control/settling.py`) | previous sample and start of the window | update | repeated samples, two clocks that may jump | "still" means still over a whole window on both clocks |
| Motion owner (`control/owner.py`, `control/teleop.py`) | two state machines with deadlines, the settling window | step, keys, stop, reject, resume | exceptions between two states that must agree; deadlines that race with the sample that ends them | a stop reaches the arm; only HOME moves a stopped arm |
| Physical transport (`physical/`) | `halted`, `protected`, the stop worker, the tool mailbox | observe, servo, move, stop, release, close | a blocking SDK call in another thread; close while it stalls | one writer to the SDK; a release that returns is a verified stop; no grasp outlives its interval |
| Command group, twins (`followers/dispatch.py`) | staged gripper position; a queue of one per twin | stage, commit, fan out | a twin fails or lags while the arm goes on | twins never delay or fault the arm |
| Local follower (`followers/local.py`, `kinematic.py`) | epoch, sequence, owner; watchdog | claim, command, heartbeat, publish | commands dropped by age; a new owner while old commands are buffered | at most one owner; a silent owner leads to hold |
| Leader source (`leader/source.py`, `native.py`, `input.py`, `stream.py`) | bounded mailbox, recent window, latched fault, last intent | publish, read, drain, close | producer and two consumers at different rates | no sample is lost without a fault reaching both consumers; no intent is older than it claims |
| Leader maintenance (`leader/maintenance.py`) | baud rate of each motor, journal | plan, migrate, probe, recover | a lost acknowledgement, a death between EEPROM and journal | the journal locates every motor |
| Frame matcher (`matching.py`) | per-camera buffers, deadline of the anchor | push, flush, finish, fault | late, reused and expired views; eviction | the incremental result is the definition applied to the streams |
| Camera rig, slots (`rig.py`, `shared_frames.py`) | ring of slots, tickets, semaphore; status of each process | write, read, fail, close | a process dies holding a slot, or with an error behind frames | no slot is read while written; a lost camera ends the read |
| Archive (`archive.py`, `control_records.py`) | ordered log; validators; decoders | group, reject, record, verify | order of events around both boundaries, association of pictures | what the writer writes is accepted; what is accepted is what was recorded |
| Feedback and control records (`feedback.py`, `control/records.py`) | queue of each device, last receipts, numbers | read, number, cut, tail | samples on their way while the arm is released | the log is the interval, whole |
| Station file and result bundles (`station.py`, `calibration/`) | the file, a backup link, a temporary file; partial and final directory | write, roll back, activate, publish | crash between links, replace and sync; two writers | old or new content, never neither |
| Calibration traversal (`calibration/traversal.py`, `checkpoint.py`) | pose index, checkpoint, images in a queue | traverse, dwell, examine, resume | stale views or feedback at a dwell | every stored view belongs to its pose |
| Station launchers (`control/runtime.py`, `calibration/replay.py`) | lease, stack of resources, output directory | open, register, drive, unwind, publish | an interrupt or a fault between any two statements | only one program is connected to the arm, and never without its evidence |
| Simulator session (`control/session.py`, `lifecycle.py`) | lifecycle, arm owner, powered leader, two queues | keys, steps, fail, close | a program that outlives its step; failures inside failures | nothing moves or falls that was let go |
| Simulated robot (`simulation/connection.py`) | what it executes, lease | bring up, play, upload, stop | programs that survive their client | programs exclude each other |
| Camera-only batch (`shadow.py`) | report, active episode | record, list, clean up | interrupts between commit and list | the report is true at every moment |
| Observer (`ros_observer.py`) | bounded queue, worker, counters | offer, status, poll, close | a full queue, a worker that dies | every record is accounted for; it never blocks the session |

Numerics, serial register traffic, preflight checks, codecs and the command line
are listed with their reason in section 7.

### How the parts interact

    operator keys -> CollectionSession -> Teleoperation -> Controller -> Group -> Transport -> SDK
                          |    ^                                           |          |
                 commands v    | replies                                 twins    stop worker,
                   recorder process                                              tool worker
                   _Capture -> session.Session -> matcher -> EpisodeWriter -> writer thread
                          ^
                  camera readers (slots)

- Control and recorder exchange `prepare`, `begin`, `samples`, `stop`,
  `settled`, `freeze`, `cancel` and their replies. A full command queue or a
  command out of protocol kills the recording, not the motion.
- Motion failures become a *rejection*: the arm is stopped, the recorder is
  frozen, and the operator chooses to save or to abort.
- The recorder supervises its owner by heartbeat and cancels the episode itself.
- The camera readers feed the recorder, which groups frames in the matcher and
  gives groups and control records to the archive; another process verifies it.
- The episode's sidecar `outcome.json` and the session's `session.json` are
  written by control, the episode directory is renamed by the recorder.

## 2. Modules and what they model

| Module | Code | Role |
|---|---|---|
| `EpisodeCommit` | contract of `storage.py` | abstract: entries are accepted, then published whole or lost |
| `EpisodeWriter` | `storage.py`, `filesystem.py` | the threads, queue and files that implement it |
| `CollectionSession` | `control/collection.py`, `control/runtime.py` | the control loop around the recorder and the motion |
| `RecorderCapture` | `recording.py`, `session.py` | the recorder child around the writer |
| `Settling` | `control/settling.py` | the incremental standstill window, as operators |
| `Standstill` | `control/settling.py` | the window run over all histories of samples |
| `MotionOwner` | `control/owner.py`, `control/teleop.py`, `physical/`, part of `followers/dispatch.py` | every path that moves or stops the arm; uses `Settling` |
| `CommandTwins` | `followers/dispatch.py` | the twin's queue of one, its thread, its faults |
| `FollowerLink` | `followers/local.py`, `followers/kinematic.py`, the loop of `followers/application.py` | owners of a native follower, over a socket |
| `SharedSlots` | contract of `shared_frames.py` | abstract: slots, tickets and copies, whatever the two ends do |
| `SlotRing`, `RigRings`, `CameraRig` | `shared_frames.py`; `rig.py` | the ring as operators on a record; one ring for each camera and what is owed to it; the processes that use them |
| `FrameMatcher` | `matching.py` | groups of frames decided online |
| `ControlRecords` | `control_records.py` | the validator's automaton, as operators |
| `ControlLog` | `feedback.py`, `feedback_source.py`, `control/records.py`, part of `control/collection.py` | how the log of an episode comes about; uses `ControlRecords` |
| `EpisodeArchive` | `archive.py` | writer, damaged file and verifier; uses `ControlRecords` |
| `ShadowBatch` | `shadow.py`, `session.py` | batch loop, report and cleanup |
| `LeaderSource` | `leader/source.py`, `native.py`, `input.py`, `episode.py`, `stream.py` | reader thread, mailbox, intents and the capture of a stream |
| `MaintenanceJournal`, `LeaderMaintenance` | `leader/maintenance.py`, `leader/bus.py` | migration of the baud rates |
| `CalibrationTraversal` | `calibration/traversal.py`, `checkpoint.py`, `rollout.py`, `camera.py`, `replay.py` | route, dwell, images |
| `StationFile` | `station.py`, `calibration/` bundles and activation | file replacement and result directories on a disk that loses power |
| `StationLease` | `control/runtime.py`, `calibration/replay.py` | the stacks of resources of the two physical programs |
| `SimulatorSession` | `control/session.py`, `control/program.py`, `simulation/` | the simulator's session |
| `SimulatorStation` | `simulation/connection.py`, `simulation/session.py` | clients that share one simulated robot |
| `Observer` | `ros_observer.py` | queue, worker, status |
| `ControlLoop`, `StationPrograms`, `CameraOnly` | | instances of components side by side, with the assumptions on their constants, for the runs and the theorems |
| `*_proofs` | | theorems, section 5 |
| `MC*` | | values of constants for TLC |

`PROJECT.json` maps each definition to the lines it models. In every module,
an operator commented *"Mutant of X"* is X with a plausible mistake; it is used
only to confirm that the properties notice the mistake.

### EpisodeWriter

One process per element of `Writers`, all given the same episode name.
`owner[w]` follows the constructor (`Reserve` ... `StartThread`), `finisher[w]`
the call of `finish`, `pc[w]` the writer thread. The lock file, the partial
directory and the destination are shared; each records its creator. The
queue is a sequence, its two counters are `queued`. An entry is the counter it
is charged to and its size; that is all the queue and the commit depend on.
Encoding is left out; verification is a step that succeeds or raises. `Kill`
may happen between any two steps: threads end and all files stay, the lock file
included; what was not synced before the rename would be missing after a power
loss, and `files` keeps track of it; `obtained` remembers whose constructor made
the partial directory. `CommitRename`,
`CommitDurable` and `CommitUndone` are the three file operations of the commit,
with the rollback and the case in which the rollback fails too (`stranded`).

### CollectionSession

`pc` is the place in one pass of the loop: *poll* the recorder, *retire* an
episode that was listed as complete or as a partial, *move* (feedback and motion), *record* (phase), *dispose*
(a rejection), *key*. Actions end where the code calls another component,
because another process, a device failure or a signal can be observed exactly
there. A device fails *soft* (the controller still stops on request) or *hard*
(it has latched a fault). `child` is the protocol state that the recorder
checks, taken from `_Capture`: a command it would refuse sets `refused`. `poll` may
raise although the child lives and goes on to commit. The
motion is its state only; how it stops is `MotionOwner`.

### RecorderCapture

`control` is the sender of commands, as far as the recorder can tell;
`CollectionSession` is the detailed one. Time is a few ticks; a frame is its
receipt, at most one per tick, and arrives any time after it. `Step` is one
pass of `_Capture.step`: the new frames, the admission by watermark, the
overflow of the held-back list, the drain after the cutoff and the seal.
The writer is seen by its verdict (open, failed, committed), which is what
`EpisodeCommit` promises.

### Settling and Standstill

A sample has a place on two clocks (receipt and controller uptime) and is slow
or not. `Settling` is the code's incremental window; `Standstill` runs it next
to the full history. `MotionOwner` uses the same operators, so the theorem
about the window is about the code path the owner uses.

### MotionOwner

`teleop` is `Teleoperation.state`, `ctl` the `Controller`, `port`, `stop` and
`tool` the transport and its workers, `motion` what the robot controller was
last told to do (external), `closing` the progress of `Transport.close`.
A loop pass is one action because only the two workers run beside it, and the
pass reads each worker once. Clocks are only compared with each other, so the
model keeps ages and remaining times, cut off where no comparison can tell a
difference. A pass takes a duration from `Passes` and uptime moves by a value
from `Advances`, so late passes, repeated feedback and restarted controllers
are ordinary behaviours. Limits, guards and precision checks appear as errors
that any step may raise. Routes have one waypoint. `home_open_gripper` is on,
which `physical/config.py` requires; key debouncing is not
modelled (a key may come at any time, which includes it).

### FollowerLink

`owner[e]` is one control process: its `Transport`, used once and so an epoch
of its own, and the `Controller` above it as far as it decides what is sent
(`MotionOwner` has the rest). `up[e]` and `down[e]` are the two directions of
the socket, `backlog` the connections that `listen(1)` holds. `pc` is the place
in a pass of the render loop: *receive*, then each buffered message (*execute*),
*update*, *publish*; scene changes and frames may take any time
(`TimePasses`), which is how a message becomes too old. The engine's pose is
left out, its motion is at rest, on a route or at a target, with the epoch that
commanded it. A message is an operation and an age. Sequence numbers grow with
every message of a stream that neither loses nor reorders, so the two sequence
checks cannot act and are not kept. A transport or its process may end anywhere,
a send may be partial, the service may close. When a stop or a move counts as
finished is left open (any slow sample may do); `Standstill` has the rule.

### The camera side: SharedSlots, SlotRing, RigRings, CameraRig, FrameMatcher

A ring is a record and an operation of `shared_frames.py` maps a ring to a ring;
`RigRings` keeps one for each camera. The two images of a frame are two copies,
each written and read by a step of its own, named by the ticket they belong to.
`SharedSlots` is what a ring promises when its two ends take steps in any order
and stop for good at any of them, and `RingsImplementSlots` says that the rig
uses every ring that way. The rig's reader visits the cameras in turn, as `read` does:
status messages, whether the process lives, at most `Capacity` frames, the age.

`FrameMatcher` is `push` with everything it calls. A frame is its source time,
depth counter and depth time, and receipt; camera time and host time
are two clocks. `Choice` is the definition the online result is compared
with: over everything ever pushed. A drain is a run of decisions, `Decided`, over the
anchors at the front that are due.

### Records: ControlRecords, ControlLog, EpisodeArchive

The validator's automaton is a set of operators on its state, used by the two
models that need one. `ControlLog` has the two device processes, whose samples are
on their way for any number of passes (a read gets a prefix of what was put),
`Feedback.read`, the numbering of records, and the cut at the release.
`EpisodeArchive` has the writer, one message of the closed file lost, repeated,
exchanged or spoiled, with log times left or made regular again, and the
verifier. A picture is its camera and its place or time; what a decoder makes of
a packet that is not its next is a choice.

### Batches and launchers: ShadowBatch, StationLease

A statement of the program is a step that may raise or be interrupted. `ShadowBatch`
has the loop, the report on disk and the cleanup, with the thread that finishes an
episode in between; a second interrupt during the cleanup is the death of the
process. `StationLease` has the resources of teleoperation and
calibration as a stack (`ExitStack`), what is open and what is registered. An
interrupt inside `ExitStack` itself is left out, and every calibration has an
output of its own. `missed` is what stays open to the end of the process: opened and
not registered when a statement raised, or its close raised.

### The leader: LeaderSource, MaintenanceJournal, LeaderMaintenance

`LeaderSource` has the reader thread, the mailbox under its lock, and either a
control loop or a capture behind it (`consumer.mode`). Each locked section and
each reading of the clock is a step. `LeaderMaintenance` begins with a bus on which
any motors have any of the two rates, as an earlier migration that failed leaves it
(docs/m04-gello-adapter/baud-migration.md:62-67); it has the plan, every write
to a motor's EEPROM with its lost packets, the journal (`MaintenanceJournal` says what
its reader may conclude), and the probe after a
failure; a read may fail at any step and so may the process.

### Calibration and files: CalibrationTraversal, StationFile

`CalibrationTraversal` runs the traversal with the camera worker and its queue;
the arm is external, and which of two images is sharper is a choice. `StationFile`
has two writers of the station file (one of them an activation) and two solvers of
one bundle, on a disk that loses power. Of the station file (`disk`) and of the
directory of the bundles (`shelf`) it keeps what was flushed last and every state
since, any of which a power loss may leave; each file of a tree may be as it was
last flushed. Any call may fail, also the one that takes back what was published,
and the removal of a temporary name after the document was flushed.

### The simulator: SimulatorSession, SimulatorStation

`SimulatorSession` is the session with its lifecycle, NativeHome, the powered
leader and the recorder's protocol behind two queues; any call of a key or a
step may raise after what the calls before it did. The release that follows may
raise too (`CloseRaises`): `_release` then leaves the station owned, and `close`
tries once more. `SimulatorStation` is the robot
between several clients: what it executes survives its client, and so does a
program it has acknowledged (`pending`), which it starts any time later; `stray`
remembers that a client was through with its HOME before that.

### Followers: CommandTwins, Observer

`CommandTwins` has the two threads around the queue of one; each call on the
queue is a step, because the group replaces an entry by taking it and putting
another. `Observer` is the process that shows a session to ROS, behind a bounded queue
that the control side never waits for.

### Side by side: ControlLoop, StationPrograms, CameraOnly

Many components are small and share no state with another. `ControlLoop` has an
instance of each that a control loop feeds or asks (`Standstill`, `LeaderSource`,
`CalibrationTraversal`, `ControlLog`, `CommandTwins`, `Observer`),
`StationPrograms` of each program beside a session (`LeaderMaintenance`,
`SimulatorSession`, `StationFile`, `SimulatorStation`, `StationLease`), and
`CameraOnly` of the rig, the frame matcher that shares its clock, and the batch, whose
exceptions are the rig's faults.
They say what the constants of each are assumed to be, and give the components'
properties one name; the MC modules give the constants values, and the `_proofs`
modules have the theorems, about each instance's own `Spec`.

## 3. Runs, bounds and results

Every run finishes in about a minute with two workers. Deadlock
checking is off only where the system really stops: a closed session, a dead
process, an ended history.

| Run | Properties | Distinct states |
|---|---|---|
| `episode_writer` | QueueAccounting, PublishedComplete, RevokedUnpublished, SoleOwner, WriterEnds, ImplementsCommit | 215,799 |
| `collection_safety` | OutcomeTruthful, ProtocolRespected, StillWhileSealing, MotionAuthorized, VerifiedSurvives | 5,142,230 |
| `collection_quit` | QuitEnds | 366,019 |
| `capture_safety` | WindowExact, ConfirmedBeforeSeal, FaultsSurface, RingsImplementSlots, DecisionsExact, ArchiveTruthful | 1,613,852 |
| `capture_ends` | EpisodeEnds | 499,340 |
| `motion_owner` | StopEffective, ToolRevoked, ReleaseVerified, SdkExclusive, StopThenHome, MotionEnds | 187,002 |
| `follower_link` | MotionExpires, StopBounded, MotionOwned | 1,802,789 (up to symmetry) |
| `control_side` | HoldMeasured, HoldGranted, EvidenceWhole, IntentsLive, SessionOrdered, JournalLocates, EvidenceOfPose, EvidenceKept, LogTruthful, ConsumersExact, ProgramsExclusive, LeaseCovers | 966,744 |
| `collection_quit_once`, `collection_signal`, `capture_boundary`, `native_home` | each shows one disagreement, section 6 | |

`control_side` and `capture_safety` run parts that share no state side by side:
the variable `part` says which one a behaviour is about, and the others stay as
they begin. It is one question for each half of the system, asked of every
component on an instance of its own; a property named after several conjuncts
(`SessionOrdered`, `EvidenceKept`, `ConsumersExact`, `FaultsSurface`) joins those of
neighbouring components.

**episode_writer.** Two processes (`w1`, `w2`), item capacity 1, feedback
capacity 2, batches of 1 and 2, three entries. Two processes are the least that
can collide on a name; capacity 1 makes the queue full with one entry in it,
so that submit, the sentinel and the abort all meet a full queue; the feedback
counter has a batch that fits alone but not twice. Shown: the counters always
equal what is queued or in flight; a published directory holds every accepted
entry in order with metadata and directory entries on disk; after an abort, a
failure or a `finish` that raised, nothing appears under the final name; only
one process ever makes the partial directory, and none takes over what a killed one
left; in a process that stays alive, a writer
that is closed, aborted or failed ends and a pending `finish` returns; the whole
refines `EpisodeCommit`.

**collection_safety.** Two episodes, command capacity 2. Two episodes are
needed for anything carried over from one to the next (numbers, replies, the
entry that `close` adds). A signal may fall anywhere but between listing an episode
and retiring it (`InterruptInCompletion`, section 6). Shown: `outcome.json` says success or fail only of a
committed episode that no fault touched; each episode has at most one entry and
entries are in order; the child is never sent a command it refuses, whatever
keys, faults and late replies come in between; while an episode is sealed the
arm does not move; motion is engaged only in a phase and with a rejection state
that permit it; a verified entry is never changed.

**collection_quit.** One episode, a queue of one command, and an operator who
repeats `q` until the program ends: it does, whatever fails and in whatever phase.

**capture_safety.** *Recorder:* four ticks, drain of one tick, one held-back frame, two
episodes, one frame, two unread commands. The frame can be before, at and after
both boundaries, and read late or early. Two episodes are needed because `_Capture`
reuses its flags. A second frame, and with it a held-back list that overflows, is
in `capture_ends`; the theorems of section 5 have any number of both. Shown: the sealed
episode has every frame of its interval that was read after `begin` and no
other, and the control log is the interval's (`WindowExact`); it is sealed only
after *its own* hold was confirmed. *Rig:* a wrist camera with three frames and two
slots, so that a slot is used again, beside a second camera, and at most one
restart of a device's frame counter: the rings implement `SharedSlots`, and a read that starts after a camera process ended returns
nothing. *Matcher:* three frames of each of two cameras, two anchors pending, gaps
and delays that make frames late, repeated, invalid or evicted: every decision
is the definition's, every anchor is decided once. *Archive:* two groups or
rejected anchors among the six records of the shortest complete episode, one
damaged message, and file faults only at the start, in the middle and at the end of a
batch (`BetweenBatches`): what is accepted is what was recorded, what is undamaged is
accepted, and the encoders never refuse what the validator admitted.
*Batch:* three episodes with feedback: the report on disk is true at every moment.

**capture_ends.** One episode, two frames, one held back and one unread command, and
the owner may close the recorder or die at any step: a confirmed, cancelled or orphaned
episode ends, also when the held-back list overflows.

**motion_owner.** Freshness 1, window 1, deadlines 2, 2 and 1, passes of 1 and
2, uptime steps -1, 0 and 1. Deadlines of at least two passes let the sample that
completes a stop or move race with its deadline; a pass of 2 makes feedback
stale at once. Shown: unless faulted, `Teleoperation` and `Controller` describe
the same situation; every stop is in the SDK or behind one that is; no staged or
pending grasp survives a stop of its interval; a `close` that returns has a
verified stop or a protective stop behind it and leaves no tool request; the
control thread never writes to the SDK while a stop worker is in it; a halted
arm is moved again only by a HOME asked for in rest; and each motion comes to an
end.

**follower_link.** Two transports, a send buffer of two messages, and one unit of
time a little longer than the 0.5 s that commands, the watchdog and the freshness
limit share: within a unit everything is in time, in the next everything sent
before is too old, and the watchdog waits one more. Two transports are what a takeover needs;
two messages let a stop and a heartbeat, or a claim and a command, be in one
batch. The buffers of both transports are never full at once (`OneFull`): each
transport alone meets a full buffer. The two transports are alike, so TLC identifies states that differ only
in their names. Shown: a motion is executed only while its owner was heard of
within the life of a command and the watchdog's patience; a stop that was
dropped for its age is made good by the end of its deadline and that silence;
and the follower never moves by a command of an earlier epoch.

**control_side.** Twelve parts.

- *Standstill:* four samples, the first at place <<0, 0>> (places are only compared),
  freshness 2, window 3, and clock steps -1, 0, 2 and 3: backwards, repeated, the longest allowed gap, and one more. A confirmed
  hold is a full window of slow samples on both clocks without a gap
  (`HoldMeasured`), and every such window is confirmed (`HoldGranted`).
- *Leader:* mailbox of three, recent window of two, four ticks: what a capture
  writes is every acquisition in order until a latched fault (`EvidenceWhole`);
  no intent is built on a stale, older or failed reading (`IntentsLive`).
- *Simulator session:* two episodes and a failure in any call: the recorder is
  only sent what it accepts, and nothing moves or falls that the session let go; an arm
  still owned after a failure is one whose release raised (`SessionOrdered`).
- *Leader maintenance:* three motors, so that one is migrated before and one after
  the motor in doubt, on a bus of any mix of the two rates: a mixed one is refused
  untouched, and the journal says which motors this run has moved (`JournalLocates`).
- *Traversal:* two poses, dwell of two ticks, a queue of two images, six ticks:
  an image of the pose before can be examined at the next; it is never kept
  (`EvidenceOfPose`).
- *Station file* and *bundles*, two parts: two writers and one solver, or two solvers
  of one name, one fault, one death: the file is the old or the new document, whole, and
  so is a published bundle, also when the power goes between the flush of its tree,
  the rename and the flush of its directory (`EvidenceKept`). In the part of the station
  file a writer moves only while no solver is under way: solvers meet in the other part.
- *Control records:* four ticks, three samples of the arm and two of the gripper, queues of two: the
  log is the interval's, and accepted exactly when no stream has a hole
  (`LogTruthful`).
- *Twins and observer:* four commands; a queue of two, two phases, three records:
  the twin's last command is the newest it was offered; every record is accounted
  for (`ConsumersExact`).
- *Simulated robot:* two clients and three launches, so that one meets
  what the other left running: programs exclude each other as long as no client was
  through with a HOME the robot had still to start (`ProgramsExclusive`).
- *Launchers:* one teleoperation, one calibration, at most one resource that a failure
  leaves open (`MaxMissed`): whoever drives the arm has the lease and its evidence log,
  and so has whoever is connected to it, save what was missed; a program that missed a
  resource drives and publishes nothing more, and a calibration is published whole
  (`LeaseCovers`).

Each property has a mutant in `PROJECT.json`: a definition with one plausible
mistake (a dropped guard, a flag not reset, two steps swapped) under which the
same run reports that property violated. Each module also has a type invariant
`TypeOK`; the theorems prove it for the modules of section 5.

## 4. Fairness

Only what the code's scheduling gives:

| Specification | Assumed | Because |
|---|---|---|
| `EpisodeWriter!FairSpec` | weak: the writer thread, a call of `finish` in progress, the passing of its deadline | threads of a live process are scheduled, file calls return, time passes. Nobody has to call `finish` or `abort` |
| `CollectionSession!FairSpec` | weak: the control loop, the child's service of a command, its bounded `finish`, the review limit; strong: a stop comes to rest or faults, a tail of records closes or its readers fail | 120 Hz loop; 30 s finish timeout; 4 s `STOP_TIMEOUT`; stale readers raise. No key is ever assumed |
| `CollectionSession!InsistentSpec` | in addition strong fairness of the key `q` | the operator repeats it |
| `RecorderCapture!FairSpec` | weak: the child's loop and close, the writer's threads, the clock; strong: a waiting command is taken, and a lost heartbeat of a dead owner is noticed | the loop polls both in every pass |
| `MotionOwner!FairSpec` | weak: loop passes, the steps of a close that began | 120 Hz loop; nothing is assumed of the SDK call in the stop worker, of the tool or of the operator |

## 5. Proofs

TLC checks the instances of section 3; the theorems hold for every value of
the constants that satisfies the named assumptions (`NamesAssumption`,
`SentinelAssumption`, `CapacityAssumption`, `BoundsAssumption`, `NoneAssumption`,
`SettlingAssumption`, `StandstillAssumption`, `MotionAssumption`, `LinkAssumption`,
`LoopAssumption`, `StationAssumption`, `RobotAssumption`, `LaunchAssumption`,
`CamerasNamed`, `MatcherAssumption`, `BatchAssumption`: kinds of numbers, positive capacities, distinct
markers and names, programs that exist). Each is evaluated by TLC in the runs of its module.
Some theorems have a hypothesis instead:

- `BusOrdered` (`JournalAlwaysLocates`): the motors of the bus are finitely many
  different ones;
- `~InterruptInCompletion` (`OutcomesAreTruthful`, `VerifiedStays`): no signal falls
  between listing an episode, as verified or as a partial, and retiring it; without it
  `collection_signal` shows the second of them false, and the first is false too, since
  `close` lists the episode once more;
- `~PlayDelay` (`SessionIsOrdered`): a native program that was accepted has started;
  without it `native_home` shows what the session mistakes for its completion.
  `RecorderAlwaysAccepts`, the half about the recorder, does not need it.

Three theorems state an exception within the property, where the code does not exclude it:

- `ProgramsAreExclusive`: but for the lease, only as long as no client was through with
  its HOME (it held, gave up or died) before the robot had started it (`stray`). The
  finding `native_home` is such a client;
- `LeaseAlwaysCovers`: an arm that was opened and not registered, or whose close raised
  (`missed`), stays connected beyond the lease;
- `EvidenceIsKept`: a bundle may be of two solvers after a power loss that undoes a
  renaming back (`mixed`).

| Module | Theorems |
|---|---|
| `EpisodeWriter_proofs` | `TypeCorrect`, `NoPublicationAfterRevocation`, `OneProcessPerName`, `PublishedIsComplete`, `WriterImplementsCommit`, `CountersAreExact` |
| `CollectionSession_proofs` | `TypeCorrect`, `MotionIsAuthorized`, `ProtocolIsRespected`, `StillIsSealed`, `OutcomesAreTruthful`, `VerifiedStays` |
| `RecorderCapture_proofs` | `TypeCorrect`, `WindowIsExact`, `SealIsConfirmed` |
| `ControlLoop_proofs` | `HoldIsMeasured`, `HoldIsGranted`, `EvidenceIsWhole`, `IntentsAreLive`, `EvidenceIsOfPose`, `TwinAlwaysFollows`, `ObserverAlwaysAccounts`, `ConsumersAreExact` |
| `MotionOwner_proofs` | `MotionSafe`, and from it `AgreementHolds`, `StopsAreEffective`, `ToolWorkIsRevoked`, `ReleaseIsVerified`, `SdkIsExclusive`, `StopThenOnlyHome` |
| `FollowerLink_proofs` | `TypeCorrect`, `MotionIsOwned`, `MotionDoesExpire`, `StopIsBounded` |
| `CameraRig_proofs` | `RigImplementsSlots`, `SlotsKeepImages`, `FramesAreWhole`, `SlotMeansRoom`, `LostCameraEndsRead`, `FaultsAlwaysSurface`, `DecisionsAreExact` |
| `StationPrograms_proofs` | `JournalAlwaysLocates`, `RecorderAlwaysAccepts`, `SessionIsOrdered`, `ProgramsAreExclusive`, `LeaseAlwaysCovers`, `EvidenceIsKept` |

Inductive invariants:

- **`VerdictInv`** (revocation). `RevokedUnpublished` alone is not inductive:
  it says nothing of a thread that is already past its check. `VerdictOrder`
  ties the place of the writer thread to `state` and `Announced` ties what
  `finish` told its caller to `state`; so a thread that may still rename
  belongs to a writer that nobody has been told has failed.
- **`ClaimInv`** (one owner). A process claims the name when its constructor makes the
  partial directory, and for good. `Reservation` says which of lock, partial and
  destination a process created at each place of its constructor, and that a claimed
  directory is there under one of its two names; so no later constructor gets past it.
- **`ContentInv`** (completeness, refinement). `Content` is the conservation
  law: accepted = written + the entry in hand + queued, for every place of the
  thread, until the writer has failed; `Stored` and `Whole` carry it through
  sealing, syncing and the rename. With it each step of the code is a step of
  `EpisodeCommit` or a stutter.
- **`AccountsInv`** (queue counters). A counter is the sum over the entries that are
  queued or in the thread's hands. A fold cannot be reasoned about here, so the sum is
  stated by its witness (`Charges`, `Sums`): some function gives what is left behind
  each place, each value is the next plus what the entry is charged, and the
  first is the counter. The witness is extended by an append, cut by a take, and
  every entry is charged at least one unit, so a queue is never longer than its counters say.
- **`TypeInv`, `ControlInv`, `ProtocolInv`, `BooksInv`** (collection session), each on
  those before it. `ControlInv` says for every phase and every place of the pass what
  there is of an episode, of a rejection and of motion: `MotionAuthorized` and
  `StillWhileSealing` follow from it. For `ProtocolRespected` one has to know every
  command on its way: `Chain` says which may follow which, `Link` that they are all of
  the active episode and together with the recorder's state are what the phase expects,
  and `Numbered` that entries and directories number the episodes without a gap. `BooksInv`
  adds that a fault is charged to an entry that is already listed or to the active
  episode, which it marks as interrupted.
- **`CaptureInv`** (recorder). Control and the recorder share only what is on its way
  between them. `Chain` orders the commands; `Batched` says that the batches in the
  inbox are exactly those that control sent and the log has not got, in order;
  `Stamped` and `Timely` tie the times in the commands to those that control keeps;
  `Linked` says for every step of control where the recorder may be; `Headed` that
  the next command fits it; and `Framed` is the conservation law: what was read within
  the interval is stored, or held back above the watermark. When the episode is sealed
  all of it meets in `WindowExact`. One part was missing at first, and the
  attempted proof showed it: once a recording child is settled, nothing is unread.
- **`Accounted`** (standstill, measured). The window's two remembered samples say nothing
  about the samples between them. The invariant gives them witnesses: the last
  sample that moved the clocks (`Anchored`) and a set of positions that forms
  an unbroken slow stretch from the window's start (`Opened`).
- **`Granting`** (standstill, granted). The other direction: every steady run that
  reaches the last sample is followed by a window that starts no later than its
  second sample (`Followed`), so a run of full length cannot go unconfirmed.
- **`MotionInv`** (motion). The five state properties, and `Supports`: a braking
  owner has sent its stop, a halted arm is not on its way to following, and how
  far a close has come says what is known of the stop worker. The two action
  properties (`SdkExclusive`, `StopThenHome`) follow step by step from it.
- **`LinkInv`** and **`SilenceInv`** (follower). `LinkInv` adds that a motion has
  an owner, so that a claim, which is taken only without one, finds the follower
  at rest. `SilenceInv` follows an owner that falls silent through the buffers:
  nothing on its way is younger than its last message (`Spoken`), what is
  executed is at most `CommandAge` old, and from there the watchdog counts. `StopInv` adds
  `Revocation` for `StopBounded`: behind a revoked motion only heartbeats within the
  deadline of its stop are on their way, so the watchdog's patience starts no later.
- **`RingInv`** (slots, refinement). What is not free is in the reader's hands,
  queued or in the worker's hands, with consecutive tickets (`Accounting`); these
  are at most as many as the slots, so they lie in different ones, and every packed
  ticket keeps its images until it is released (`Stored`, `Copied`). It holds of a ring
  that two arbitrary ends use as `SharedSlots` says. That the rig's processes are such
  ends is `Uses`, action by action: a process, or the reader at the camera where it
  stands, applies one operation of `SlotRing` to that camera's ring, under a guard that
  is the operation's, and no other ring changes. So the rig's rings satisfy `RingInv` too.
- **`FaultInv`** (a lost camera). A read that started with an ended process still has
  an ended process ahead of it, or is about to ask whether it is alive; so it cannot
  reach its end. Processes that have ended do not come back, and those not yet
  started are the ones after `spawned`.
- **`BatchInv`** (a batch's report). What is committed is what is listed and at most
  the episode under way (`BatchKept`); the report on disk is at most one append
  behind the list, and then nothing is under way (`Lags`); during the cleanup each
  device is closed, still to be closed, or an error was noted (`BatchCleaned`), so a batch
  that ends as completed has closed them all.
- **`MatchingInv`** (matcher). The anchors decided and those that wait are the wrist
  frames in their order. A frame that the buffers have lost is too old for every anchor that
  waits or comes (`Buffered`), a frame they have came in time for those that wait
  (`InTime`), and between two operations no anchor is due (`Undecided`): so what an
  anchor can be grouped with is what it could ever have been. Within a drain the
  invariant goes from decision to decision, by induction on their number (`AllNumbers`, from
  the least-number principle); a minimum and a run of decisions exist by the
  same principle. A push decides the overdue anchors before it takes the frame, and `LateFrame`
  says that the frame would have made no difference to them.
- **`LeaderOrdered`** (mailbox). What a capture has written, what it has in hand and what
  waits in the mailbox are together a prefix of what was acquired, the whole of it
  unless the fault is latched; the consumer that found no fault began its
  reading before there was one, which makes every intent live.
- **`TraversalOrdered`** (calibration). Every completed pose has an image that supports its
  dwell, and each dwell was over before the readbacks of the next pose (`PosesDone`); so
  an image of the last pose that is still in the queue is paired with no readback of this one.
- **`TwinOrdered`** (twin). The newest command offered is the one that waits, or else the
  one being executed, or else the last executed (`LastGiven`), except between the two
  calls that replace an entry.
- **`ObserverHeld`** (observer). Conservation: offered = shown + unshown + dropped + in
  hand + waiting, where what waits is a sum with a witness as above (`Waits`).
- **`JournalOrdered`** (journal). `JournalLocates` does not say which motor the
  next line will be about. `JournalProgress` ties the two sets that matter of the
  journal, motors with an intent and verified ones, to the position of apply, and
  `RatesSettled` keeps the doubt to one motor.
- **`SimOrdered`** (simulator session). For each state of the lifecycle, whom the arm
  belongs to (`ArmHeld`), also after a release that raised, what the leader does (`LeaderHeld`), and that the messages on
  their way lead the recorder from its state to the one the session counts on (`Leads`).
- **`RobotOrdered`**, **`LaunchOrdered`** (leases). Of the robot: one beyond the lease
  has it, and what is executed is the program of such a client. Of a launcher: the stack is
  the first resources in their order, what is open is on it or was missed, and the
  lock is below everything that needs it.
- **`StationOrdered`**, **`BundleOrdered`** (files). Outside the lock the file is the accepted
  document and the disk has nothing else, save what was not flushed; inside it,
  each step of the writer says which of the two documents is where (`Holding`). One solver
  at a time builds in a bundle's directory. Of every state of the directory that a power
  loss may leave, `Sorted` says that what it publishes is there under one of the two names,
  was flushed whole, and is not written into under the final one; `Written` says how far
  the tree of each solver is.

Only model-checked:

- liveness (`WriterEnds`, `QuitEnds`, `EpisodeEnds`, `MotionEnds`): liveness under
  fairness and `ENABLED` are beyond the prover;
- `ArchiveTruthful`, `LogTruthful`: the verdicts over an archive and over a log are one
  pass of the validator's automaton over sequences of any length. The induction of
  `MatchingInv` reaches such a pass, but the invariant that follows the automaton through
  every record, with the message that was damaged, is not written.

## 6. Disagreements between code and documents

Four runs show the code doing something a document or prompt excludes.

- **`collection_quit_once`.** README.md:33 says `q` aborts and exits, the prompt
  in `control/collection.py` says "q exits". After `q`, an overdue lost motion
  clears the operator's choice and cancels; if the recorder dies before it
  answers, the session is in review again, and `_review` returns because there is no
  choice, although `quit` is set. The program then waits for another key.
  `collection_quit` shows that repeating `q` is enough.
- **`collection_signal`.** README.md:35 says completed episodes survive later
  exit errors. A SIGTERM or Ctrl+C between `completed.append` and `active = None`
  makes `close` list the episode again and overwrite its verified outcome with
  `aborted`. The same window in `_partial` lists a partial twice. With `InterruptInCompletion = FALSE`, signals everywhere else
  leave `VerifiedSurvives` true.
- **`capture_boundary`.** docs/m09-session/plan.md:72-73 says control records and
  camera admission share one boundary. A frame stamped after the boundary but
  read before `begin` is taken is dropped, while the control records of the same
  instants are stored. `WindowExact` states what does hold.
- **`native_home`.** docs/m06-control-motion/simulator-control.md:250-251 says the SDK
  is reacquired only after a measured completion of HOME. `NativeHome.step`
  confirms the hold 100 ms after the first readback that is stopped and at READY,
  without asking whether the program was seen running, although it grants an
  accepted play two seconds to start. Started at READY, the session can take the
  SDK while the native program has yet to run. `control_side` has
  `PlayDelay = FALSE`: a program that starts at once is confirmed only at its end.

Smaller observations, which no sentence of the repository excludes and the models
include:

- `station._write` does not flush its rollback: after a power loss a document
  that was withdrawn may be the file's content again (`unsettled` in `StationFile`).
- `filesystem.publish` does not flush its renaming back either. The directory that comes
  back may replace the empty one of a second solver, which then writes into it; after a
  power loss it may be the published one, with the evidence of the one and the result of
  the other (`mixed` in `StationFile`). `verify` refuses it.
- A write of the station file whose temporary name cannot be removed, or whose rollback
  fails, reports an error although its document stays (`Leave`, `stranded` in `StationFile`).
- `Session._release` of the simulator does not release the station when the close of its
  program raises, so that after a failure the session may own it until it is closed, and
  beyond (`CloseRaises` in `SimulatorSession`).
- A capture of the leader may be reported completed although the mailbox latched a
  fault after its last view (`LeaderSource`).
- A colour picture bears no digest: another packet that decodes can stand in its
  place in a damaged archive (`EpisodeArchive`).
- In calibration/replay.py:126-128 an error of the controller's construction, or an
  interrupt, between opening the arm and registering its close leaves it connected until
  the process ends, and so does a close that raises; the lease goes before (`missed` in
  `StationLease`).
- In shadow.py an interrupt between the return of `poll` and the `append` leaves a
  committed episode out of the report (`slipped` in `ShadowBatch`).

## 7. What is not modelled

| Part | Reason |
|---|---|
| Numerics: `leader/mapping.py`, `control/kinematics.py`, `control/conditioning.py`, `followers/physics.py`, `calibration/geometry.py`, `calibration/board.py` | floating-point computation; their effect on control flow (an error is raised) is in `MotionOwner` and `LeaderSource` |
| Register-level traffic of the leader, calibration of its mapping | one process, no state shared with a running session; `LeaderMaintenance` has what outlives the process |
| Preflight, authorization, configuration and field validation | checks before any motion; one predicate or one error where a model meets them |
| MCAP framing, compression, image codecs | library calls; `EpisodeArchive` has what they promise |
| Start-up of cameras and devices, discovery, warm-up, timing statistics | no state that later behaviour reads, except failure to start |
| Live leader view | one value under one lock, replaced as a whole |
| Physical engine of the local follower (`followers/physics.py`) and its watchdog | numerical simulation; the kinematic engine has the same interface |
| Simulation of the leader's motors (`simulation/leader.py`) | stands for hardware |
| Command line, scripts, viewer | argument handling and read-only output |
| `workers.py` | bounded escalation of join, terminate, kill; the models have its outcome (the child is dead) |

Abstractions that a reader should know of: whether the standstill that confirms a
rejection rests on fresh receipts (`Rejection.observe`) is a choice of `CollectionSession`;
a camera's silence is one event, so the models do not tell a silent camera from a lagging
one; a decoder hands back one picture per packet, without delay; a route of `MotionOwner` has one
waypoint; the two supervision limits of the recorder are one event, so the models
do not say *how late* an orphaned episode is cancelled; the motion in
`CollectionSession` is a state machine and not `MotionOwner`, and the child in
`CollectionSession` is the protocol part of `RecorderCapture`; the parts of
`control_side` and `capture_safety` share no state, so an effect of one on another
is seen only through the interface each of them assumes.

## 8. Plan

Proofs still to come: `LogTruthful` and `ArchiveTruthful`, with the validator's pass as a
run whose steps are counted, as `Decided` is in the matcher.

Compositions worth stating: `CollectionSession` with an abstract motion that
`MotionOwner` implements; `RecorderCapture` with `EpisodeCommit` in place of its
writer's verdict; `ControlLog` feeding `EpisodeArchive`.

Models: longer routes in `MotionOwner`, the physical engine's watchdog, and the
start-up of the recorder process.
