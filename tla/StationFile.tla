---------------------------- MODULE StationFile ----------------------------
(***************************************************************************)
(* station.py, filesystem.py, calibration/results.py, pipeline.py and      *)
(* activation.py: the station file that every process of the system reads, *)
(* replaced under a lock through a temporary file and a backup, and the    *)
(* bundles of calibration results that are published and then activated    *)
(* into it.  Any call may fail, also one that undoes what another did, a   *)
(* process may be killed between two of its steps, and the power may go:   *)
(* a directory then holds any prefix of its changes since it was flushed,  *)
(* and a file that was not flushed may be as it was before.                *)
(*                                                                         *)
(* A station document is the declared setup, a mount for each camera role, *)
(* and the mount each active calibration was made for.  Files a killed     *)
(* process leaves under names of its own are of no consequence and omitted.*)
(***************************************************************************)
EXTENDS Naturals, Sequences, SequencesExt

CONSTANTS
    None,
    Roles, Mounts,
    Writers,       \* processes that change the station file
    Solvers,       \* processes that solve into one and the same bundle name
    MaxFaults,     \* bound: calls that fail
    MaxDeaths      \* bound: processes killed, power losses

VARIABLES
    path,      \* the station file as a reader finds it
    disk,      \* what it is on disk: the flushed one, then what followed
    lock,      \* the holder of the lock file
    writer,    \* per writer: where it is, its operation, document, backup
    solver,    \* per solver: where it is
    bundle,    \* the solvers whose trees are the partial and the published
    shelf,     \* that on disk: what was flushed last, then what followed
    tree,      \* per solver: the files of its tree, and the flushed ones
    faults, deaths,
    accepted,  \* history: the document the reported outcomes add up to
    unsettled, \* history: documents taken back, or replaced by a writer that
               \* was killed or could not take its own back, since the last flush
    mixed      \* history: the power went while a solver wrote into the tree of
               \* another that was renamed back, and that renaming was lost

bundleVars == <<solver, bundle, shelf, tree, mixed>>
stationVars == <<path, disk, lock, writer, accepted, unsettled>>
vars == <<stationVars, bundleVars, faults, deaths>>

Documents == [setup : [Roles -> Mounts] \cup {None}, cameras : [Roles -> Mounts \cup {None}]]
Example == [setup |-> None, cameras |-> [r \in Roles |-> None]]
Idle == [at |-> "idle", change |-> None, document |-> None, backup |-> None]
Files == [input : Solvers \cup {None}, result : Solvers \cup {None}]
NoFiles == [input |-> None, result |-> None]
NoBundle == [partial |-> None, published |-> None]

Init ==
    /\ path = None /\ disk = <<None>> /\ lock = None
    /\ writer = [w \in Writers |-> Idle]
    /\ solver = [s \in Solvers |-> "idle"]
    /\ bundle = NoBundle /\ shelf = <<NoBundle>> /\ mixed = FALSE
    /\ tree = [s \in Solvers |-> [files |-> NoFiles, flushed |-> NoFiles]]
    /\ faults = 0 /\ deaths = 0
    /\ accepted = None /\ unsettled = {}

-----------------------------------------------------------------------------
(* Documents: station.validate with manifest.active, and the changes.       *)

Valid(d) == \A r \in Roles : d.cameras[r] # None => d.setup # None /\ d.cameras[r] = d.setup[r]

\* results.declare keeps the calibrations whose mount stays.
Declared(d, setup) ==
    [setup |-> setup,
     cameras |-> [r \in Roles |-> IF d.cameras[r] = setup[r] THEN d.cameras[r] ELSE None]]

Activated(d, role, mount) == [d EXCEPT !.cameras[role] = mount]

Changed(d, change) ==
    CASE change.kind = "create" -> Example
      [] change.kind = "declare" -> Declared(d, change.setup)
      [] change.kind = "activate" -> Activated(d, change.role, change.mount)

-----------------------------------------------------------------------------
(* The station file.                                                        *)

At(w, place) == writer[w].at = place
Goes(w, place) == writer' = [writer EXCEPT ![w].at = place]
Finds(content) == path' = content /\ disk' = Append(disk, content)
NoFault == UNCHANGED <<faults, deaths>>

Whole(files) == files.result # None /\ files.result = files.input

\* activate verifies a published bundle before it asks for the lock.
Verifiable == bundle.published # None /\ Whole(tree[bundle.published].files)

LockFree == lock = None

Call(w) ==
    /\ At(w, "idle")
    /\ \E change \in [kind : {"create"}] \cup [kind : {"declare"}, setup : [Roles -> Mounts]]
                        \cup [kind : {"activate"}, role : Roles, mount : Mounts] :
         /\ change.kind = "activate" => Verifiable
         /\ writer' = [writer EXCEPT ![w] = [Idle EXCEPT !.at = "lock", !.change = change]]
    /\ UNCHANGED <<path, disk, lock, accepted, unsettled, bundleVars>> /\ NoFault

Sound(d) == Valid(d)

\* The lock is taken, the file loaded, changed and validated.
Enter(w) ==
    /\ At(w, "lock") /\ LockFree
    /\ LET change == writer[w].change
           missing == path = None /\ change.kind # "create"
       IN  IF missing \/ ~Sound(Changed(path, change))
           THEN writer' = [writer EXCEPT ![w] = Idle] /\ UNCHANGED lock
           ELSE /\ lock' = w
                /\ writer' = [writer EXCEPT ![w].at = "stored",
                                  ![w].document = Changed(path, change)]
    /\ UNCHANGED <<path, disk, accepted, unsettled, bundleVars>> /\ NoFault

Replaces(w) == writer[w].change.kind # "create"

\* A hard link keeps the previous file under a name of its own.
Backup(w) ==
    /\ At(w, "stored")
    /\ writer' = [writer EXCEPT ![w].at = "kept",
                      ![w].backup = IF Replaces(w) THEN path ELSE None]
    /\ UNCHANGED <<path, disk, lock, accepted, unsettled, bundleVars>> /\ NoFault

\* os.replace, or for a first file os.link, which refuses an existing one.
Publish(w) ==
    /\ At(w, "kept")
    /\ IF Replaces(w) \/ path = None
       THEN Finds(writer[w].document) /\ Goes(w, "published")
       ELSE Goes(w, "refused") /\ UNCHANGED <<path, disk>>
    /\ UNCHANGED <<lock, accepted, unsettled, bundleVars>> /\ NoFault

Flush(w) ==
    /\ At(w, "published")
    /\ disk' = <<path>> /\ unsettled' = {}
    /\ Goes(w, "flushed")
    /\ UNCHANGED <<path, lock, accepted, bundleVars>> /\ NoFault

Restored(w) == writer[w].backup

\* Any call of the write may fail; a file already published is taken back,
\* which may fail as well: the new document stays then.
WriteFails(w) ==
    /\ writer[w].at \in {"stored", "kept", "published", "flushed"} /\ faults < MaxFaults
    /\ faults' = faults + 1 /\ UNCHANGED deaths
    /\ \/ /\ writer[w].at \in {"stored", "kept"}
          /\ Goes(w, "refused") /\ UNCHANGED <<path, disk, unsettled>>
       \/ /\ writer[w].at \in {"published", "flushed"}
          /\ Goes(w, "refused") /\ Finds(Restored(w)) /\ unsettled' = unsettled \cup {path}
       \/ /\ writer[w].at \in {"published", "flushed"}
          /\ Goes(w, "stranded") /\ UNCHANGED <<path, disk, unsettled>>
    /\ UNCHANGED <<lock, accepted, bundleVars>>

\* The temporary names go, the lock is released and the caller has its
\* answer: an error too if a name cannot be removed, whatever was flushed.
Leave(w) ==
    /\ writer[w].at \in {"flushed", "refused", "stranded"}
    /\ \/ NoFault
       \/ faults < MaxFaults /\ faults' = faults + 1 /\ UNCHANGED deaths
    /\ lock' = None
    /\ accepted' = IF At(w, "refused") THEN accepted ELSE writer[w].document
    /\ unsettled' = IF At(w, "stranded") THEN unsettled \cup {accepted} ELSE unsettled
    /\ writer' = [writer EXCEPT ![w] = Idle]
    /\ UNCHANGED <<path, disk, bundleVars>>

\* The system releases the lock of a killed process.
KillWriter(w) ==
    /\ ~At(w, "idle") /\ deaths < MaxDeaths
    /\ deaths' = deaths + 1 /\ UNCHANGED faults
    /\ writer' = [writer EXCEPT ![w] = Idle]
    /\ lock' = IF lock = w THEN None ELSE lock
    /\ accepted' = IF lock = w THEN path ELSE accepted
    /\ unsettled' = unsettled \cup ({accepted} \ {accepted'})
    /\ UNCHANGED <<path, disk, bundleVars>>

-----------------------------------------------------------------------------
(* A bundle: results.solve and pipeline.solve with filesystem.publish.      *)

Solves(s, from, to) == solver[s] = from /\ solver' = [solver EXCEPT ![s] = to]
Fails(s, from) == Solves(s, from, "failed")
StationSame == UNCHANGED <<stationVars, mixed>>
Holds(entries) == bundle' = entries /\ shelf' = Append(shelf, entries)
ShelfSame == UNCHANGED <<bundle, shelf>>

\* The files of the partial directory, whoever made it.
Partial == tree[bundle.partial].files

\* The input is evaluated; a published bundle refuses the name.
Evaluate(s) ==
    /\ bundle.published = None
    /\ Solves(s, "idle", "evaluated")
    /\ ShelfSame /\ UNCHANGED tree /\ StationSame /\ NoFault

\* An existing partial directory, of whomever, refuses the name.
Reserve(s) ==
    /\ IF bundle.partial = None
       THEN Solves(s, "evaluated", "reserved") /\ Holds([bundle EXCEPT !.partial = s])
       ELSE Fails(s, "evaluated") /\ ShelfSame
    /\ UNCHANGED tree /\ StationSame /\ NoFault

\* The evidence is copied and evaluated once more.
CopyEvidence(s) ==
    /\ Solves(s, "reserved", "copied") /\ bundle.partial # None
    /\ tree' = [tree EXCEPT ![bundle.partial].files = [Partial EXCEPT !.input = s]]
    /\ ShelfSame /\ StationSame /\ NoFault

\* The result is that of the copied evidence, which must be the solver's own.
WriteResult(s) ==
    /\ solver[s] = "copied" /\ bundle.partial # None
    /\ IF Partial.input = s
       THEN /\ Solves(s, "copied", "written")
            /\ tree' = [tree EXCEPT ![bundle.partial].files = [Partial EXCEPT !.result = s]]
       ELSE Fails(s, "copied") /\ UNCHANGED tree
    /\ ShelfSame /\ StationSame /\ NoFault

\* Mutant of Flushed: the files are left to the system to write.
FlushedLater(t) == t.flushed

Flushed(t) == t.files

\* publish flushes every file and directory of the tree before it renames it.
FlushTree(s) ==
    /\ Solves(s, "written", "flushed") /\ bundle.partial # None
    /\ tree' = [tree EXCEPT ![bundle.partial].flushed = Flushed(tree[bundle.partial])]
    /\ ShelfSame /\ StationSame /\ NoFault

\* An existing result is never replaced.
Rename(s) ==
    /\ solver[s] = "flushed" /\ bundle.partial # None
    /\ IF bundle.published = None
       THEN /\ Solves(s, "flushed", "renamed")
            /\ Holds([partial |-> None, published |-> bundle.partial])
       ELSE Fails(s, "flushed") /\ ShelfSame
    /\ UNCHANGED tree /\ StationSame /\ NoFault

\* The parent is flushed, and with it all that was renamed in it.
Solved(s) ==
    /\ Solves(s, "renamed", "done")
    /\ shelf' = <<bundle>>
    /\ UNCHANGED <<bundle, tree>> /\ StationSame /\ NoFault

\* The parent cannot be flushed: the result is renamed back, unless another
\* solver has files in a new partial directory (an empty one is replaced) or
\* this fails as well.
RenameBack(s) ==
    /\ faults < MaxFaults /\ faults' = faults + 1 /\ UNCHANGED deaths
    /\ Fails(s, "renamed")
    /\ \/ /\ bundle.partial # None => Partial = NoFiles
          /\ Holds([partial |-> bundle.published, published |-> None])
       \/ ShelfSame
    /\ UNCHANGED tree /\ StationSame

\* A killed solver leaves its partial directory, as one does whose call
\* fails, and the name is taken.
KillSolver(s) ==
    /\ solver[s] \notin {"idle", "done", "failed"} /\ deaths < MaxDeaths
    /\ deaths' = deaths + 1 /\ UNCHANGED faults
    /\ solver' = [solver EXCEPT ![s] = "failed"]
    /\ ShelfSame /\ UNCHANGED tree /\ StationSame

-----------------------------------------------------------------------------
(* Every process is gone, and the disk holds what it has.                   *)

StationLost ==
    /\ \E i \in DOMAIN disk : path' = disk[i] /\ disk' = <<disk[i]>> /\ accepted' = disk[i]
    /\ lock' = None /\ unsettled' = {}
    /\ writer' = [w \in Writers |-> Idle]

\* Each file of a tree is as it was last written, or last flushed.
Remains(t) == [input : {t.files.input, t.flushed.input}, result : {t.files.result, t.flushed.result}]

\* The renaming back is lost of a tree that has been written into since.
Reappears(entries) ==
    /\ bundle.partial # None /\ entries.published = bundle.partial
    /\ Partial # tree[bundle.partial].flushed

BundleLost ==
    /\ \E i \in DOMAIN shelf :
         /\ bundle' = shelf[i] /\ shelf' = <<shelf[i]>>
         /\ mixed' = (mixed \/ Reappears(shelf[i]))
    /\ \E found \in [Solvers -> Files] :
         /\ \A s \in Solvers : found[s] \in Remains(tree[s])
         /\ tree' = [s \in Solvers |-> [files |-> found[s], flushed |-> found[s]]]
    /\ solver' = [s \in Solvers |-> IF solver[s] \in {"idle", "done"} THEN solver[s] ELSE "failed"]

PowerLoss ==
    /\ deaths < MaxDeaths /\ deaths' = deaths + 1 /\ UNCHANGED faults
    /\ StationLost /\ BundleLost

WriterStep(w) ==
    \/ Call(w) \/ Enter(w) \/ Backup(w) \/ Publish(w) \/ Flush(w)
    \/ WriteFails(w) \/ Leave(w) \/ KillWriter(w)
SolverStep(s) ==
    \/ Evaluate(s) \/ Reserve(s) \/ CopyEvidence(s) \/ WriteResult(s)
    \/ FlushTree(s) \/ Rename(s) \/ Solved(s) \/ RenameBack(s) \/ KillSolver(s)

Next ==
    \/ \E w \in Writers : WriterStep(w)
    \/ \E s \in Solvers : SolverStep(s)
    \/ PowerLoss

Spec == Init /\ [][Next]_vars

-----------------------------------------------------------------------------
(* Properties.                                                              *)

TypeOK ==
    /\ path \in Documents \cup {None} /\ accepted \in Documents \cup {None}
    /\ lock \in Writers \cup {None} /\ faults <= MaxFaults /\ deaths <= MaxDeaths
    /\ bundle \in [partial : Solvers \cup {None}, published : Solvers \cup {None}]
    /\ tree \in [Solvers -> [files : Files, flushed : Files]]

(* At any moment and after any crash the station file is a valid document,  *)
(* and the one the updates that took effect add up to: no update is lost to *)
(* another one, one that took effect survives, and a file that was there    *)
(* never goes missing.  An update takes effect if it was flushed and not    *)
(* taken back, also if its caller has an error because a temporary name     *)
(* could not be removed; a failed one is undone, unless this fails too: its *)
(* document then stays, as that of a killed writer does.  Only the change   *)
(* under way may be found in its place, or, after a power loss, one that    *)
(* was taken back, or that was replaced by a killed writer or by one that   *)
(* could not take its own back, and no flush has covered since: _write      *)
(* does not flush its rollback.                                             *)
StationKept ==
    /\ path # None => Valid(path)
    /\ lock = None => path = accepted
    /\ \A i \in DOMAIN disk :
         disk[i] \in {accepted} \cup unsettled \cup {writer[w].document : w \in {v \in Writers : lock = v}}
    /\ disk[Len(disk)] = path

(* A published bundle holds one solver's evidence with the result of that   *)
(* evidence, also when it is found after a power loss that came before, in  *)
(* or after the flush of the directory it was renamed in; and a solver that *)
(* has reported success finds its own bundle there ever after, although     *)
(* solvers share the name, publishing may be taken back, and a directory    *)
(* appears under a name that was just free.  The exception is mixed: the    *)
(* renaming back is lost of a tree that another solver was writing into,    *)
(* having lost its own empty directory to it.                               *)
BundleWhole ==
    /\ bundle.published # None /\ ~mixed => Whole(tree[bundle.published].files)
    /\ \A s \in Solvers : solver[s] = "done" =>
         bundle.published # None /\ tree[bundle.published].files.result = s
=============================================================================
