------------------------ MODULE EpisodeWriter_proofs ------------------------
(***************************************************************************)
(* Proofs about EpisodeWriter, for any number of processes and entries,    *)
(* any capacities and any batch sizes: its types, then who may write which *)
(* folder, then what a published episode contains and that each writer     *)
(* implements the abstract commit of EpisodeCommit.                        *)
(***************************************************************************)
EXTENDS EpisodeWriter, SequenceTheorems, TLAPS

-----------------------------------------------------------------------------
(* Type correctness.                                                        *)

\* What the counters of _submit need to know of an entry.
LEMMA EntryType ==
    ASSUME NEW e \in Entry
    PROVE  /\ e.counter \in Counters
           /\ e.count \in Nat \ {0}
           /\ Limit(e.counter) \in Nat
<1>1. CASE e \in [counter : {"item"}, count : {1}]
  <2>1. e.counter = "item" /\ e.count = 1
    BY <1>1
  <2>2. QED  BY <2>1, CapacityAssumption DEF Counters, Limit
<1>2. CASE e \in [counter : {"feedback"}, count : Batches]
  <2>1. e.counter = "feedback" /\ e.count \in Batches
    BY <1>2
  <2>2. QED  BY <2>1, CapacityAssumption DEF Counters, Limit
<1>3. QED  BY <1>1, <1>2 DEF Entry

LEMMA TypeInit == Init => TypeOK
  BY CapacityAssumption
     DEF Init, TypeOK, TypeFiles, TypeCalls, TypeState, TypeQueue, TypeWork,
         Counters, Limit

\* The three calls and the constructor leave the thread's own variables alone.
LEMMA TypeOwner ==
    ASSUME TypeOK, NEW w \in Writers,
           \/ Construct(w) \/ Kill(w) \/ Abort(w) \/ FinishStart(w)
           \/ FinishPutTimesOut(w) \/ FinishReturn(w) \/ Expire(w)
    PROVE  TypeOK'
<1>1. CASE Construct(w)
  <2> USE <1>1 DEF Construct, Reserve, CheckDestination, MakePartial, StartThread,
          StartThreadFails, TypeOK, fileVars, callVars, workVars
  <2>1. TypeFiles'  BY DEF TypeFiles, PartialAbsent
  <2>2. TypeCalls'  BY DEF TypeCalls
  <2>3. TypeState' /\ TypeQueue'  BY DEF TypeState, TypeQueue
  <2>4. TypeWork'  BY DEF TypeWork
  <2>5. QED  BY <2>1, <2>2, <2>3, <2>4
<1>2. ASSUME \/ Kill(w) \/ Abort(w) \/ FinishStart(w)
             \/ FinishPutTimesOut(w) \/ FinishReturn(w) \/ Expire(w)
      PROVE  TypeOK'
  <2> USE <1>2 DEF Kill, Abort, FinishStart, FinishPutTimesOut, FinishReturn, Expire,
          TypeOK, fileVars, callVars, workVars
  <2>1. TypeFiles' /\ TypeQueue'  BY DEF TypeFiles, TypeQueue
  <2>2. TypeCalls'  BY DEF TypeCalls
  <2>3. TypeState'  BY DEF TypeState
  <2>4. TypeWork'  BY DEF TypeWork
  <2>5. QED  BY <2>1, <2>2, <2>3, <2>4
<1>3. QED  BY <1>1, <1>2

\* An entry or the sentinel enters the queue.
LEMMA TypeEnqueue ==
    ASSUME TypeOK, NEW w \in Writers,
           FinishPut(w) \/ \E e \in Entry : Submit(w, e) \/ SubmitOverflows(w, e)
    PROVE  TypeOK'
<1>1. CASE FinishPut(w)
  <2> USE <1>1 DEF FinishPut, TypeOK, fileVars, workVars
  <2>1. TypeQueue'  BY DEF TypeQueue
  <2>2. QED  BY <2>1 DEF TypeFiles, TypeCalls, TypeState, TypeWork
<1>2. ASSUME NEW e \in Entry, Submit(w, e)  PROVE TypeOK'
  <2> USE <1>2 DEF Submit, TypeOK, fileVars, callVars, workVars
  <2>1. TypeFiles' /\ TypeCalls' /\ TypeState' /\ TypeWork'
    BY DEF TypeFiles, TypeCalls, TypeState, TypeWork
  <2>2. queue' \in [Writers -> Seq(Entry \cup {Sentinel})]
    BY DEF TypeQueue
  <2>3. accepted' \in [Writers -> Seq(Entry)]
    BY DEF TypeQueue
  <2>4. queued' \in [Writers -> [Counters -> Int]]
    BY EntryType DEF TypeQueue
  <2>5. \A v \in Writers, c \in Counters : queued'[v][c] <= Limit(c)
    BY EntryType DEF TypeQueue, Fits
  <2>6. QED  BY <2>1, <2>2, <2>3, <2>4, <2>5 DEF TypeQueue
<1>3. ASSUME NEW e \in Entry, SubmitOverflows(w, e)  PROVE TypeOK'
  <2> USE <1>3 DEF SubmitOverflows, TypeOK, fileVars, callVars, workVars
  <2>1. TypeState'  BY DEF TypeState
  <2>2. QED  BY <2>1 DEF TypeFiles, TypeCalls, TypeQueue, TypeWork
<1>4. QED  BY <1>1, <1>2, <1>3

LEMMA TypeThread ==
    ASSUME TypeOK, NEW w \in Writers, Thread(w)
    PROVE  TypeOK'
<1> USE DEF Goto, At, TypeOK, fileVars, callVars
<1>1. CASE Raise(w) \/ CheckActive(w) \/ GetEmpty(w) \/ CommitRefused(w) \/ VerifyStream(w)
  <2> USE <1>1 DEF Raise, CheckActive, GetEmpty, CommitRefused, VerifyStream
  <2>1. TypeWork'  BY DEF TypeWork, Consuming, Sealing, Ending
  <2>2. QED  BY <2>1 DEF TypeFiles, TypeCalls, TypeState, TypeQueue
<1>2. CASE OpenStream(w) \/ FinishStream(w) \/ WriteMetadata(w) \/ SyncPartial(w)
  <2> USE <1>2 DEF OpenStream, FinishStream, WriteMetadata, SyncPartial
  <2>1. TypeWork'  BY DEF TypeWork, Consuming, Sealing, Ending
  <2>2. TypeFiles'  BY DEF TypeFiles
  <2>3. QED  BY <2>1, <2>2 DEF TypeCalls, TypeState, TypeQueue
<1>3. CASE GetEntry(w)
  <2> USE <1>3 DEF GetEntry
  <2>1. queue[w] \in Seq(Entry \cup {Sentinel}) /\ queue[w] # <<>>
    BY DEF TypeQueue
  <2>2. /\ Head(queue[w]) \in Entry \cup {Sentinel}
        /\ Tail(queue[w]) \in Seq(Entry \cup {Sentinel})
    BY <2>1
  <2>3. TypeQueue'  BY <2>2 DEF TypeQueue
  <2>4. CASE Head(queue[w]) = Sentinel
    <3>1. pc' = [pc EXCEPT ![w] = "finish"] /\ UNCHANGED <<held, written, stranded>>
      BY <2>4
    <3>2. TypeWork'  BY <3>1 DEF TypeWork, Consuming, Sealing, Ending
    <3>3. QED  BY <2>3, <3>2 DEF TypeFiles, TypeCalls, TypeState
  <2>5. CASE Head(queue[w]) # Sentinel
    <3>1. /\ pc' = [pc EXCEPT ![w] = "count"]
          /\ held' = [held EXCEPT ![w] = <<Head(queue[w])>>]
          /\ UNCHANGED <<written, stranded>>
      BY <2>5
    <3>2. Head(queue[w]) \in Entry
      BY <2>2, <2>5
    <3>3. held' \in [Writers -> {<<>>} \cup {<<e>> : e \in Entry}] /\ held'[w] # <<>>
      BY <3>1, <3>2 DEF TypeWork
    <3>4. \A v \in Writers : v # w => pc'[v] = pc[v] /\ held'[v] = held[v]
      BY <3>1 DEF TypeWork
    <3>5. \A v \in Writers : pc'[v] \in {"count", "write"} => held'[v] # <<>>
      BY <3>3, <3>4 DEF TypeWork
    <3>6. pc' \in [Writers -> {"none", "open"} \cup Consuming \cup Sealing \cup Ending]
      BY <3>1 DEF TypeWork, Consuming
    <3>7. TypeWork'  BY <3>1, <3>3, <3>5, <3>6 DEF TypeWork
    <3>8. QED  BY <2>3, <3>7 DEF TypeFiles, TypeCalls, TypeState
  <2>6. QED  BY <2>4, <2>5
<1>4. CASE CountEntry(w)
  <2> USE <1>4 DEF CountEntry
  <2>1. PICK e \in Entry : held[w] = <<e>>
    BY DEF TypeWork
  <2>2. Head(held[w]) = e
    BY <2>1
  <2>3. queued' = [queued EXCEPT ![w][e.counter] = @ - e.count]
    BY <2>2 DEF Release
  <2>4. TypeQueue'
    <3>1. queued' \in [Writers -> [Counters -> Int]]
      BY <2>3, EntryType DEF TypeQueue
    <3>2. \A v \in Writers, c \in Counters :
            Limit(c) \in Int /\ queued'[v][c] <= queued[v][c]
      BY <2>3, EntryType, CapacityAssumption DEF TypeQueue, Limit
    <3>3. \A v \in Writers, c \in Counters : queued'[v][c] <= Limit(c)
      BY <3>1, <3>2 DEF TypeQueue
    <3>4. QED  BY <3>1, <3>3 DEF TypeQueue
  <2>5. TypeWork'  BY DEF TypeWork, Consuming, Sealing, Ending
  <2>6. QED  BY <2>4, <2>5 DEF TypeFiles, TypeCalls, TypeState
<1>5. CASE WriteEntry(w)
  <2> USE <1>5 DEF WriteEntry
  <2>1. PICK e \in Entry : held[w] = <<e>>
    BY DEF TypeWork
  <2>2. written[w] \o held[w] \in Seq(Entry)
    BY <2>1 DEF TypeWork
  <2>3. TypeWork'  BY <2>2 DEF TypeWork, Consuming, Sealing, Ending
  <2>4. QED  BY <2>3 DEF TypeFiles, TypeCalls, TypeState, TypeQueue
<1>6. CASE CommitRename(w) \/ CommitUndone(w) \/ ReleaseLock(w)
  <2> USE <1>6 DEF CommitRename, CommitUndone, ReleaseLock
  <2>1. TypeWork'  BY DEF TypeWork, Consuming, Sealing, Ending
  <2>2. TypeFiles'  BY DEF TypeFiles
  <2>3. QED  BY <2>1, <2>2 DEF TypeCalls, TypeState, TypeQueue
<1>7. CASE CommitDurable(w) \/ RecordFailure(w) \/ DrainQueue(w)
  <2> USE <1>7 DEF CommitDurable, RecordFailure, DrainQueue
  <2>1. TypeWork'  BY DEF TypeWork, Consuming, Sealing, Ending
  <2>2. state' \in {state, [state EXCEPT ![w] = "committed"],
                   [state EXCEPT ![w] = "failed"]}
    OBVIOUS
  <2>3. TypeState'  BY <2>2 DEF TypeState
  <2>4. /\ queue' \in {queue, [queue EXCEPT ![w] = <<>>]}
        /\ UNCHANGED <<queued, accepted>>
    OBVIOUS
  <2>5. queue' \in [Writers -> Seq(Entry \cup {Sentinel})]
    <3>1. queue \in [Writers -> Seq(Entry \cup {Sentinel})]
      BY DEF TypeQueue
    <3>2. CASE queue' = queue
      BY <3>1, <3>2
    <3>3. CASE queue' = [queue EXCEPT ![w] = <<>>]
      <4> HIDE <1>7 DEF CommitDurable, RecordFailure, DrainQueue
      <4>1. QED  BY <3>1, <3>3
    <3>4. QED  BY <2>4, <3>2, <3>3
  <2>6. TypeQueue'  BY <2>4, <2>5 DEF TypeQueue
  <2>7. QED  BY <2>1, <2>3, <2>6 DEF TypeFiles, TypeCalls
<1>8. QED
  BY <1>1, <1>2, <1>3, <1>4, <1>5, <1>6, <1>7 DEF Thread, Consume, Seal, Conclude

\* Every variable keeps its type: in particular neither counter of the queue
\* exceeds its capacity, whatever the batch sizes.
THEOREM TypeCorrect == Spec => []TypeOK
<1>1. TypeOK /\ [Next]_vars => TypeOK'
  <2> SUFFICES ASSUME TypeOK, [Next]_vars  PROVE TypeOK'
    OBVIOUS
  <2>1. CASE UNCHANGED vars
    BY <2>1 DEF vars, fileVars, callVars, workVars, TypeOK, TypeFiles, TypeCalls,
       TypeState, TypeQueue, TypeWork
  <2>2. CASE Next
    BY <2>2, TypeOwner, TypeEnqueue, TypeThread DEF Next, Call, Finish
  <2>3. QED  BY <2>1, <2>2
<1>2. QED  BY TypeInit, <1>1, PTL DEF Spec

-----------------------------------------------------------------------------
(* No publication after a revocation.                                       *)

NotStarted == {"idle", "reserved", "checked", "made", "refused"}

\* What _lock and the order of _run and finish maintain for one writer.
VerdictOrder(w) ==
    /\ owner[w] \in NotStarted =>
          pc[w] = "none" /\ finisher[w] = "idle" /\ state[w] = "open"
    /\ finisher[w] = "idle" => state[w] \notin {"closing", "committed"}
    /\ finisher[w] = "raised" => state[w] \in {"aborted", "failed"}
    /\ pc[w] = "renamed" => state[w] = "closing"
    /\ state[w] = "committed" => pc[w] \in {"drain", "unlink", "done"}

\* A writer whose episode is published is past its rename, and said so or
\* could not take it back.
Announced(w) ==
    dest = w => \/ pc[w] = "renamed"
                \/ pc[w] \in Ending /\ (state[w] = "committed" \/ stranded[w])

VerdictInv == TypeOK /\ \A w \in Writers : VerdictOrder(w) /\ Announced(w)

LEMMA VerdictInit == Init => \A w \in Writers : VerdictOrder(w) /\ Announced(w)
  BY NamesAssumption DEF Init, VerdictOrder, Announced, NotStarted

\* The constructor and the owner's calls: none of them runs during the rename.
LEMMA VerdictCalls ==
    ASSUME VerdictInv, NEW u \in Writers,
           Construct(u) \/ Kill(u) \/ Call(u) \/ FinishStart(u) \/ Finish(u) \/ Expire(u)
    PROVE  \A w \in Writers : VerdictOrder(w)' /\ Announced(w)'
<1> USE DEF VerdictInv, TypeOK, TypeFiles, TypeCalls, TypeState, TypeWork,
        fileVars, callVars, workVars, Running, Locked, Accepting
<1> SUFFICES ASSUME NEW w \in Writers
             PROVE  VerdictOrder(w)' /\ Announced(w)'
  OBVIOUS
<1>1. VerdictOrder(w) /\ Announced(w)
  OBVIOUS
<1>2. CASE Construct(u)
  BY <1>1, <1>2 DEF Construct, Reserve, CheckDestination, MakePartial, StartThread,
     StartThreadFails, VerdictOrder, Announced, NotStarted, Ending
<1>3. CASE Kill(u) \/ Expire(u)
  BY <1>1, <1>3 DEF Kill, Expire, VerdictOrder, Announced, NotStarted, Ending
<1>4. CASE Call(u)
  BY <1>1, <1>4 DEF Call, Submit, SubmitOverflows, Abort,
     VerdictOrder, Announced, NotStarted, Ending
<1>5. CASE FinishStart(u) \/ Finish(u)
  BY <1>1, <1>5 DEF FinishStart, Finish, FinishPut, FinishPutTimesOut, FinishReturn,
     VerdictOrder, Announced, NotStarted, Ending
<1>6. QED  BY <1>2, <1>3, <1>4, <1>5

\* The writer thread: only its rename publishes, and only a closing episode.
LEMMA VerdictThread ==
    ASSUME VerdictInv, NEW u \in Writers, Thread(u)
    PROVE  \A w \in Writers : VerdictOrder(w)' /\ Announced(w)'
<1> USE DEF VerdictInv, TypeOK, TypeFiles, TypeCalls, TypeState, TypeWork,
        fileVars, callVars, workVars, Running, At, Goto
<1> SUFFICES ASSUME NEW w \in Writers
             PROVE  VerdictOrder(w)' /\ Announced(w)'
  OBVIOUS
<1>1. VerdictOrder(w) /\ Announced(w) /\ VerdictOrder(u) /\ Announced(u)
  OBVIOUS
<1>2. CASE Raise(u) \/ Consume(u)
  BY <1>1, <1>2 DEF Raise, Consume, OpenStream, CheckActive, GetEmpty, GetEntry,
     CountEntry, WriteEntry, VerdictOrder, Announced, NotStarted, Ending
<1>3. CASE Seal(u)
  BY <1>1, <1>3 DEF Seal, FinishStream, VerifyStream, WriteMetadata, SyncPartial,
     VerdictOrder, Announced, NotStarted, Ending
<1>4. CASE CommitRename(u)
  BY <1>1, <1>4, NamesAssumption DEF CommitRename, MayCommit,
     VerdictOrder, Announced, NotStarted, Ending
<1>5. CASE CommitRefused(u) \/ CommitDurable(u)
  BY <1>1, <1>5 DEF CommitRefused, CommitDurable,
     VerdictOrder, Announced, NotStarted, Ending
<1>6. CASE CommitUndone(u)
  BY <1>1, <1>6, NamesAssumption DEF CommitUndone,
     VerdictOrder, Announced, NotStarted, Ending
<1>7. CASE RecordFailure(u) \/ DrainQueue(u) \/ ReleaseLock(u)
  BY <1>1, <1>7 DEF RecordFailure, DrainQueue, ReleaseLock,
     VerdictOrder, Announced, NotStarted, Ending
<1>8. QED  BY <1>2, <1>3, <1>4, <1>5, <1>6, <1>7 DEF Thread, Conclude

LEMMA VerdictInductive == Spec => []VerdictInv
<1>1. Init => VerdictInv
  BY TypeInit, VerdictInit DEF VerdictInv
<1>2. VerdictInv /\ TypeOK' /\ [Next]_vars => VerdictInv'
  <2> SUFFICES ASSUME VerdictInv, TypeOK', [Next]_vars
               PROVE  \A w \in Writers : VerdictOrder(w)' /\ Announced(w)'
    BY DEF VerdictInv
  <2>1. CASE UNCHANGED vars
    BY <2>1 DEF vars, fileVars, callVars, workVars, VerdictInv, VerdictOrder, Announced
  <2>2. CASE Next
    BY <2>2, VerdictCalls, VerdictThread DEF Next
  <2>3. QED  BY <2>1, <2>2
<1>3. QED  BY <1>1, <1>2, TypeCorrect, PTL DEF Spec

\* A writer that was aborted, failed, or whose finish raised has no published
\* episode, for any number of processes and entries: only a rollback that fails
\* after the rename leaves one.
THEOREM NoPublicationAfterRevocation == Spec => []RevokedUnpublished
<1>1. VerdictInv => RevokedUnpublished
  BY DEF VerdictInv, VerdictOrder, Announced, RevokedUnpublished
<1>2. QED  BY <1>1, VerdictInductive, PTL

-----------------------------------------------------------------------------
(* One process per episode name.                                            *)

\* The lock file, the partial directory and the name belong to one process.
Holds(w) ==
    \/ owner[w] \in {"reserved", "checked", "made"}
    \/ owner[w] = "running" /\ pc[w] # "done"

\* Once its constructor made the partial directory, for good.
Claims(w) == w \in obtained

Reservation(w) ==
    /\ owner[w] \in NotStarted => pc[w] = "none"
    /\ owner[w] = "running" => pc[w] # "none"
    /\ owner[w] = "made" \/ pc[w] # "none" => Claims(w)
    /\ Holds(w) => lockFile = w
    /\ Claims(w) => partial = w \/ dest = w
    /\ owner[w] = "checked" => dest = NoOne
    /\ pc[w] = "renamed" => dest = w

ClaimInv ==
    /\ TypeOK
    /\ \A w \in Writers : Reservation(w)
    /\ \A v, w \in Writers : Claims(v) /\ Claims(w) => v = w

LEMMA ClaimInit ==
    Init => /\ \A w \in Writers : Reservation(w)
            /\ \A v, w \in Writers : Claims(v) /\ Claims(w) => v = w
  BY NamesAssumption DEF Init, Reservation, Claims, Holds, NotStarted

\* The steps that touch neither the files nor who holds what.
LEMMA ClaimSteady ==
    ASSUME ClaimInv, NEW u \in Writers, UNCHANGED <<lockFile, partial, dest, obtained>>,
           \/ owner' = owner
           \/ owner' = [owner EXCEPT ![u] = "killed"],
           \/ pc' = pc
           \/ /\ pc[u] \notin {"none", "done"}
              /\ \E label \in Consuming \cup Sealing \cup Ending :
                    /\ pc' = [pc EXCEPT ![u] = label]
                    /\ label \notin {"renamed", "done"}
    PROVE  /\ \A w \in Writers : Reservation(w)'
           /\ \A v, w \in Writers : (Claims(v) /\ Claims(w))' => v = w
<1> USE DEF ClaimInv, TypeOK, TypeFiles, TypeCalls, TypeWork
<1>1. ASSUME NEW w \in Writers
      PROVE  /\ pc'[w] # "none" <=> pc[w] # "none"
             /\ pc'[w] = "done" <=> pc[w] = "done"
             /\ pc'[w] = "renamed" => pc[w] = "renamed"
             /\ owner'[w] \in {owner[w], "killed"}
  BY DEF Consuming, Sealing, Ending
<1>2. ASSUME NEW w \in Writers
      PROVE  (Holds(w)' => Holds(w)) /\ (Claims(w)' <=> Claims(w))
  BY <1>1 DEF Holds, Claims
<1>3. \A w \in Writers : Reservation(w)'
  BY <1>1, <1>2 DEF Reservation, NotStarted
<1>4. QED  BY <1>2, <1>3

\* A constructor that fails withdraws its own reservation and nobody else's.
LEMMA ClaimWithdraw ==
    ASSUME ClaimInv, NEW u \in Writers, owner[u] \in {"reserved", "checked", "made"},
           owner' = [owner EXCEPT ![u] = "refused"],
           lockFile' = NoOne, UNCHANGED <<partial, dest, obtained, pc>>
    PROVE  /\ \A w \in Writers : Reservation(w)'
           /\ \A v, w \in Writers : (Claims(v) /\ Claims(w))' => v = w
<1> USE DEF ClaimInv, TypeOK, TypeFiles, TypeCalls, TypeWork
<1>1. pc[u] = "none" /\ lockFile = u
  BY DEF Reservation, NotStarted, Holds
<1>2. \A w \in Writers : Holds(w) => w = u
  BY <1>1 DEF Reservation
<1>3. owner'[u] = "refused" /\ \A w \in Writers : w # u => owner'[w] = owner[w]
  OBVIOUS
<1>4. \A w \in Writers : Claims(w)' <=> Claims(w)
  BY <1>3 DEF Claims
<1>5. \A w \in Writers : ~Holds(w)'
  BY <1>1, <1>2, <1>3 DEF Holds
<1>6. ASSUME NEW w \in Writers  PROVE Reservation(w)'
  <2>1. CASE w = u
    BY <2>1, <1>1, <1>3, <1>5 DEF Reservation, NotStarted, Claims
  <2>2. CASE w # u
    BY <2>2, <1>3, <1>4, <1>5 DEF Reservation
  <2>3. QED  BY <2>1, <2>2
<1>7. QED  BY <1>4, <1>6

LEMMA ClaimConstruct ==
    ASSUME ClaimInv, NEW u \in Writers, Construct(u)
    PROVE  /\ \A w \in Writers : Reservation(w)'
           /\ \A v, w \in Writers : (Claims(v) /\ Claims(w))' => v = w
<1> USE NamesAssumption
    DEF ClaimInv, TypeOK, TypeFiles, TypeCalls, TypeWork, fileVars, workVars
<1>1. CASE Reserve(u)
  BY <1>1 DEF Reserve, Reservation, Holds, Claims, NotStarted
<1>2. CASE CheckDestination(u) /\ dest = NoOne
  <2>1. owner' = [owner EXCEPT ![u] = "checked"] /\ UNCHANGED <<lockFile, partial, dest, obtained, pc>>
    BY <1>2 DEF CheckDestination
  <2>2. owner[u] = "reserved"
    BY <1>2 DEF CheckDestination
  <2>3. QED  BY <1>2, <2>1, <2>2 DEF Reservation, Holds, Claims, NotStarted
<1>3. CASE MakePartial(u) /\ partial = NoOne
  <2>1. /\ owner[u] = "checked" /\ owner' = [owner EXCEPT ![u] = "made"]
        /\ partial' = u /\ obtained' = obtained \cup {u}
        /\ UNCHANGED <<lockFile, dest, pc>>
    BY <1>3 DEF MakePartial, PartialAbsent
  <2>2. lockFile = u /\ dest = NoOne /\ pc[u] = "none"
    BY <2>1 DEF Reservation, Holds, NotStarted
  <2>3. \A v \in Writers : ~Claims(v)
    BY <1>3, <2>2 DEF Reservation
  <2>4. \A v \in Writers : Claims(v)' => v = u
    BY <2>1, <2>3 DEF Claims
  <2>5. \A v \in Writers : Holds(v)' <=> Holds(v)
    BY <2>1 DEF Holds
  <2>6. Claims(u)' /\ \A v \in Writers : Claims(v) => Claims(v)'
    BY <2>1 DEF Claims
  <2>7. ASSUME NEW v \in Writers  PROVE Reservation(v)'
    BY <2>1, <2>2, <2>4, <2>5, <2>6 DEF Reservation, NotStarted
  <2>8. QED  BY <2>4, <2>7
<1>4. CASE StartThread(u)
  <2>1. /\ owner[u] = "made" /\ owner' = [owner EXCEPT ![u] = "running"]
        /\ pc' = [pc EXCEPT ![u] = "open"] /\ UNCHANGED <<lockFile, partial, dest, obtained>>
    BY <1>4 DEF StartThread
  <2>2. \A v \in Writers : (Claims(v)' <=> Claims(v)) /\ (Holds(v)' <=> Holds(v))
    BY <2>1 DEF Claims, Holds, Reservation
  <2>3. \A v \in Writers : Reservation(v)'
    BY <2>1, <2>2 DEF Reservation, NotStarted
  <2>4. QED  BY <2>2, <2>3
<1>5. CASE \/ CheckDestination(u) /\ dest # NoOne
           \/ MakePartial(u) /\ partial # NoOne
           \/ StartThreadFails(u)
  <2>1. /\ owner[u] \in {"reserved", "checked", "made"}
        /\ owner' = [owner EXCEPT ![u] = "refused"]
        /\ lockFile' = NoOne /\ UNCHANGED <<partial, dest, obtained, pc>>
    BY <1>5 DEF CheckDestination, MakePartial, PartialAbsent, StartThreadFails
  <2>2. QED  BY <2>1, ClaimWithdraw
<1>6. QED  BY <1>1, <1>2, <1>3, <1>4, <1>5 DEF Construct

\* The steps of the writer thread that move the directory or drop the lock.
LEMMA ClaimFiles ==
    ASSUME ClaimInv, NEW u \in Writers,
           CommitRename(u) \/ CommitUndone(u) \/ ReleaseLock(u)
    PROVE  /\ \A w \in Writers : Reservation(w)'
           /\ \A v, w \in Writers : (Claims(v) /\ Claims(w))' => v = w
<1> USE NamesAssumption
    DEF ClaimInv, TypeOK, TypeFiles, TypeCalls, TypeWork, Running, At, Goto,
        fileVars, callVars, workVars, Reservation, Holds, Claims, NotStarted
<1>1. CASE CommitRename(u)
  BY <1>1 DEF CommitRename, MayCommit
<1>2. CASE CommitUndone(u)
  BY <1>2 DEF CommitUndone
<1>3. CASE ReleaseLock(u)
  BY <1>3 DEF ReleaseLock
<1>4. QED  BY <1>1, <1>2, <1>3

LEMMA ClaimInductive == Spec => []ClaimInv
<1>1. Init => ClaimInv
  BY TypeInit, ClaimInit DEF ClaimInv
<1>2. ClaimInv /\ TypeOK' /\ [Next]_vars => ClaimInv'
  <2> SUFFICES ASSUME ClaimInv, TypeOK', [Next]_vars
               PROVE  /\ \A w \in Writers : Reservation(w)'
                      /\ \A v, w \in Writers : (Claims(v) /\ Claims(w))' => v = w
    BY DEF ClaimInv
  <2>1. CASE UNCHANGED vars
    BY <2>1 DEF vars, fileVars, callVars, workVars, ClaimInv, Reservation, Holds, Claims
  <2>2. ASSUME NEW u \in Writers, Kill(u) \/ Call(u) \/ FinishStart(u) \/ Finish(u) \/ Expire(u)
        PROVE  /\ UNCHANGED <<lockFile, partial, dest, obtained, pc>>
               /\ owner' = owner \/ owner' = [owner EXCEPT ![u] = "killed"]
    BY <2>2 DEF Kill, Call, Submit, SubmitOverflows, Abort, FinishStart, Finish, FinishPut,
       FinishPutTimesOut, FinishReturn, Expire, fileVars, callVars, workVars
  <2>3. ASSUME NEW u \in Writers, Raise(u) \/ Consume(u) \/ Seal(u)
        PROVE  /\ UNCHANGED <<lockFile, partial, dest, obtained, owner>>
               /\ pc[u] \notin {"none", "done"}
               /\ \E label \in Consuming \cup Sealing \cup Ending :
                     /\ pc' = [pc EXCEPT ![u] = label]
                     /\ label \notin {"renamed", "done"}
    BY <2>3 DEF Raise, Consume, OpenStream, CheckActive, GetEmpty, GetEntry, CountEntry,
       WriteEntry, Seal, FinishStream, VerifyStream, WriteMetadata, SyncPartial, At, Goto,
       fileVars, callVars, Consuming, Sealing, Ending
  <2>4. ASSUME NEW u \in Writers, CommitRefused(u) \/ CommitDurable(u)
                                  \/ RecordFailure(u) \/ DrainQueue(u)
        PROVE  /\ UNCHANGED <<lockFile, partial, dest, obtained, owner>>
               /\ pc[u] \notin {"none", "done"}
               /\ \E label \in Consuming \cup Sealing \cup Ending :
                     /\ pc' = [pc EXCEPT ![u] = label]
                     /\ label \notin {"renamed", "done"}
    BY <2>4 DEF CommitRefused, CommitDurable, RecordFailure, DrainQueue, At, Goto,
       fileVars, callVars, Consuming, Sealing, Ending
  <2>5. CASE Next
    <3>1. PICK u \in Writers : \/ Construct(u) \/ Kill(u) \/ Call(u)
                               \/ FinishStart(u) \/ Finish(u) \/ Expire(u) \/ Thread(u)
      BY <2>5 DEF Next
    <3>2. CASE Construct(u)
      BY <3>2, ClaimConstruct
    <3>3. CASE Kill(u) \/ Call(u) \/ FinishStart(u) \/ Finish(u) \/ Expire(u)
      BY <3>3, <2>2, ClaimSteady
    <3>4. CASE Raise(u) \/ Consume(u) \/ Seal(u)
      BY <3>4, <2>3, ClaimSteady
    <3>5. CASE Conclude(u)
      BY <3>5, <2>4, ClaimSteady, ClaimFiles DEF Conclude
    <3>6. QED  BY <3>1, <3>2, <3>3, <3>4, <3>5 DEF Thread
  <2>6. QED  BY <2>1, <2>5
<1>3. QED  BY <1>1, <1>2, TypeCorrect, PTL DEF Spec

\* At most one of any number of processes given a name ever obtains its partial
\* directory: not even what a killed, failed or refused one left is taken over.
THEOREM OneProcessPerName == Spec => []SoleOwner
<1>1. ClaimInv => SoleOwner
  BY DEF ClaimInv, TypeOK, TypeFiles, Claims, SoleOwner
<1>2. QED  BY <1>1, ClaimInductive, PTL

-----------------------------------------------------------------------------
(* What a published episode contains: the inductive invariant.              *)

Receiving == {"none", "open"} \cup Consuming

Unheld == {"none", "open", "check", "get"}

\* Until the sentinel is taken, what was accepted is written, held or queued;
\* a sentinel is the last entry, and nothing is accepted behind it.
InTransit(w, s) ==
    /\ accepted[w] = (written[w] \o held[w]) \o s
    /\ queue[w] = s \/ (queue[w] = Append(s, Sentinel) /\ state[w] # "open")

Content(w) ==
    /\ finisher[w] \in {"idle", "put"} => queue[w] \in Seq(Entry)
    /\ finisher[w] = "put" => state[w] # "open"
    /\ pc[w] \in Unheld => held[w] = <<>>
    /\ pc[w] \in Receiving => \E s \in Seq(Entry) : InTransit(w, s)
    /\ pc[w] \in Sealing => accepted[w] = written[w] /\ state[w] # "open"

\* What each step of _run after the sentinel put on disk.
Stored(w) ==
    /\ pc[w] \in Sealing \ {"finish"} => files[w].mcap = "synced"
    /\ pc[w] \in {"sync", "commit", "renamed"} => files[w].meta = "synced"
    /\ pc[w] \in {"commit", "renamed"} => files[w].listed

Whole(w) ==
    dest = w =>
        /\ accepted[w] = written[w] /\ state[w] # "open"
        /\ files[w] = [mcap |-> "synced", meta |-> "synced", listed |-> TRUE]

ContentInv ==
    /\ VerdictInv
    /\ \A w \in Writers : Content(w) /\ Stored(w) /\ Whole(w)

-----------------------------------------------------------------------------
(* Facts about sequences.                                                   *)

LEMMA AppendLast ==
    ASSUME NEW a \in Seq(Entry), NEW s \in Seq(Entry), NEW e \in Entry
    PROVE  Append(a \o s, e) = a \o Append(s, e)
<1>1. a \o s \in Seq(Entry) /\ <<e>> \in Seq(Entry)
  BY ConcatProperties
<1>2. Append(a \o s, e) = (a \o s) \o <<e>> /\ Append(s, e) = s \o <<e>>
  BY <1>1, AppendIsConcat
<1>3. (a \o s) \o <<e>> = a \o (s \o <<e>>)
  BY <1>1, ConcatAssociative
<1>4. QED  BY <1>2, <1>3

LEMMA TakeFirst ==
    ASSUME NEW a \in Seq(Entry), NEW s \in Seq(Entry), s # <<>>
    PROVE  a \o s = (a \o <<Head(s)>>) \o Tail(s)
<1>1. /\ Len(s) \in Nat \ {0} /\ Head(s) = s[1]
      /\ Head(s) \in Entry /\ Tail(s) \in Seq(Entry)
  BY EmptySeq, HeadTailProperties
<1>2. s = SubSeq(s, 1, Len(s)) /\ Tail(s) = SubSeq(s, 2, Len(s))
  BY SubSeqFull, TailIsSubSeq
<1>3. SubSeq(s, 1, Len(s)) = <<s[1]>> \o SubSeq(s, 1 + 1, Len(s))
  BY <1>1, SubSeqRecursiveFirst
<1>4. s = <<Head(s)>> \o Tail(s)
  BY <1>1, <1>2, <1>3
<1>5. <<Head(s)>> \in Seq(Entry)
  BY <1>1
<1>6. QED  BY <1>1, <1>4, <1>5, ConcatAssociative

\* The sequences of one writer.
LEMMA WriterSequences ==
    ASSUME TypeOK, NEW w \in Writers
    PROVE  /\ accepted[w] \in Seq(Entry) /\ written[w] \in Seq(Entry)
           /\ held[w] \in Seq(Entry)
           /\ written[w] \o held[w] \in Seq(Entry)
<1>1. accepted[w] \in Seq(Entry) /\ written[w] \in Seq(Entry)
  BY DEF TypeOK, TypeQueue, TypeWork
<1>2. held[w] = <<>> \/ \E e \in Entry : held[w] = <<e>>
  BY DEF TypeOK, TypeWork
<1>3. held[w] \in Seq(Entry)
  <2>1. <<>> \in Seq(Entry) /\ \A e \in Entry : <<e>> \in Seq(Entry)
    OBVIOUS
  <2>2. QED  BY <1>2, <2>1
<1>4. QED  BY <1>1, <1>3, ConcatProperties

-----------------------------------------------------------------------------
(* Steps outside the writer thread.                                         *)

LEMMA ContentInit == Init => \A w \in Writers : Content(w) /\ Stored(w) /\ Whole(w)
<1> SUFFICES ASSUME Init, NEW w \in Writers
             PROVE  Content(w) /\ Stored(w) /\ Whole(w)
  OBVIOUS
<1> USE DEF Init
<1>1. <<>> \in Seq(Entry) /\ (<<>> \o <<>>) \o <<>> = <<>>
  BY EmptySeq, ConcatEmptySeq
<1>2. \E s \in Seq(Entry) : InTransit(w, s)
  BY <1>1 DEF InTransit
<1>3. Content(w)
  BY <1>1, <1>2 DEF Content, Sealing
<1>4. QED  BY <1>3, NamesAssumption DEF Stored, Whole, Sealing

\* A step that moves no entry and no file, and may only close the writer.
LEMMA ContentSteady ==
    ASSUME ContentInv, UNCHANGED <<dest, files, queue, held, accepted, written>>,
           \A w \in Writers :
              /\ state'[w] = state[w] \/ state'[w] # "open"
              /\ finisher'[w] \in {"idle", "put"} => finisher[w] \in {"idle", "put"}
              /\ finisher'[w] = "put" => state'[w] # "open"
              /\ pc'[w] = pc[w] \/ (pc[w] = "none" /\ pc'[w] = "open")
    PROVE  \A w \in Writers : Content(w)' /\ Stored(w)' /\ Whole(w)'
<1> SUFFICES ASSUME NEW w \in Writers
             PROVE  Content(w)' /\ Stored(w)' /\ Whole(w)'
  OBVIOUS
<1>1. Content(w) /\ Stored(w) /\ Whole(w)
  BY DEF ContentInv
<1>2. \A s \in Seq(Entry) : InTransit(w, s) => InTransit(w, s)'
  BY DEF InTransit
<1>3. Content(w)'
  BY <1>1, <1>2 DEF Content, Receiving, Unheld, Sealing
<1>4. Stored(w)' /\ Whole(w)'
  BY <1>1 DEF Stored, Whole, Sealing
<1>5. QED  BY <1>3, <1>4

LEMMA ContentCalls ==
    ASSUME ContentInv, NEW u \in Writers,
           \/ Construct(u) \/ Kill(u) \/ Abort(u) \/ FinishStart(u) \/ Expire(u)
           \/ FinishPutTimesOut(u) \/ FinishReturn(u)
           \/ \E e \in Entry : SubmitOverflows(u, e)
    PROVE  \A w \in Writers : Content(w)' /\ Stored(w)' /\ Whole(w)'
<1> USE DEF ContentInv, VerdictInv, TypeOK, TypeCalls, TypeState, TypeWork,
        fileVars, callVars, workVars
<1>1. \A w \in Writers : finisher[w] = "put" => state[w] # "open"
  BY DEF Content
<1>2. UNCHANGED <<dest, files, queue, held, accepted, written>>
  BY DEF Construct, Reserve, CheckDestination, MakePartial, StartThread, StartThreadFails,
     Kill, Abort, FinishStart, Expire, FinishPutTimesOut, FinishReturn, SubmitOverflows
<1>3. CASE Construct(u)
  <2>1. UNCHANGED <<state, finisher>>
    BY <1>3 DEF Construct, Reserve, CheckDestination, MakePartial, StartThread,
       StartThreadFails
  <2>2. pc' = pc \/ (owner[u] = "made" /\ pc' = [pc EXCEPT ![u] = "open"])
    BY <1>3 DEF Construct, Reserve, CheckDestination, MakePartial, StartThread,
       StartThreadFails
  <2>3. owner[u] = "made" => pc[u] = "none"
    BY DEF VerdictOrder, NotStarted
  <2>4. \A w \in Writers : pc'[w] = pc[w] \/ (pc[w] = "none" /\ pc'[w] = "open")
    BY <2>2, <2>3
  <2>5. QED  BY <1>1, <1>2, <2>1, <2>4, ContentSteady
<1>4. CASE \/ Kill(u) \/ Abort(u) \/ FinishStart(u) \/ Expire(u)
           \/ FinishPutTimesOut(u) \/ FinishReturn(u)
           \/ \E e \in Entry : SubmitOverflows(u, e)
  <2>1. \A w \in Writers :
           /\ state'[w] = state[w] \/ state'[w] # "open"
           /\ finisher'[w] \in {"idle", "put"} => finisher[w] \in {"idle", "put"}
           /\ finisher'[w] = "put" => state'[w] # "open"
    BY <1>1, <1>4 DEF Kill, Abort, FinishStart, Expire, FinishPutTimesOut, FinishReturn,
       SubmitOverflows
  <2>2. pc' = pc
    BY <1>4 DEF Kill, Abort, FinishStart, Expire, FinishPutTimesOut, FinishReturn,
       SubmitOverflows
  <2>3. QED  BY <1>2, <2>1, <2>2, ContentSteady
<1>5. QED  BY <1>3, <1>4

\* An accepted entry goes behind the others: an open writer has no sentinel,
\* is not being sealed and is not published.
LEMMA ContentSubmit ==
    ASSUME ContentInv, NEW u \in Writers, NEW e \in Entry, Submit(u, e)
    PROVE  \A w \in Writers : Content(w)' /\ Stored(w)' /\ Whole(w)'
<1> SUFFICES ASSUME NEW w \in Writers
             PROVE  Content(w)' /\ Stored(w)' /\ Whole(w)'
  OBVIOUS
<1>1. /\ TypeOK /\ Content(w) /\ Stored(w) /\ Whole(w)
      /\ Content(u) /\ Whole(u)
  BY DEF ContentInv, VerdictInv
<1>2. /\ state[u] = "open"
      /\ queue' = [queue EXCEPT ![u] = Append(@, e)]
      /\ accepted' = [accepted EXCEPT ![u] = Append(@, e)]
      /\ UNCHANGED <<dest, files, finisher, state, pc, held, written>>
  BY DEF Submit, Accepting, fileVars, callVars, workVars
<1>3. Stored(w)'
  BY <1>1, <1>2 DEF Stored
<1>4. CASE w # u
  <2>1. queue'[w] = queue[w] /\ accepted'[w] = accepted[w]
    BY <1>1, <1>2, <1>4 DEF TypeOK, TypeQueue
  <2>2. \A s \in Seq(Entry) : InTransit(w, s) => InTransit(w, s)'
    BY <1>2, <2>1 DEF InTransit
  <2>3. Content(w)'
    BY <1>1, <1>2, <2>1, <2>2 DEF Content
  <2>4. QED  BY <1>1, <1>2, <1>3, <2>1, <2>3 DEF Whole
<1>5. CASE w = u
  <2>1. queue'[u] = Append(queue[u], e) /\ accepted'[u] = Append(accepted[u], e)
    BY <1>1, <1>2 DEF TypeOK, TypeQueue
  <2>2. pc[u] \in Receiving => \E s \in Seq(Entry) : InTransit(u, s)'
    <3> SUFFICES ASSUME pc[u] \in Receiving
                 PROVE  \E s \in Seq(Entry) : InTransit(u, s)'
      OBVIOUS
    <3>1. PICK s \in Seq(Entry) : InTransit(u, s)
      BY <1>1 DEF Content
    <3>2. /\ queue[u] = s /\ accepted[u] = (written[u] \o held[u]) \o s
      BY <1>2, <3>1 DEF InTransit
    <3>3. accepted'[u] = (written[u] \o held[u]) \o Append(s, e)
      <4>1. written[u] \o held[u] \in Seq(Entry)
        BY <1>1, WriterSequences
      <4>2. \A a \in Seq(Entry) : Append(a \o s, e) = a \o Append(s, e)
        BY AppendLast
      <4>3. QED  BY <2>1, <3>2, <4>1, <4>2
    <3>4. Append(s, e) \in Seq(Entry) /\ InTransit(u, Append(s, e))'
      BY <1>2, <2>1, <3>2, <3>3, AppendProperties DEF InTransit
    <3>5. QED  BY <3>4
  <2>3. queue[u] \in Seq(Entry) => queue'[u] \in Seq(Entry)
    BY <2>1, AppendProperties
  <2>4. Content(u)'
    BY <1>1, <1>2, <2>2, <2>3 DEF Content
  <2>5. Whole(u)'
    BY <1>1, <1>2 DEF Whole
  <2>6. QED  BY <1>3, <1>5, <2>4, <2>5
<1>6. QED  BY <1>4, <1>5

\* finish puts one sentinel, behind every entry.
LEMMA ContentFinishPut ==
    ASSUME ContentInv, NEW u \in Writers, FinishPut(u)
    PROVE  \A w \in Writers : Content(w)' /\ Stored(w)' /\ Whole(w)'
<1> SUFFICES ASSUME NEW w \in Writers
             PROVE  Content(w)' /\ Stored(w)' /\ Whole(w)'
  OBVIOUS
<1>1. TypeOK /\ Content(w) /\ Stored(w) /\ Whole(w) /\ Content(u)
  BY DEF ContentInv, VerdictInv
<1>2. /\ finisher[u] = "put" /\ finisher' = [finisher EXCEPT ![u] = "wait"]
      /\ queue' = [queue EXCEPT ![u] = Append(@, Sentinel)]
      /\ UNCHANGED <<dest, files, state, pc, held, accepted, written>>
  BY DEF FinishPut, fileVars, workVars
<1>3. state[u] # "open" /\ queue[u] \in Seq(Entry)
  BY <1>1, <1>2 DEF Content
<1>4. Stored(w)' /\ Whole(w)'
  BY <1>1, <1>2 DEF Stored, Whole
<1>5. CASE w # u
  <2>1. queue'[w] = queue[w] /\ finisher'[w] = finisher[w]
    BY <1>1, <1>2, <1>5 DEF TypeOK, TypeQueue, TypeCalls
  <2>2. \A s \in Seq(Entry) : InTransit(w, s) => InTransit(w, s)'
    BY <1>2, <2>1 DEF InTransit
  <2>3. QED  BY <1>1, <1>2, <1>4, <2>1, <2>2 DEF Content
<1>6. CASE w = u
  <2>1. queue'[u] = Append(queue[u], Sentinel) /\ finisher'[u] = "wait"
    BY <1>1, <1>2 DEF TypeOK, TypeQueue, TypeCalls
  <2>2. \A s \in Seq(Entry) : InTransit(u, s) => InTransit(u, s)'
    <3> SUFFICES ASSUME NEW s \in Seq(Entry), InTransit(u, s)
                 PROVE  InTransit(u, s)'
      OBVIOUS
    <3>1. queue[u] # Append(s, Sentinel)
      <4>1. Append(s, Sentinel)[Len(s) + 1] = Sentinel /\ Len(Append(s, Sentinel)) = Len(s) + 1
        OBVIOUS
      <4>2. Len(s) \in Nat
        OBVIOUS
      <4>3. QED  BY <1>3, <4>1, <4>2, SentinelAssumption, ElementOfSeq
    <3>2. QED  BY <1>2, <1>3, <2>1, <3>1 DEF InTransit
  <2>3. QED  BY <1>1, <1>2, <1>4, <1>6, <2>1, <2>2 DEF Content
<1>7. QED  BY <1>5, <1>6

-----------------------------------------------------------------------------
(* Steps of the writer thread.                                              *)

\* A step that moves no entry: to the exception handler, round the loop, or on
\* to the next stage with what that stage put on disk.
LEMMA ContentAdvance ==
    ASSUME ContentInv, NEW u \in Writers, NEW label,
           At(u, pc[u]), Goto(u, label), label # "none",
           UNCHANGED <<queue, held, accepted, written, finisher>>,
           \A w \in Writers : state'[w] = state[w] \/ state'[w] # "open",
           \A w \in Writers : w # u => files'[w] = files[w],
           label \in Receiving => pc[u] \in Receiving,
           label \in Unheld => pc[u] \in Unheld,
           label \in Sealing => pc[u] \in Sealing,
           Stored(u)', \A w \in Writers : Whole(w)'
    PROVE  \A w \in Writers : Content(w)' /\ Stored(w)' /\ Whole(w)'
<1> SUFFICES ASSUME NEW w \in Writers
             PROVE  Content(w)' /\ Stored(w)'
  OBVIOUS
<1>1. TypeOK /\ Content(w) /\ Stored(w)
  BY DEF ContentInv, VerdictInv
<1>2. \A s \in Seq(Entry) : InTransit(w, s) => InTransit(w, s)'
  BY DEF InTransit
<1>3. pc'[u] = label /\ (w # u => pc'[w] = pc[w])
  BY <1>1 DEF Goto, TypeOK, TypeWork
<1>4. Content(w)'
  BY <1>1, <1>2, <1>3 DEF Content
<1>5. Stored(w)'
  BY <1>1, <1>3 DEF Stored
<1>6. QED  BY <1>4, <1>5

\* Where an exception, the loop and the checks go, without touching a file.
LEMMA ContentControl ==
    ASSUME ContentInv, NEW u \in Writers,
           \/ Raise(u) \/ CheckActive(u) \/ GetEmpty(u) \/ VerifyStream(u)
           \/ CommitRefused(u) \/ RecordFailure(u) \/ ReleaseLock(u)
    PROVE  \A w \in Writers : Content(w)' /\ Stored(w)' /\ Whole(w)'
<1>1. TypeOK /\ Content(u) /\ Stored(u)
  BY DEF ContentInv, VerdictInv
<1>2. PICK label : /\ label # "none" /\ Goto(u, label)
                   /\ label \in Receiving => pc[u] \in Receiving
                   /\ label \in Unheld => pc[u] \in Unheld
                   /\ label \in Sealing => pc[u] \in Sealing
                   /\ label \in Sealing => pc[u] = "verify" /\ label = "metadata"
  <2> USE DEF Receiving, Consuming, Unheld, Sealing
  <2>1. CASE Raise(u) \/ CommitRefused(u) \/ RecordFailure(u) \/ ReleaseLock(u)
    BY <2>1 DEF Raise, CommitRefused, RecordFailure, ReleaseLock, Goto
  <2>2. CASE CheckActive(u)
    <3>1. pc[u] = "check" /\ (Goto(u, "get") \/ Goto(u, "except"))
      BY <2>2 DEF CheckActive, At, Goto
    <3>2. QED  BY <3>1
  <2>3. CASE GetEmpty(u)
    <3>1. pc[u] = "get" /\ Goto(u, "check")
      BY <2>3 DEF GetEmpty, At
    <3>2. QED  BY <3>1
  <2>4. CASE VerifyStream(u)
    BY <2>4 DEF VerifyStream, At
  <2>5. QED  BY <2>1, <2>2, <2>3, <2>4
<1>3. UNCHANGED <<queue, held, accepted, written, finisher, files, dest>>
  BY DEF Raise, CheckActive, GetEmpty, VerifyStream, CommitRefused, RecordFailure,
     ReleaseLock, fileVars, callVars
<1>4. Running(u) /\ \A w \in Writers : state'[w] = state[w] \/ state'[w] # "open"
  BY <1>1 DEF Raise, CheckActive, GetEmpty, VerifyStream, CommitRefused, RecordFailure,
     ReleaseLock, At, TypeOK, TypeState
<1>5. \A w \in Writers : Whole(w)'
  BY <1>3, <1>4 DEF ContentInv, Whole
<1>6. Stored(u)'
  BY <1>1, <1>2, <1>3 DEF Stored, Sealing, Goto, TypeOK, TypeWork
<1>7. QED  BY <1>2, <1>3, <1>4, <1>5, <1>6, ContentAdvance DEF At

\* The stages that write a file: none of them runs on a published episode.
LEMMA ContentFiles ==
    ASSUME ContentInv, NEW u \in Writers,
           OpenStream(u) \/ FinishStream(u) \/ WriteMetadata(u) \/ SyncPartial(u)
    PROVE  \A w \in Writers : Content(w)' /\ Stored(w)' /\ Whole(w)'
<1>1. TypeOK /\ Content(u) /\ Stored(u) /\ Announced(u)
  BY DEF ContentInv, VerdictInv
<1>2. dest # u
  BY <1>1 DEF Announced, Ending, OpenStream, FinishStream, WriteMetadata, SyncPartial, At
<1>3. PICK label : /\ label # "none" /\ Goto(u, label)
                   /\ label \in Receiving => pc[u] \in Receiving
                   /\ label \in Unheld => pc[u] \in Unheld
                   /\ label \in Sealing => pc[u] \in Sealing
  BY DEF OpenStream, FinishStream, WriteMetadata, SyncPartial, At, Goto, Receiving,
     Consuming, Unheld, Sealing
<1>4. UNCHANGED <<queue, held, accepted, written, finisher, state, dest>>
  BY DEF OpenStream, FinishStream, WriteMetadata, SyncPartial, callVars
<1>5. Running(u) /\ \A w \in Writers : w # u => files'[w] = files[w]
  BY <1>1 DEF OpenStream, FinishStream, WriteMetadata, SyncPartial, At, TypeOK, TypeFiles
<1>6. \A w \in Writers : Whole(w)'
  BY <1>2, <1>4, <1>5 DEF ContentInv, Whole
<1>7. Stored(u)'
  <2> USE <1>1 DEF At, Goto, Stored, Sealing, TypeOK, TypeFiles, TypeWork
  <2>1. CASE OpenStream(u)  BY <2>1 DEF OpenStream
  <2>2. CASE FinishStream(u)  BY <2>2 DEF FinishStream
  <2>3. CASE WriteMetadata(u)  BY <2>3 DEF WriteMetadata
  <2>4. CASE SyncPartial(u)  BY <2>4 DEF SyncPartial
  <2>5. QED  BY <2>1, <2>2, <2>3, <2>4
<1>8. QED  BY <1>3, <1>4, <1>5, <1>6, <1>7, ContentAdvance DEF At

LEMMA ContentGetEntry ==
    ASSUME ContentInv, NEW u \in Writers, GetEntry(u)
    PROVE  \A w \in Writers : Content(w)' /\ Stored(w)' /\ Whole(w)'
<1> SUFFICES ASSUME NEW w \in Writers
             PROVE  Content(w)' /\ Stored(w)' /\ Whole(w)'
  OBVIOUS
<1>1. TypeOK /\ Content(w) /\ Stored(w) /\ Whole(w) /\ Content(u)
  BY DEF ContentInv, VerdictInv
<1>2. /\ pc[u] = "get" /\ queue[u] # <<>>
      /\ queue' = [queue EXCEPT ![u] = Tail(@)]
      /\ UNCHANGED <<dest, files, state, finisher, accepted, written>>
  BY DEF GetEntry, At, fileVars, callVars
<1>3. /\ \E label \in {"finish", "count"} : pc' = [pc EXCEPT ![u] = label]
      /\ held' \in {held, [held EXCEPT ![u] = <<Head(queue[u])>>]}
  BY DEF GetEntry, Goto
<1>4. Whole(w)'
  BY <1>1, <1>2 DEF Whole
<1>5. CASE w # u
  <2>1. queue'[w] = queue[w] /\ held'[w] = held[w] /\ pc'[w] = pc[w]
    BY <1>1, <1>2, <1>3, <1>5 DEF TypeOK, TypeQueue, TypeWork
  <2>2. \A s \in Seq(Entry) : InTransit(w, s) => InTransit(w, s)'
    BY <1>2, <2>1 DEF InTransit
  <2>3. QED  BY <1>1, <1>2, <1>4, <2>1, <2>2 DEF Content, Stored
<1>6. CASE w = u
  <2> DEFINE a == written[u]
  <2>1. /\ queue'[u] = Tail(queue[u]) /\ held[u] = <<>>
        /\ a \in Seq(Entry) /\ a \o <<>> = a
    BY <1>1, <1>2, WriterSequences, ConcatEmptySeq
       DEF Content, Unheld, TypeOK, TypeQueue
  <2>2. PICK s \in Seq(Entry) : InTransit(u, s)
    BY <1>1, <1>2 DEF Content, Receiving, Consuming
  <2>3. accepted[u] = a \o s
    BY <2>1, <2>2 DEF InTransit
  <2>4. queue[u] \in Seq(Entry) => queue'[u] \in Seq(Entry)
    BY <1>2, <2>1, HeadTailProperties
  <2>5. Stored(u)'
    BY <1>1, <1>3 DEF Stored, Sealing, TypeOK, TypeWork
  <2>6. CASE s = <<>>
    <3>1. queue[u] = Append(<<>>, Sentinel) /\ state[u] # "open"
      BY <1>2, <2>2, <2>6 DEF InTransit
    <3>2. Head(queue[u]) = Sentinel
      BY <3>1
    <3>3. pc'[u] = "finish" /\ accepted[u] = written[u]
      BY <1>1, <2>1, <2>3, <2>6, <3>2 DEF GetEntry, Goto, TypeOK, TypeWork
    <3>4. Content(u)'
      BY <1>1, <1>2, <2>4, <3>1, <3>3
         DEF Content, Unheld, Receiving, Consuming, Sealing
    <3>5. QED  BY <1>4, <1>6, <2>5, <3>4
  <2>7. CASE s # <<>>
    <3>1. /\ Head(s) \in Entry /\ Tail(s) \in Seq(Entry)
          /\ Head(Append(s, Sentinel)) = Head(s)
          /\ Tail(Append(s, Sentinel)) = Append(Tail(s), Sentinel)
      BY <2>7, HeadTailProperties, HeadTailAppend
    <3>2. /\ Head(queue[u]) = Head(s)
          /\ \/ queue'[u] = Tail(s)
             \/ queue'[u] = Append(Tail(s), Sentinel) /\ state[u] # "open"
      BY <2>1, <2>2, <3>1 DEF InTransit
    <3>3. pc'[u] = "count" /\ held'[u] = <<Head(s)>>
      BY <1>1, <3>1, <3>2, SentinelAssumption DEF GetEntry, Goto, TypeOK, TypeWork
    <3>4. a \o s = (a \o <<Head(s)>>) \o Tail(s)
      BY <2>1, <2>7, TakeFirst
    <3>5. InTransit(u, Tail(s))'
      BY <1>2, <2>3, <3>2, <3>3, <3>4 DEF InTransit
    <3>6. Content(u)'
      BY <1>1, <1>2, <2>4, <3>1, <3>3, <3>5
         DEF Content, Unheld, Receiving, Consuming, Sealing
    <3>7. QED  BY <1>4, <1>6, <2>5, <3>6
  <2>8. QED  BY <2>6, <2>7
<1>7. QED  BY <1>5, <1>6

LEMMA ContentCountEntry ==
    ASSUME ContentInv, NEW u \in Writers, CountEntry(u)
    PROVE  \A w \in Writers : Content(w)' /\ Stored(w)' /\ Whole(w)'
<1>1. TypeOK /\ Stored(u)
  BY DEF ContentInv, VerdictInv
<1>2. /\ At(u, "count") /\ Goto(u, "write")
      /\ UNCHANGED <<fileVars, callVars, queue, held, accepted, written, state>>
  BY DEF CountEntry
<1>3. Stored(u)'
  BY <1>1, <1>2 DEF Stored, Sealing, Goto, fileVars, TypeOK, TypeWork
<1>4. \A w \in Writers : Whole(w)'
  BY <1>2 DEF ContentInv, Whole, fileVars
<1>5. QED
  BY <1>2, <1>3, <1>4, ContentAdvance
     DEF At, fileVars, callVars, Receiving, Consuming, Unheld, Sealing

LEMMA ContentWriteEntry ==
    ASSUME ContentInv, NEW u \in Writers, WriteEntry(u)
    PROVE  \A w \in Writers : Content(w)' /\ Stored(w)' /\ Whole(w)'
<1> SUFFICES ASSUME NEW w \in Writers
             PROVE  Content(w)' /\ Stored(w)' /\ Whole(w)'
  OBVIOUS
<1>1. /\ TypeOK /\ Content(w) /\ Stored(w) /\ Whole(w)
      /\ Content(u) /\ Stored(u) /\ Announced(u)
  BY DEF ContentInv, VerdictInv
<1>2. /\ pc[u] = "write" /\ pc' = [pc EXCEPT ![u] = "check"]
      /\ written' = [written EXCEPT ![u] = @ \o held[u]]
      /\ held' = [held EXCEPT ![u] = <<>>]
      /\ UNCHANGED <<dest, files, state, finisher, accepted, queue>>
  BY DEF WriteEntry, At, Goto, fileVars, callVars
<1>3. dest # u
  BY <1>1, <1>2 DEF Announced, Ending
<1>4. CASE w # u
  <2>1. written'[w] = written[w] /\ held'[w] = held[w] /\ pc'[w] = pc[w]
    BY <1>1, <1>2, <1>4 DEF TypeOK, TypeWork
  <2>2. \A s \in Seq(Entry) : InTransit(w, s) => InTransit(w, s)'
    BY <1>2, <2>1 DEF InTransit
  <2>3. QED  BY <1>1, <1>2, <2>1, <2>2 DEF Content, Stored, Whole
<1>5. CASE w = u
  <2>1. written'[u] = written[u] \o held[u] /\ held'[u] = <<>> /\ pc'[u] = "check"
    BY <1>1, <1>2 DEF TypeOK, TypeWork
  <2>2. (written[u] \o held[u]) \o <<>> = written[u] \o held[u]
    BY <1>1, WriterSequences, ConcatEmptySeq
  <2>3. \A s \in Seq(Entry) : InTransit(u, s) => InTransit(u, s)'
    BY <1>2, <2>1, <2>2 DEF InTransit
  <2>4. Content(u)'
    BY <1>1, <1>2, <2>1, <2>3 DEF Content, Unheld, Receiving, Consuming, Sealing
  <2>5. QED  BY <1>2, <1>3, <1>5, <2>1, <2>4 DEF Stored, Whole, Sealing
<1>6. QED  BY <1>4, <1>5

LEMMA ContentCommit ==
    ASSUME ContentInv, NEW u \in Writers,
           CommitRename(u) \/ CommitDurable(u) \/ CommitUndone(u)
    PROVE  \A w \in Writers : Content(w)' /\ Stored(w)' /\ Whole(w)'
<1>1. TypeOK /\ Content(u) /\ Stored(u)
  BY DEF ContentInv, VerdictInv
<1>2. CASE CommitRename(u)
  <2>1. /\ pc[u] = "commit" /\ Running(u) /\ Goto(u, "renamed") /\ dest' = u
        /\ UNCHANGED <<files, queue, held, accepted, written, finisher, state>>
    BY <1>2 DEF CommitRename, At, callVars
  <2>2. files[u] = [mcap |-> "synced", meta |-> "synced", listed |-> TRUE]
    BY <1>1, <2>1 DEF Stored, Sealing, TypeOK, TypeFiles
  <2>3. \A w \in Writers : Whole(w)'
    BY <1>1, <2>1, <2>2 DEF Whole, Content, Sealing
  <2>4. Stored(u)'
    BY <1>1, <2>1 DEF Stored, Sealing
  <2>5. QED
    BY <2>1, <2>3, <2>4, ContentAdvance DEF At, Receiving, Consuming, Unheld, Sealing
<1>3. CASE CommitDurable(u) \/ CommitUndone(u)
  <2>1. /\ pc[u] = "renamed" /\ Running(u) /\ dest' \in {dest, NoOne}
        /\ UNCHANGED <<files, queue, held, accepted, written, finisher>>
        /\ Goto(u, "drain") \/ Goto(u, "except")
    BY <1>3 DEF CommitDurable, CommitUndone, At, fileVars, callVars
  <2>2. \A w \in Writers : state'[w] = state[w] \/ state'[w] # "open"
    BY <1>1, <1>3 DEF CommitDurable, CommitUndone, TypeOK, TypeState
  <2>3. \A w \in Writers : Whole(w)'
    BY <2>1, <2>2, NamesAssumption DEF ContentInv, Whole
  <2>4. Stored(u)'
    BY <1>1, <2>1 DEF Stored, Sealing, Goto, TypeOK, TypeWork
  <2>5. QED
    BY <2>1, <2>2, <2>3, <2>4, ContentAdvance
       DEF At, Receiving, Consuming, Unheld, Sealing
<1>4. QED  BY <1>2, <1>3

LEMMA ContentDrain ==
    ASSUME ContentInv, NEW u \in Writers, DrainQueue(u)
    PROVE  \A w \in Writers : Content(w)' /\ Stored(w)' /\ Whole(w)'
<1> SUFFICES ASSUME NEW w \in Writers
             PROVE  Content(w)' /\ Stored(w)' /\ Whole(w)'
  OBVIOUS
<1>1. TypeOK /\ Content(w) /\ Stored(w) /\ Whole(w)
  BY DEF ContentInv, VerdictInv
<1>2. /\ pc' = [pc EXCEPT ![u] = "unlink"] /\ queue' = [queue EXCEPT ![u] = <<>>]
      /\ UNCHANGED <<dest, files, finisher, state, held, accepted, written>>
  BY DEF DrainQueue, Goto, fileVars, callVars
<1>3. /\ pc'[w] = pc[w] \/ pc'[w] = "unlink"
      /\ queue'[w] = queue[w] \/ queue'[w] = <<>>
      /\ pc'[w] # "unlink" => queue'[w] = queue[w]
  BY <1>1, <1>2 DEF TypeOK, TypeWork, TypeQueue
<1>4. \A s \in Seq(Entry) : InTransit(w, s) /\ pc'[w] # "unlink" => InTransit(w, s)'
  BY <1>2, <1>3 DEF InTransit
<1>5. <<>> \in Seq(Entry)
  OBVIOUS
<1>6. Content(w)'
  BY <1>1, <1>2, <1>3, <1>4, <1>5 DEF Content, Receiving, Consuming, Unheld, Sealing
<1>7. QED  BY <1>1, <1>2, <1>3, <1>6 DEF Stored, Whole, Sealing

LEMMA ContentInductive == Spec => []ContentInv
<1>1. Init => \A w \in Writers : Content(w) /\ Stored(w) /\ Whole(w)
  BY ContentInit
<1>2. ContentInv /\ [Next]_vars => \A w \in Writers : Content(w)' /\ Stored(w)' /\ Whole(w)'
  <2> SUFFICES ASSUME ContentInv, [Next]_vars
               PROVE  \A w \in Writers : Content(w)' /\ Stored(w)' /\ Whole(w)'
    OBVIOUS
  <2>1. CASE UNCHANGED vars
    BY <2>1, ContentSteady DEF vars, fileVars, callVars, workVars, ContentInv, Content
  <2>2. CASE Next
    <3>1. PICK u \in Writers : \/ Construct(u) \/ Kill(u) \/ Call(u)
                               \/ FinishStart(u) \/ Finish(u) \/ Expire(u) \/ Thread(u)
      BY <2>2 DEF Next
    <3>2. CASE Construct(u) \/ Kill(u) \/ Call(u) \/ FinishStart(u) \/ Finish(u) \/ Expire(u)
      BY <3>2, ContentCalls, ContentSubmit, ContentFinishPut DEF Call, Finish
    <3>3. CASE Thread(u)
      BY <3>3, ContentControl, ContentFiles, ContentGetEntry, ContentCountEntry,
         ContentWriteEntry, ContentCommit, ContentDrain DEF Thread, Consume, Seal, Conclude
    <3>4. QED  BY <3>1, <3>2, <3>3
  <2>3. QED  BY <2>1, <2>2
<1>3. Init /\ VerdictInv => ContentInv
  BY <1>1 DEF ContentInv
<1>4. ContentInv /\ VerdictInv' /\ [Next]_vars => ContentInv'
  BY <1>2 DEF ContentInv
<1>5. QED  BY <1>3, <1>4, VerdictInductive, PTL DEF Spec

\* Whatever bears the episode's name holds every accepted entry in order and is
\* on disk, for queues and batches of any size and entries without bound.
THEOREM PublishedIsComplete == Spec => []PublishedComplete
<1>1. ContentInv => PublishedComplete
  BY DEF ContentInv, Whole, PublishedComplete
<1>2. QED  BY <1>1, ContentInductive, PTL

-----------------------------------------------------------------------------
(* The counters of the queue.                                               *)

Entries == Seq(Entry)

\* The entries of s are charged n[c] to each counter c, those behind each
\* place what is left there: one unit at least for each of them.
Sums(s, n) ==
    \E left \in [Counters -> [0..Len(s) -> Nat]] :
        /\ \A c \in Counters :
              /\ left[c][0] = n[c] /\ left[c][Len(s)] = 0
              /\ \A i \in 1..Len(s) : left[c][i - 1] = Unit(s[i], c) + left[c][i]
              /\ \A i, j \in 0..Len(s) : i <= j => left[c][j] <= left[c][i]
        /\ \A i \in 0..Len(s) : left["item"][i] + left["feedback"][i] >= Len(s) - i

LEMMA UnitType ==
    ASSUME NEW e \in Entry
    PROVE  /\ \A c \in Counters : Unit(e, c) \in Nat
           /\ Unit(e, e.counter) = e.count
           /\ \A c \in Counters : c # e.counter => Unit(e, c) = 0
           /\ Unit(e, "item") + Unit(e, "feedback") >= 1
<1>1. e # Sentinel /\ e.counter \in Counters /\ e.count \in Nat \ {0}
  BY EntryType, SentinelAssumption
<1>2. /\ \A c \in Counters : Unit(e, c) \in Nat
      /\ Unit(e, e.counter) = e.count
      /\ \A c \in Counters : c # e.counter => Unit(e, c) = 0
  BY <1>1 DEF Unit
<1>3. Unit(e, "item") + Unit(e, "feedback") >= 1
  <2>1. CASE e.counter = "item"
    BY <1>1, <1>2, <2>1 DEF Counters
  <2>2. CASE e.counter = "feedback"
    BY <1>1, <1>2, <2>2 DEF Counters
  <2>3. QED  BY <1>1, <2>1, <2>2 DEF Counters
<1>4. QED  BY <1>2, <1>3

LEMMA SumsNothing == Sums(<<>>, [c \in Counters |-> 0])
<1> DEFINE left == [c \in Counters |-> [i \in 0..0 |-> 0]]
<1>1. left \in [Counters -> [0..0 -> Nat]]
  OBVIOUS
<1>2. \A c \in Counters : left[c][0] = 0
  OBVIOUS
<1>3. {"item", "feedback"} \subseteq Counters
  BY DEF Counters
<1> HIDE DEF left
<1>4. Len(<<>>) = 0 /\ \A i \in 0..0 : i = 0
  OBVIOUS
<1>5. QED  BY <1>1, <1>2, <1>3, <1>4 DEF Sums

\* An entry that enters is charged to its counter.
LEMMA SumsAppended ==
    ASSUME NEW s \in Entries, NEW e \in Entry, NEW n \in [Counters -> Nat], Sums(s, n)
    PROVE  Sums(Append(s, e), [c \in Counters |-> n[c] + Unit(e, c)])
<1> DEFINE L == Len(s)
           r == Append(s, e)
           m == [c \in Counters |-> n[c] + Unit(e, c)]
           units == [c \in Counters |-> Unit(e, c)]
<1>1. /\ L \in Nat /\ Len(r) = L + 1 /\ r[L + 1] = e
      /\ \A i \in 1..L : r[i] = s[i] /\ s[i] \in Entry
  BY DEF Entries
<1>2. PICK left \in [Counters -> [0..L -> Nat]] :
        /\ \A c \in Counters :
              /\ left[c][0] = n[c] /\ left[c][L] = 0
              /\ \A i \in 1..L : left[c][i - 1] = Unit(s[i], c) + left[c][i]
              /\ \A i, j \in 0..L : i <= j => left[c][j] <= left[c][i]
        /\ \A i \in 0..L : left["item"][i] + left["feedback"][i] >= L - i
  BY DEF Sums
<1>3. units \in [Counters -> Nat] /\ units["item"] + units["feedback"] >= 1
  BY UnitType DEF Counters
<1>4. \A c \in Counters : units[c] = Unit(e, c) /\ m[c] = n[c] + units[c]
  OBVIOUS
<1>5. \A c \in Counters, i \in 1..L : Unit(s[i], c) \in Nat
  BY <1>1, UnitType
<1> DEFINE longer == [c \in Counters |->
               [i \in 0..(L + 1) |-> IF i = L + 1 THEN 0 ELSE left[c][i] + units[c]]]
<1> HIDE DEF L, r, units, m
<1>6. /\ \A c \in Counters : longer[c][L + 1] = 0
      /\ \A c \in Counters, i \in 0..L : longer[c][i] = left[c][i] + units[c]
  BY <1>1
<1>7. longer \in [Counters -> [0..(L + 1) -> Nat]]
  <2>1. ASSUME NEW c \in Counters, NEW i \in 0..(L + 1)
        PROVE  (IF i = L + 1 THEN 0 ELSE left[c][i] + units[c]) \in Nat
    <3>1. CASE i = L + 1
      BY <3>1
    <3>2. CASE i # L + 1
      <4>1. i \in 0..L
        BY <1>1, <3>2
      <4>2. left[c][i] \in Nat /\ units[c] \in Nat
        BY <1>2, <1>3, <4>1
      <4>3. QED  BY <3>2, <4>2
    <3>3. QED  BY <3>1, <3>2
  <2>2. QED  BY <2>1
<1> HIDE DEF longer
<1>8. ASSUME NEW c \in Counters
      PROVE  /\ longer[c][0] = m[c] /\ longer[c][L + 1] = 0
             /\ \A i \in 1..(L + 1) : longer[c][i - 1] = Unit(r[i], c) + longer[c][i]
             /\ \A i, j \in 0..(L + 1) : i <= j => longer[c][j] <= longer[c][i]
  <2>1. longer[c][0] = m[c]
    <3>1. 0 \in 0..L
      BY <1>1
    <3>2. longer[c][0] = left[c][0] + units[c] /\ left[c][0] = n[c]
      BY <1>2, <1>6, <3>1
    <3>3. QED  BY <1>4, <3>2
  <2>2. ASSUME NEW i \in 1..(L + 1)
        PROVE  longer[c][i - 1] = Unit(r[i], c) + longer[c][i]
    <3>1. CASE i = L + 1
      <4>1. i - 1 = L /\ L \in 0..L
        BY <1>1, <3>1
      <4>2. longer[c][L] = left[c][L] + units[c] /\ left[c][L] = 0 /\ units[c] \in Nat
        BY <1>2, <1>3, <1>6, <4>1
      <4>3. r[i] = e /\ longer[c][i] = 0
        BY <1>1, <1>6, <3>1
      <4>4. QED  BY <1>4, <4>1, <4>2, <4>3
    <3>2. CASE i # L + 1
      <4>1. i \in 1..L /\ i \in 0..L /\ i - 1 \in 0..L
        BY <1>1, <3>2
      <4>2. left[c][i - 1] = Unit(s[i], c) + left[c][i]
        BY <1>2, <4>1
      <4>3. longer[c][i - 1] = left[c][i - 1] + units[c] /\ longer[c][i] = left[c][i] + units[c]
        BY <1>6, <4>1
      <4>4. Unit(r[i], c) = Unit(s[i], c) /\ Unit(s[i], c) \in Nat
            /\ left[c][i] \in Nat /\ units[c] \in Nat
        BY <1>1, <1>2, <1>3, <1>5, <4>1
      <4>5. QED  BY <4>2, <4>3, <4>4
    <3>3. QED  BY <3>1, <3>2
  <2>3. ASSUME NEW i \in 0..(L + 1), NEW j \in 0..(L + 1), i <= j
        PROVE  longer[c][j] <= longer[c][i]
    <3>1. longer[c][i] \in Nat
      BY <1>7
    <3>2. CASE j = L + 1
      BY <1>6, <3>1, <3>2
    <3>3. CASE j # L + 1
      <4>1. i \in 0..L /\ j \in 0..L
        BY <1>1, <2>3, <3>3
      <4>2. left[c][j] <= left[c][i]
        BY <1>2, <2>3, <4>1
      <4>3. left[c][i] \in Nat /\ left[c][j] \in Nat /\ units[c] \in Nat
        BY <1>2, <1>3, <4>1
      <4>4. QED  BY <1>6, <4>1, <4>2, <4>3
    <3>4. QED  BY <3>2, <3>3
  <2>4. QED  BY <1>6, <2>1, <2>2, <2>3
<1>9. ASSUME NEW i \in 0..(L + 1)
      PROVE  longer["item"][i] + longer["feedback"][i] >= L + 1 - i
  <2>1. "item" \in Counters /\ "feedback" \in Counters
    BY DEF Counters
  <2>2. CASE i = L + 1
    <3>1. longer["item"][i] = 0 /\ longer["feedback"][i] = 0
      BY <1>6, <2>1, <2>2
    <3>2. QED  BY <1>1, <2>2, <3>1
  <2>3. CASE i # L + 1
    <3>1. i \in 0..L
      BY <1>1, <2>3
    <3>2. left["item"][i] + left["feedback"][i] >= L - i
      BY <1>2, <3>1
    <3>3. /\ longer["item"][i] = left["item"][i] + units["item"]
          /\ longer["feedback"][i] = left["feedback"][i] + units["feedback"]
      BY <1>6, <2>1, <3>1
    <3>4. /\ left["item"][i] \in Nat /\ left["feedback"][i] \in Nat
          /\ units["item"] \in Nat /\ units["feedback"] \in Nat
      BY <1>2, <1>3, <2>1, <3>1
    <3>5. L - i \in Int /\ (L - i) + 1 = L + 1 - i
      BY <1>1, <3>1
    <3> DEFINE a == left["item"][i]  b == left["feedback"][i]
               x == units["item"]  y == units["feedback"]  z == L - i
    <3>6. /\ a \in Nat /\ b \in Nat /\ x \in Nat /\ y \in Nat /\ z \in Int
          /\ a + b >= z /\ x + y >= 1
      BY <1>3, <3>2, <3>4, <3>5
    <3>7. longer["item"][i] + longer["feedback"][i] = (a + x) + (b + y)
      BY <3>3
    <3> HIDE DEF a, b, x, y, z
    <3>8. (a + x) + (b + y) >= z + 1
      BY <3>6
    <3>9. QED  BY <3>5, <3>7, <3>8 DEF z
  <2>4. QED  BY <2>2, <2>3
<1>10. Sums(r, m)
  <2> SUFFICES \E f \in [Counters -> [0..Len(r) -> Nat]] :
                 /\ \A c \in Counters :
                       /\ f[c][0] = m[c] /\ f[c][Len(r)] = 0
                       /\ \A i \in 1..Len(r) : f[c][i - 1] = Unit(r[i], c) + f[c][i]
                       /\ \A i, j \in 0..Len(r) : i <= j => f[c][j] <= f[c][i]
                 /\ \A i \in 0..Len(r) : f["item"][i] + f["feedback"][i] >= Len(r) - i
    BY DEF Sums
  <2>1. longer \in [Counters -> [0..Len(r) -> Nat]]
    BY <1>1, <1>7
  <2> WITNESS longer \in [Counters -> [0..Len(r) -> Nat]]
  <2>2. QED  BY <1>1, <1>8, <1>9
<1>11. QED  BY <1>10 DEF r, m

\* One that leaves gives back what it was charged.
LEMMA SumsTaken ==
    ASSUME NEW s \in Entries, s # <<>>, NEW n \in [Counters -> Nat], Sums(s, n),
           NEW m \in [Counters -> Int],
           \A c \in Counters : n[c] = Unit(Head(s), c) + m[c]
    PROVE  m \in [Counters -> Nat] /\ Sums(Tail(s), m)
<1> DEFINE L == Len(s)
           r == Tail(s)
<1>1. /\ L \in Nat \ {0} /\ Len(r) = L - 1 /\ Head(s) = s[1]
      /\ \A i \in 1..(L - 1) : r[i] = s[i + 1]
      /\ \A i \in 1..L : s[i] \in Entry
  BY DEF Entries
<1>2. PICK left \in [Counters -> [0..L -> Nat]] :
        /\ \A c \in Counters :
              /\ left[c][0] = n[c] /\ left[c][L] = 0
              /\ \A i \in 1..L : left[c][i - 1] = Unit(s[i], c) + left[c][i]
              /\ \A i, j \in 0..L : i <= j => left[c][j] <= left[c][i]
        /\ \A i \in 0..L : left["item"][i] + left["feedback"][i] >= L - i
  BY DEF Sums
<1>3. \A c \in Counters, i \in 1..L : Unit(s[i], c) \in Nat
  BY <1>1, UnitType
<1> HIDE DEF L, r
<1>4. ASSUME NEW c \in Counters
      PROVE  left[c][1] = m[c] /\ left[c][1] \in Nat
  <2>1. 1 \in 1..L /\ 1 \in 0..L /\ 1 - 1 = 0
    BY <1>1
  <2>2. n[c] = Unit(s[1], c) + left[c][1]
    BY <1>2, <2>1
  <2>3. left[c][1] \in Nat /\ Unit(s[1], c) \in Nat
    BY <1>2, <1>3, <2>1
  <2>4. n[c] = Unit(s[1], c) + m[c] /\ m[c] \in Int
    BY <1>1
  <2>5. QED  BY <2>2, <2>3, <2>4
<1>5. m \in [Counters -> Nat]
  BY <1>4
<1> DEFINE rest == [c \in Counters |-> [i \in 0..(L - 1) |-> left[c][i + 1]]]
<1>6. \A c \in Counters, i \in 0..(L - 1) : rest[c][i] = left[c][i + 1]
  OBVIOUS
<1>7. \A i \in 0..(L - 1) : i + 1 \in 1..L /\ i + 1 \in 0..L
  BY <1>1
<1>8. rest \in [Counters -> [0..(L - 1) -> Nat]]
  BY <1>2, <1>7
<1> HIDE DEF rest
<1>9. 0 \in 0..(L - 1) /\ L - 1 \in 0..(L - 1) /\ (L - 1) + 1 = L /\ 0 + 1 = 1
  BY <1>1
<1>10. ASSUME NEW c \in Counters
       PROVE  /\ rest[c][0] = m[c] /\ rest[c][L - 1] = 0
              /\ \A i \in 1..(L - 1) : rest[c][i - 1] = Unit(r[i], c) + rest[c][i]
              /\ \A i, j \in 0..(L - 1) : i <= j => rest[c][j] <= rest[c][i]
  <2>1. rest[c][0] = m[c] /\ rest[c][L - 1] = 0
    BY <1>2, <1>4, <1>6, <1>9
  <2>2. ASSUME NEW i \in 1..(L - 1)
        PROVE  rest[c][i - 1] = Unit(r[i], c) + rest[c][i]
    <3>1. i \in 0..(L - 1) /\ i - 1 \in 0..(L - 1) /\ i + 1 \in 1..L
          /\ (i - 1) + 1 = i /\ (i + 1) - 1 = i
      BY <1>1
    <3>2. left[c][i] = Unit(s[i + 1], c) + left[c][i + 1]
      BY <1>2, <3>1
    <3>3. QED  BY <1>1, <1>6, <3>1, <3>2
  <2>3. ASSUME NEW i \in 0..(L - 1), NEW j \in 0..(L - 1), i <= j
        PROVE  rest[c][j] <= rest[c][i]
    <3>1. i + 1 \in 0..L /\ j + 1 \in 0..L /\ i + 1 <= j + 1
      BY <1>1, <2>3
    <3>2. left[c][j + 1] <= left[c][i + 1]
      BY <1>2, <3>1
    <3>3. QED  BY <1>6, <3>2
  <2>4. QED  BY <2>1, <2>2, <2>3
<1>11. ASSUME NEW i \in 0..(L - 1)
       PROVE  rest["item"][i] + rest["feedback"][i] >= L - 1 - i
  <2>1. "item" \in Counters /\ "feedback" \in Counters
    BY DEF Counters
  <2>2. i + 1 \in 0..L /\ L - (i + 1) = L - 1 - i
    BY <1>1
  <2>3. left["item"][i + 1] + left["feedback"][i + 1] >= L - (i + 1)
    BY <1>2, <2>2
  <2>4. QED  BY <1>6, <2>1, <2>2, <2>3
<1>12. Sums(r, m)
  <2> SUFFICES \E f \in [Counters -> [0..Len(r) -> Nat]] :
                 /\ \A c \in Counters :
                       /\ f[c][0] = m[c] /\ f[c][Len(r)] = 0
                       /\ \A i \in 1..Len(r) : f[c][i - 1] = Unit(r[i], c) + f[c][i]
                       /\ \A i, j \in 0..Len(r) : i <= j => f[c][j] <= f[c][i]
                 /\ \A i \in 0..Len(r) : f["item"][i] + f["feedback"][i] >= Len(r) - i
    BY DEF Sums
  <2>1. rest \in [Counters -> [0..Len(r) -> Nat]]
    BY <1>1, <1>8
  <2> WITNESS rest \in [Counters -> [0..Len(r) -> Nat]]
  <2>2. QED  BY <1>1, <1>10, <1>11
<1>13. QED  BY <1>5, <1>12 DEF r

\* What the property says of each counter, and of the length.
LEMMA SumsCharge ==
    ASSUME NEW s \in Entries, NEW n \in [Counters -> Nat], Sums(s, n)
    PROVE  /\ \A c \in Counters : Charges(s, c, n[c])
           /\ Len(s) <= n["item"] + n["feedback"]
<1>1. Len(s) \in Nat /\ DOMAIN s = 1..Len(s)
  BY DEF Entries
<1>2. PICK left \in [Counters -> [0..Len(s) -> Nat]] :
        /\ \A c \in Counters :
              /\ left[c][0] = n[c] /\ left[c][Len(s)] = 0
              /\ \A i \in 1..Len(s) : left[c][i - 1] = Unit(s[i], c) + left[c][i]
              /\ \A i, j \in 0..Len(s) : i <= j => left[c][j] <= left[c][i]
        /\ \A i \in 0..Len(s) : left["item"][i] + left["feedback"][i] >= Len(s) - i
  BY DEF Sums
<1>3. ASSUME NEW c \in Counters
      PROVE  Charges(s, c, n[c])
  <2>1. ASSUME NEW i \in 0..Len(s)
        PROVE  left[c][i] \in 0..n[c]
    <3>1. 0 \in 0..Len(s) /\ 0 <= i
      BY <1>1
    <3>2. left[c][i] <= left[c][0] /\ left[c][0] = n[c]
      BY <1>2, <3>1
    <3>3. left[c][i] \in Nat /\ n[c] \in Nat
      BY <1>2
    <3>4. QED  BY <3>2, <3>3
  <2>2. left[c] \in [0..Len(s) -> 0..n[c]]
    BY <1>2, <2>1
  <2>3. QED  BY <1>1, <1>2, <2>2 DEF Charges
<1>4. Len(s) <= n["item"] + n["feedback"]
  <2>1. left["item"][0] + left["feedback"][0] >= Len(s) - 0
    BY <1>1, <1>2
  <2>2. "item" \in Counters /\ "feedback" \in Counters
    BY DEF Counters
  <2>3. QED  BY <1>1, <1>2, <2>1, <2>2
<1>5. QED  BY <1>3, <1>4

\* A writer that accepts entries has had no sentinel, its thread is not past
\* its loop, and its counters are the sums of what was not counted yet.
Accounts(w) ==
    Accepting(w) =>
        /\ pc[w] \in Receiving \cup {"except"}
        /\ queue[w] \in Entries
        /\ queued[w] \in [Counters -> Nat]
        /\ Sums(Charged(w), queued[w])

AccountsInv == ContentInv /\ \A w \in Writers : Accounts(w)

LEMMA AccountsInit == Init => \A w \in Writers : Accounts(w)
<1> SUFFICES ASSUME Init, NEW w \in Writers  PROVE Accounts(w)
  OBVIOUS
<1>1. /\ pc[w] = "none" /\ queue[w] = <<>> /\ queued[w] = [c \in Counters |-> 0]
  BY DEF Init
<1>2. <<>> \in Entries /\ [c \in Counters |-> 0] \in [Counters -> Nat]
  BY DEF Entries
<1>3. Charged(w) = <<>>
  BY <1>1, <1>2, ConcatEmptySeq DEF Charged, Entries
<1>4. QED  BY <1>1, <1>2, <1>3, SumsNothing DEF Accounts, Receiving

\* The steps that change none of what is counted.
LEMMA AccountsSame ==
    ASSUME NEW w \in Writers, Accounts(w),
           state'[w] = "open" => state[w] = "open",
           queue'[w] = queue[w], queued'[w] = queued[w],
           \/ pc'[w] = pc[w] /\ held'[w] = held[w]
           \/ pc[w] # "count" /\ pc'[w] \in {"open", "check", "get", "write", "except"}
           \/ pc[w] \notin Receiving \cup {"except"}
           \/ state'[w] # "open"
    PROVE  Accounts(w)'
<1> SUFFICES ASSUME Accepting(w)'
             PROVE  /\ pc'[w] \in Receiving \cup {"except"}
                    /\ Charged(w)' = Charged(w)
  <2>1. /\ Accepting(w)' => /\ pc'[w] \in Receiving \cup {"except"}
                            /\ Charged(w)' = Charged(w)
    OBVIOUS
  <2>2. Accepting(w)' => Accepting(w)
    BY DEF Accepting
  <2>3. ASSUME Accepting(w)'
        PROVE  Sums(Charged(w)', queued'[w])
    BY <2>1, <2>2, <2>3 DEF Accounts
  <2>4. QED  BY <2>1, <2>2, <2>3 DEF Accounts
<1>1. /\ state'[w] = "open" /\ state[w] = "open" /\ pc[w] \in Receiving \cup {"except"}
  BY DEF Accepting, Accounts
<1>2. CASE pc'[w] = pc[w] /\ held'[w] = held[w]
  BY <1>1, <1>2 DEF Charged
<1>3. CASE pc[w] # "count" /\ pc'[w] \in {"open", "check", "get", "write", "except"}
  BY <1>3 DEF Charged, Receiving, Consuming
<1>4. QED  BY <1>1, <1>2, <1>3

LEMMA ChargedType ==
    ASSUME ContentInv, NEW w \in Writers, Accounts(w), Accepting(w)
    PROVE  /\ queue[w] \in Seq(Entry) /\ held[w] \in Seq(Entry)
           /\ Charged(w) \in Seq(Entry)
           /\ pc[w] # "count" => Charged(w) = queue[w]
           /\ Len(queue[w]) <= Len(Charged(w))
<1>1. queue[w] \in Seq(Entry) /\ held[w] \in Seq(Entry) /\ <<>> \in Seq(Entry)
  BY WriterSequences DEF ContentInv, VerdictInv, Accounts, Entries
<1>2. /\ <<>> \o queue[w] = queue[w] /\ held[w] \o queue[w] \in Seq(Entry)
      /\ Len(held[w] \o queue[w]) = Len(held[w]) + Len(queue[w])
      /\ Len(held[w]) \in Nat /\ Len(queue[w]) \in Nat
  BY <1>1, ConcatEmptySeq, ConcatProperties
<1>3. CASE pc[w] = "count"
  <2>1. Charged(w) = held[w] \o queue[w]
    BY <1>3 DEF Charged
  <2>2. Len(queue[w]) <= Len(held[w]) + Len(queue[w])
    <3> DEFINE h == Len(held[w])  q == Len(queue[w])
    <3>1. h \in Nat /\ q \in Nat
      BY <1>2
    <3> HIDE DEF h, q
    <3>2. q <= h + q
      BY <3>1
    <3>3. QED  BY <3>2 DEF h, q
  <2>3. QED  BY <1>1, <1>2, <1>3, <2>1, <2>2
<1>4. CASE pc[w] # "count"
  <2>1. Charged(w) = queue[w]
    BY <1>2, <1>4 DEF Charged
  <2>2. QED  BY <1>1, <1>2, <2>1
<1>5. QED  BY <1>3, <1>4

\* A submission charges its entry as it enters the queue.
LEMMA AccountsSubmit ==
    ASSUME ContentInv, NEW w \in Writers, Accounts(w), NEW e \in Entry, Submit(w, e)
    PROVE  Accounts(w)'
<1>1. /\ Accepting(w)
      /\ queue' = [queue EXCEPT ![w] = Append(@, e)]
      /\ queued' = [queued EXCEPT ![w][e.counter] = @ + e.count]
      /\ UNCHANGED <<pc, held, state>>
  BY DEF Submit, workVars
<1>2. /\ queue[w] \in Seq(Entry) /\ held[w] \in Seq(Entry) /\ Charged(w) \in Seq(Entry)
  BY <1>1, ChargedType
<1>3. /\ pc[w] \in Receiving \cup {"except"}
      /\ queued[w] \in [Counters -> Nat] /\ Sums(Charged(w), queued[w])
  BY <1>1 DEF Accounts
<1> DEFINE after == [c \in Counters |-> queued[w][c] + Unit(e, c)]
<1>4. queue'[w] = Append(queue[w], e) /\ queue'[w] \in Seq(Entry)
  BY <1>1, <1>2 DEF ContentInv, VerdictInv, TypeOK, TypeQueue
<1>5. queued'[w] = after
  <2>1. queued \in [Writers -> [Counters -> Int]]
    BY DEF ContentInv, VerdictInv, TypeOK, TypeQueue
  <2>2. /\ queued'[w] = [queued[w] EXCEPT ![e.counter] = queued[w][e.counter] + e.count]
        /\ queued[w] \in [Counters -> Int] /\ e.counter \in Counters
    BY <1>1, <2>1, EntryType
  <2>3. \A c \in Counters : c # e.counter => queued[w][c] + Unit(e, c) = queued[w][c]
    BY <2>2, UnitType
  <2>4. \A c \in Counters : queued'[w][c] = queued[w][c] + Unit(e, c)
    BY <2>2, <2>3, UnitType
  <2>5. queued'[w] \in [Counters -> Int] /\ DOMAIN queued'[w] = Counters
    BY <2>2, EntryType
  <2>6. queued'[w] = [c \in Counters |-> queued'[w][c]]
    BY <2>2
  <2>7. QED  BY <2>4, <2>6
<1>6. after \in [Counters -> Nat]
  <2>1. \A c \in Counters : queued[w][c] \in Nat /\ Unit(e, c) \in Nat
    BY <1>3, UnitType
  <2>2. QED  BY <2>1
<1>7. Charged(w)' = Append(Charged(w), e)
  <2>1. <<>> \in Seq(Entry)
    OBVIOUS
  <2>2. /\ <<>> \o Append(queue[w], e) = Append(<<>> \o queue[w], e)
        /\ held[w] \o Append(queue[w], e) = Append(held[w] \o queue[w], e)
    BY <1>2, <2>1, AppendLast
  <2>3. QED  BY <1>1, <1>4, <2>2 DEF Charged
<1>8. Sums(Append(Charged(w), e), after)
  BY <1>2, <1>3, SumsAppended DEF Entries
<1> HIDE DEF after
<1>9. Sums(Charged(w)', queued'[w])
  BY <1>5, <1>7, <1>8
<1>10. QED  BY <1>1, <1>3, <1>4, <1>5, <1>6, <1>9 DEF Accounts, Entries

\* The entry the thread takes stays charged until it is counted.
LEMMA AccountsGetEntry ==
    ASSUME ContentInv, NEW w \in Writers, Accounts(w), GetEntry(w)
    PROVE  Accounts(w)'
<1> SUFFICES ASSUME Accepting(w)'  PROVE Accounts(w)'
  BY DEF Accounts
<1>1. /\ pc[w] = "get" /\ queue[w] # <<>>
      /\ queue' = [queue EXCEPT ![w] = Tail(@)]
      /\ UNCHANGED <<state, queued>> /\ Accepting(w)
  BY DEF GetEntry, At, Accepting
<1>2. queue[w] \in Seq(Entry) /\ Charged(w) = queue[w]
  BY <1>1, ChargedType
<1>3. /\ Head(queue[w]) \in Entry /\ Tail(queue[w]) \in Seq(Entry)
      /\ queue'[w] = Tail(queue[w])
  BY <1>1, <1>2, HeadTailProperties DEF ContentInv, VerdictInv, TypeOK, TypeQueue
<1>4. pc'[w] = "count" /\ held'[w] = <<Head(queue[w])>>
  BY <1>3, SentinelAssumption
     DEF GetEntry, Goto, ContentInv, VerdictInv, TypeOK, TypeWork
<1>5. Charged(w)' = Charged(w)
  <2>1. <<>> \in Seq(Entry) /\ <<Head(queue[w])>> \in Seq(Entry)
    BY <1>3
  <2>2. /\ <<>> \o queue[w] = (<<>> \o <<Head(queue[w])>>) \o Tail(queue[w])
        /\ <<>> \o queue[w] = queue[w]
        /\ <<>> \o <<Head(queue[w])>> = <<Head(queue[w])>>
    BY <1>1, <1>2, <2>1, TakeFirst, ConcatEmptySeq
  <2>3. QED  BY <1>2, <1>3, <1>4, <2>2 DEF Charged
<1>6. Sums(Charged(w)', queued'[w]) /\ queued'[w] \in [Counters -> Nat]
  BY <1>1, <1>5 DEF Accounts
<1>7. QED  BY <1>3, <1>4, <1>6 DEF Accounts, Entries, Receiving, Consuming

LEMMA AccountsCountEntry ==
    ASSUME ContentInv, NEW w \in Writers, Accounts(w), CountEntry(w)
    PROVE  Accounts(w)'
<1> SUFFICES ASSUME Accepting(w)'  PROVE Accounts(w)'
  BY DEF Accounts
<1>1. /\ pc[w] = "count" /\ UNCHANGED <<state, queue, held>> /\ Accepting(w)
  BY DEF CountEntry, At, Accepting
<1>2. PICK e \in Entry : held[w] = <<e>>
  BY <1>1 DEF ContentInv, VerdictInv, TypeOK, TypeWork
<1>3. /\ queue[w] \in Seq(Entry) /\ queued[w] \in [Counters -> Nat]
      /\ Sums(Charged(w), queued[w])
  BY <1>1, ChargedType DEF Accounts
<1>4. pc'[w] = "write"
  BY DEF CountEntry, Goto, ContentInv, VerdictInv, TypeOK, TypeWork
<1>5. Charged(w) = <<e>> \o queue[w] /\ Charged(w)' = queue[w]
  <2>1. <<>> \o queue[w] = queue[w]
    BY <1>3, ConcatEmptySeq
  <2>2. QED  BY <1>1, <1>2, <1>4, <2>1 DEF Charged
<1>6. /\ Charged(w) \in Seq(Entry) /\ Charged(w) # <<>>
      /\ Head(Charged(w)) = e /\ Tail(Charged(w)) = queue[w]
  <2>1. <<e>> \in Seq(Entry) /\ Len(<<e>>) = 1 /\ <<e>>[1] = e
    OBVIOUS
  <2> DEFINE s == <<e>> \o queue[w]
  <2>2. /\ s \in Seq(Entry) /\ Len(s) = 1 + Len(queue[w]) /\ Len(queue[w]) \in Nat
        /\ \A i \in 1..(1 + Len(queue[w])) :
              s[i] = IF i <= 1 THEN <<e>>[i] ELSE queue[w][i - 1]
    BY <1>3, <2>1, ConcatProperties
  <2> HIDE DEF s
  <2>3. s[1] = e /\ \A i \in 1..Len(queue[w]) : s[i + 1] = queue[w][i]
    BY <2>1, <2>2
  <2>4. s # <<>> /\ Head(s) = e
    BY <2>2, <2>3
  <2>5. /\ Tail(s) \in Seq(Entry) /\ Len(Tail(s)) = Len(queue[w])
        /\ \A i \in 1..Len(queue[w]) : Tail(s)[i] = queue[w][i]
    BY <2>2, <2>3, <2>4, HeadTailProperties
  <2>6. Tail(s) = queue[w]
    BY <1>3, <2>5, SeqEqual
  <2>7. QED  BY <1>5, <2>2, <2>4, <2>6 DEF s
<1>7. /\ queued'[w] \in [Counters -> Int]
      /\ \A c \in Counters : queued[w][c] = Unit(e, c) + queued'[w][c]
  <2>1. Head(held[w]) = e
    BY <1>2
  <2>2. queued \in [Writers -> [Counters -> Int]]
    BY DEF ContentInv, VerdictInv, TypeOK, TypeQueue
  <2>3. queued' = [queued EXCEPT ![w][e.counter] = @ - e.count]
    BY <2>1 DEF CountEntry, Release
  <2>4. /\ queued'[w] = [queued[w] EXCEPT ![e.counter] = queued[w][e.counter] - e.count]
        /\ e.counter \in Counters /\ e.count \in Nat
    BY <2>2, <2>3, EntryType
  <2>5. \A c \in Counters : queued[w][c] \in Nat
    BY <1>3
  <2>6. ASSUME NEW c \in Counters
        PROVE  queued'[w][c] \in Int /\ queued[w][c] = Unit(e, c) + queued'[w][c]
    <3>1. CASE c = e.counter
      <4>1. queued'[w][c] = queued[w][c] - e.count /\ Unit(e, c) = e.count
        BY <1>3, <2>4, <3>1, UnitType
      <4>2. QED  BY <2>4, <2>5, <4>1
    <3>2. CASE c # e.counter
      <4>1. queued'[w][c] = queued[w][c] /\ Unit(e, c) = 0
        BY <1>3, <2>4, <3>2, UnitType
      <4>2. QED  BY <2>5, <4>1
    <3>3. QED  BY <3>1, <3>2
  <2>7. queued'[w] = [c \in Counters |-> queued'[w][c]]
    BY <1>3, <2>4
  <2>8. QED  BY <2>6, <2>7
<1>8. queued'[w] \in [Counters -> Nat] /\ Sums(queue[w], queued'[w])
  <2>1. Charged(w) \in Entries
    BY <1>6 DEF Entries
  <2>2. QED  BY <1>3, <1>6, <1>7, <2>1, SumsTaken
<1>9. QED  BY <1>1, <1>3, <1>4, <1>5, <1>8 DEF Accounts, Entries, Receiving, Consuming

\* Every other step of the same writer, and every step of another one.
LEMMA AccountsCalls ==
    ASSUME ContentInv, NEW u \in Writers, NEW w \in Writers, Accounts(w),
           \/ Construct(u) \/ Kill(u) \/ Abort(u)
           \/ FinishStart(u) \/ Finish(u) \/ Expire(u)
           \/ \E e \in Entry : SubmitOverflows(u, e)
    PROVE  Accounts(w)'
<1> USE DEF fileVars, callVars, workVars
<1>1. TypeOK /\ VerdictOrder(u) /\ Content(u)
  BY DEF ContentInv, VerdictInv
<1>2. UNCHANGED <<queued, held>>
  BY DEF Construct, Reserve, CheckDestination, MakePartial, StartThread, StartThreadFails,
     Kill, Abort, FinishStart, Finish, FinishPut, FinishPutTimesOut, FinishReturn, Expire,
     SubmitOverflows
<1>3. CASE FinishPut(u)
  <2>1. /\ pc' = pc /\ state' = state /\ state[u] # "open"
        /\ queue' = [queue EXCEPT ![u] = Append(@, Sentinel)]
    BY <1>1, <1>3 DEF FinishPut, Content
  <2>2. CASE w = u
    BY <2>1, <2>2 DEF Accounts, Accepting
  <2>3. CASE w # u
    <3>1. queue'[w] = queue[w]
      BY <1>1, <2>1, <2>3 DEF TypeOK, TypeQueue
    <3>2. QED  BY <1>2, <2>1, <3>1, AccountsSame
  <2>4. QED  BY <2>2, <2>3
<1>4. CASE ~FinishPut(u)
  <2>1. /\ queue' = queue /\ (state'[w] = "open" => state[w] = "open")
        /\ pc'[w] = pc[w] \/ (pc[w] = "none" /\ pc'[w] = "open")
    BY <1>1, <1>4
       DEF Construct, Reserve, CheckDestination, MakePartial, StartThread, StartThreadFails,
           Kill, Abort, FinishStart, Finish, FinishPutTimesOut, FinishReturn, Expire,
           SubmitOverflows, TypeOK, TypeState, TypeWork, VerdictOrder, NotStarted
  <2>2. QED  BY <1>2, <2>1, AccountsSame
<1>5. QED  BY <1>3, <1>4

LEMMA AccountsOther ==
    ASSUME ContentInv, NEW u \in Writers, NEW w \in Writers, w # u, Accounts(w),
           Thread(u) \/ \E e \in Entry : Submit(u, e)
    PROVE  Accounts(w)'
<1>1. TypeOK
  BY DEF ContentInv, VerdictInv
<1>2. /\ state'[w] = state[w] /\ queue'[w] = queue[w] /\ queued'[w] = queued[w]
      /\ pc'[w] = pc[w] /\ held'[w] = held[w]
  <2> USE <1>1 DEF TypeOK, TypeState, TypeQueue, TypeWork, At, Goto,
          fileVars, callVars, workVars
  <2>1. CASE \E e \in Entry : Submit(u, e)
    BY <2>1 DEF Submit
  <2>2. CASE Raise(u) \/ Consume(u)
    BY <2>2 DEF Raise, Consume, OpenStream, CheckActive, GetEmpty, GetEntry, CountEntry,
       WriteEntry
  <2>3. CASE Seal(u) \/ Conclude(u)
    BY <2>3 DEF Seal, FinishStream, VerifyStream, WriteMetadata, SyncPartial, Conclude,
       CommitRename, CommitRefused, CommitDurable, CommitUndone, RecordFailure,
       DrainQueue, ReleaseLock
  <2>4. QED  BY <2>1, <2>2, <2>3 DEF Thread
<1>3. QED  BY <1>2, AccountsSame

LEMMA AccountsThread ==
    ASSUME ContentInv, NEW w \in Writers, Accounts(w), Thread(w),
           ~GetEntry(w), ~CountEntry(w)
    PROVE  Accounts(w)'
<1>1. TypeOK
  BY DEF ContentInv, VerdictInv
<1>2. /\ queued' = queued /\ (state'[w] = "open" => state[w] = "open")
      /\ queue'[w] = queue[w] \/ pc[w] = "drain"
      /\ \/ pc[w] # "count" /\ pc'[w] \in {"open", "check", "get", "write", "except"}
         \/ pc[w] \notin Receiving \cup {"except"}
         \/ state'[w] # "open"
  <2> USE <1>1 DEF TypeOK, TypeState, TypeQueue, TypeWork, At, Goto, fileVars, callVars,
          Receiving, Consuming
  <2>1. CASE Raise(w) \/ Consume(w)
    BY <2>1 DEF Raise, Consume, OpenStream, CheckActive, GetEmpty, WriteEntry
  <2>2. CASE Seal(w) \/ Conclude(w)
    BY <2>2 DEF Seal, FinishStream, VerifyStream, WriteMetadata, SyncPartial, Conclude,
       CommitRename, CommitRefused, CommitDurable, CommitUndone, RecordFailure,
       DrainQueue, ReleaseLock
  <2>3. QED  BY <2>1, <2>2 DEF Thread
<1>3. CASE pc[w] = "drain"
  BY <1>2, <1>3 DEF Accounts, Accepting, Receiving, Consuming
<1>4. CASE pc[w] # "drain"
  BY <1>2, <1>4, AccountsSame
<1>5. QED  BY <1>3, <1>4

LEMMA AccountsInductive == Spec => []AccountsInv
<1>1. Init /\ ContentInv => AccountsInv
  BY AccountsInit DEF AccountsInv
<1>2. AccountsInv /\ ContentInv' /\ [Next]_vars => AccountsInv'
  <2> SUFFICES ASSUME AccountsInv, ContentInv', [Next]_vars, NEW w \in Writers
               PROVE  Accounts(w)'
    BY DEF AccountsInv
  <2>1. ContentInv /\ Accounts(w)
    BY DEF AccountsInv
  <2>2. CASE UNCHANGED vars
    BY <2>1, <2>2, AccountsSame DEF vars, workVars
  <2>3. CASE Next
    <3>1. PICK u \in Writers : \/ Construct(u) \/ Kill(u) \/ Call(u)
                               \/ FinishStart(u) \/ Finish(u) \/ Expire(u) \/ Thread(u)
      BY <2>3 DEF Next
    <3>2. CASE \/ Construct(u) \/ Kill(u) \/ Abort(u) \/ FinishStart(u) \/ Finish(u)
               \/ Expire(u) \/ \E e \in Entry : SubmitOverflows(u, e)
      BY <2>1, <3>2, AccountsCalls
    <3>3. CASE Thread(u) \/ \E e \in Entry : Submit(u, e)
      <4>1. CASE u # w
        BY <2>1, <3>3, <4>1, AccountsOther
      <4>2. CASE u = w
        BY <2>1, <3>3, <4>2, AccountsSubmit, AccountsGetEntry, AccountsCountEntry,
           AccountsThread
      <4>3. QED  BY <4>1, <4>2
    <3>4. QED  BY <3>1, <3>2, <3>3 DEF Call
  <2>4. QED  BY <2>2, <2>3
<1>3. QED  BY <1>1, <1>2, ContentInductive, PTL DEF Spec

\* While a writer accepts entries its counters are the sums of what is charged
\* to them, for queues and batches of any size and entries without bound: an
\* entry that fits its counter fits the queue, put_nowait never raises.
THEOREM CountersAreExact == Spec => []QueueAccounting
<1>1. AccountsInv => QueueAccounting
  <2> SUFFICES ASSUME AccountsInv, NEW w \in Writers, Accepting(w)
               PROVE  /\ \A c \in Counters : Charges(Charged(w), c, queued[w][c])
                      /\ \A e \in Entry : Fits(w, e) => ~QueueFull(w)
    BY DEF QueueAccounting
  <2>1. ContentInv /\ Accounts(w) /\ TypeOK
    BY DEF AccountsInv, ContentInv, VerdictInv
  <2>2. /\ Charged(w) \in Entries /\ queue[w] \in Seq(Entry)
        /\ Len(queue[w]) <= Len(Charged(w))
    BY <2>1, ChargedType DEF Entries
  <2>3. queued[w] \in [Counters -> Nat] /\ Sums(Charged(w), queued[w])
    BY <2>1 DEF Accounts
  <2>4. /\ \A c \in Counters : Charges(Charged(w), c, queued[w][c])
        /\ Len(Charged(w)) <= queued[w]["item"] + queued[w]["feedback"]
    BY <2>2, <2>3, SumsCharge
  <2>5. ASSUME NEW e \in Entry, Fits(w, e)
        PROVE  ~QueueFull(w)
    <3>1. "item" \in Counters /\ "feedback" \in Counters
      BY DEF Counters
    <3>2. queued[w]["item"] \in Nat /\ queued[w]["feedback"] \in Nat
      BY <2>3, <3>1
    <3>3. queued[w]["item"] <= Capacity /\ queued[w]["feedback"] <= FeedbackCapacity
      BY <2>1, <3>1 DEF TypeOK, TypeQueue, Limit
    <3>4. /\ Capacity \in Nat /\ FeedbackCapacity \in Nat
          /\ Len(queue[w]) \in Nat /\ Len(Charged(w)) \in Nat
      BY <2>2, CapacityAssumption DEF Entries
    <3>5. \/ queued[w]["item"] < Capacity
          \/ queued[w]["feedback"] < FeedbackCapacity
      <4>1. /\ e.counter \in Counters /\ e.count \in Nat \ {0}
            /\ queued[w][e.counter] + e.count <= Limit(e.counter)
        BY <2>5, EntryType DEF Fits
      <4>2. CASE e.counter = "item"
        BY <3>2, <3>4, <4>1, <4>2 DEF Limit
      <4>3. CASE e.counter = "feedback"
        BY <3>2, <3>4, <4>1, <4>3 DEF Limit
      <4>4. QED  BY <4>1, <4>2, <4>3 DEF Counters
    <3>6. Len(queue[w]) < Capacity + FeedbackCapacity
      BY <2>2, <2>4, <3>2, <3>3, <3>4, <3>5
    <3>7. QED  BY <3>4, <3>6 DEF QueueFull
  <2>6. QED  BY <2>4, <2>5
<1>2. QED  BY <1>1, AccountsInductive, PTL

-----------------------------------------------------------------------------
(* Refinement.                                                              *)

\* What a step of the writers is to the owner of one of them.
LEMMA CommitStep ==
    ASSUME ContentInv, [Next]_vars, NEW w \in Writers
    PROVE  \/ UNCHANGED <<state[w], accepted[w]>>
              /\ (state[w] = "committed" => UNCHANGED written[w])
           \/ /\ state[w] = "open" /\ state'[w] = "open"
              /\ \E e \in Entry : accepted'[w] = Append(accepted[w], e)
           \/ state[w] = "open" /\ state'[w] = "closing" /\ UNCHANGED accepted[w]
           \/ /\ state[w] = "closing" /\ state'[w] = "committed"
              /\ UNCHANGED accepted[w] /\ written'[w] = accepted[w]
           \/ /\ state[w] # "committed" /\ state'[w] \in {"aborted", "failed"}
              /\ UNCHANGED accepted[w]
<1> USE DEF ContentInv, VerdictInv, TypeOK, TypeState, TypeQueue, TypeWork,
        fileVars, callVars, workVars
<1>1. CASE UNCHANGED vars
  BY <1>1 DEF vars
<1>2. CASE Next
  <2>1. PICK u \in Writers : \/ Construct(u) \/ Kill(u) \/ Call(u)
                             \/ FinishStart(u) \/ Finish(u) \/ Expire(u) \/ Thread(u)
    BY <1>2 DEF Next
  <2>2. CASE Construct(u) \/ Kill(u) \/ Expire(u)
    BY <2>2 DEF Construct, Reserve, CheckDestination, MakePartial, StartThread,
       StartThreadFails, Kill, Expire
  <2>3. CASE Call(u)
    <3> DEFINE Stays == state'[w] = state[w] /\ accepted'[w] = accepted[w] /\ written'[w] = written[w]
    <3>1. ASSUME NEW e \in Entry, Submit(u, e)
          PROVE  \/ Stays
                 \/ state[w] = "open" /\ state'[w] = "open" /\ accepted'[w] = Append(accepted[w], e)
      <4>1. /\ state[u] = "open" /\ state' = state /\ written' = written
            /\ accepted' = [accepted EXCEPT ![u] = Append(accepted[u], e)]
        BY <3>1 DEF Submit, Accepting
      <4>2. QED  BY <4>1
    <3>2. ASSUME Abort(u) \/ \E e \in Entry : SubmitOverflows(u, e)
          PROVE  \/ Stays
                 \/ state[w] # "committed" /\ state'[w] = "aborted" /\ accepted'[w] = accepted[w]
      <4>1. /\ state[u] # "committed" /\ state' = [state EXCEPT ![u] = "aborted"]
            /\ accepted' = accepted /\ written' = written
        BY <3>2 DEF Abort, SubmitOverflows, Accepting
      <4>2. QED  BY <4>1
    <3>3. \/ Abort(u) \/ \E e \in Entry : SubmitOverflows(u, e)
          \/ \E e \in Entry : Submit(u, e)
      BY <2>3 DEF Call
    <3>4. CASE \E e \in Entry : Submit(u, e)
      BY <3>1, <3>4
    <3>5. CASE Abort(u) \/ \E e \in Entry : SubmitOverflows(u, e)
      BY <3>2, <3>5
    <3>6. QED  BY <3>3, <3>4, <3>5
  <2>4. CASE FinishStart(u) \/ Finish(u)
    BY <2>4 DEF FinishStart, Finish, FinishPut, FinishPutTimesOut, FinishReturn
  <2>5. CASE Raise(u) \/ Seal(u) \/ OpenStream(u) \/ CheckActive(u) \/ GetEmpty(u)
             \/ GetEntry(u) \/ CountEntry(u) \/ CommitRename(u) \/ CommitRefused(u)
             \/ CommitUndone(u) \/ DrainQueue(u) \/ ReleaseLock(u)
    BY <2>5 DEF Raise, Seal, FinishStream, VerifyStream, WriteMetadata, SyncPartial,
       OpenStream, CheckActive, GetEmpty, GetEntry, CountEntry, CommitRename,
       CommitRefused, CommitUndone, DrainQueue, ReleaseLock
  <2>6. CASE WriteEntry(u)
    <3>1. state[u] # "committed" /\ UNCHANGED <<state, accepted>>
      BY <2>6 DEF WriteEntry, At, VerdictOrder
    <3>2. w # u => UNCHANGED written[w]
      BY <2>6 DEF WriteEntry
    <3>3. QED  BY <3>1, <3>2
  <2>7. CASE CommitDurable(u)
    <3>1. pc[u] = "renamed" /\ UNCHANGED <<accepted, written>>
      BY <2>7 DEF CommitDurable, At
    <3>2. state[u] = "closing" /\ accepted[u] = written[u]
      BY <3>1 DEF VerdictOrder, Content, Sealing
    <3>3. QED  BY <2>7, <3>1, <3>2 DEF CommitDurable
  <2>8. CASE RecordFailure(u)
    BY <2>8 DEF RecordFailure, At, VerdictOrder
  <2>9. QED
    BY <2>1, <2>2, <2>3, <2>4, <2>5, <2>6, <2>7, <2>8 DEF Thread, Consume, Conclude
<1>3. QED  BY <1>1, <1>2

\* Each writer, its queue, deadline and files implement EpisodeCommit: entries
\* are accepted until the episode is sealed or lost, a sealed one is published
\* whole in one step or lost, and neither verdict is ever revised.
THEOREM WriterImplementsCommit == Spec => ImplementsCommit
<1>1. Init => \A w \in Writers : Commit(w)!Init
  BY DEF Init, Commit!Init, Verdict
<1>2. ContentInv /\ [Next]_vars => \A w \in Writers : [Commit(w)!Next]_(Commit(w)!vars)
  <2> SUFFICES ASSUME ContentInv, [Next]_vars, NEW w \in Writers
               PROVE  [Commit(w)!Next]_(Commit(w)!vars)
    OBVIOUS
  <2> USE DEF Commit!Next, Commit!vars, Commit!Accept, Commit!Seal, Commit!Publish,
          Commit!Lose, Verdict
  <2>1. state[w] \in {"open", "closing", "committed", "aborted", "failed"}
    BY DEF ContentInv, VerdictInv, TypeOK, TypeState
  <2>2. QED  BY <2>1, CommitStep
<1>3. QED  BY <1>1, <1>2, ContentInductive, PTL DEF Spec, ImplementsCommit
=============================================================================
