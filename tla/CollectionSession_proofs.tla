----------------------- MODULE CollectionSession_proofs -----------------------
(***************************************************************************)
(* Safety of the collection session for every number of episodes and every *)
(* capacity of the command queue.                                          *)
(*                                                                         *)
(* Four invariants, each resting on those before it: the data keep their   *)
(* shape (TypeInv); the phase says what there is of an episode, of a       *)
(* rejection and of motion (ControlInv); what is in the two queues is what *)
(* the recorder process can take, and what control waits for               *)
(* (ProtocolInv); and the entries, outcomes and directories agree          *)
(* (BooksInv).                                                             *)
(***************************************************************************)
EXTENDS CollectionSession, SequenceTheorems, TLAPS

\* Every number of an episode is that of a directory.
TypeInv ==
    /\ TypeOK
    /\ active # None => active.id \in Episodes
    /\ \A i \in DOMAIN inbox : inbox[i].episode \in Episodes
    /\ child.id \in Episodes

-----------------------------------------------------------------------------
(* Control.                                                                 *)

Unrejected == {"idle", "preparing", "engaging", "recording", "stopping", "finalizing", "closing"}
Rejected == {"review", "finalizing", "cancelling", "resolving", "blocked"}
Unoccupied == {"idle", "review", "resolving", "blocked"}
Opening == {"preparing", "engaging", "closing"}
Occupied == Opening \cup {"recording", "stopping", "finalizing", "review", "cancelling"}

\* How far the episode is.
EpisodeShape ==
    /\ active = None => phase \in Unoccupied
    /\ active # None => phase \in Occupied
    /\ active # None /\ active.stopSent => active.started
    /\ active # None /\ phase \in Opening => ~active.started
    /\ active # None /\ phase \in {"recording", "stopping", "finalizing"} => active.started
    /\ active # None /\ phase = "recording" => ~active.stopSent
    /\ active # None /\ phase = "finalizing" => active.settled /\ active.stopSent

\* A standstill is only ever observed for an arm whose motion is lost.
RejectionShape ==
    /\ rejection = None => phase \in Unrejected
    /\ rejection # None => phase \in Rejected
    /\ rejection # None /\ rejection.stopped => ~Usable("motion")

\* What the arm may be doing in a phase.
Motions ==
    CASE phase = "idle" -> {"needs_home", "homing", "ready", "stopping", "held"}
      [] phase = "preparing" -> {"ready"}
      [] phase = "engaging" -> {"ready", "engaging"} \cup (IF pc = "record" THEN {"following"} ELSE {})
      [] phase = "closing" -> {"ready", "engaging"}
      [] phase = "recording" -> {"following"}
      [] phase = "finalizing" -> {"held"}
      [] OTHER -> {"stopping", "held"}

\* The places of the loop that only some phases reach, and the measured hold
\* that the first half of _stopping has noted when the second begins.
PlaceShape ==
    /\ phase = "closing" => quit /\ pc = "loop"
    /\ pc = "retire" => active # None /\ phase \in {"finalizing", "cancelling", "review"}
    /\ pc = "dispose" => phase \in {"stopping", "review"}
    /\ (/\ pc = "dispose" /\ active # None /\ active.started
        /\ (motion = "held" /\ Usable("motion")) \/ (rejection # None /\ rejection.stopped))
       => active.settled

ControlInv == Running =>
    /\ EpisodeShape
    /\ RejectionShape
    /\ Usable("motion") => motion \in Motions
    /\ PlaceShape

-----------------------------------------------------------------------------
(* The recorder.                                                            *)

Has(queue, operation) == \E i \in DOMAIN queue : queue[i].operation = operation
Sent(operation) == Has(inbox, operation)

\* What may be behind a command in the queue.
Following(operation) ==
    CASE operation = "prepare" -> {"cancel"}
      [] operation \in {"begin", "samples"} ->
           {"samples", "freeze", "flush", "stop", "settled", "cancel"}
      [] operation = "freeze" -> {"flush", "stop", "settled", "cancel"}
      [] operation = "flush" -> {"stop", "settled", "cancel"}
      [] operation = "stop" -> {"settled", "cancel"}
      [] OTHER -> {}

\* What the child's own state leaves room for.
Awaited ==
    CASE child.state = "idle" -> {"prepare", "cancel"}
      [] child.state = "prepared" -> Following("begin") \cup {"begin"}
      [] child.state = "recording" ->
           (IF child.settled THEN {}
            ELSE IF child.cutoff THEN Following("stop")
            ELSE IF child.flushed THEN Following("flush")
            ELSE IF child.frozen THEN Following("freeze")
            ELSE Following("samples"))
      [] OTHER -> {}

\* The child can take every command of the queue when its turn comes.
Chain(queue) ==
    /\ \A i \in DOMAIN queue : queue[i].operation \in Awaited
    /\ \A i, j \in DOMAIN queue : i < j => queue[j].operation \in Following(queue[i].operation)
    /\ queue # <<>> /\ child.state = "idle" => queue[1].operation = "prepare"
    /\ queue # <<>> /\ child.state = "prepared" => queue[1].operation \in {"begin", "cancel"}
    /\ \A i \in DOMAIN queue :
         /\ queue[i].operation = "prepare" => disk[queue[i].episode] = "none"
         /\ queue[i].operation = "settled" =>
              \/ child.state = "recording" /\ child.cutoff
              \/ \E j \in DOMAIN queue : j < i /\ queue[j].operation = "stop"

\* Nothing is on its way in either direction.
Quiet == child.state = "idle" /\ inbox = <<>> /\ outbox = <<>>

\* Preparation was asked for and recording has not begun.
Opened ==
    \/ /\ child.state = "idle" /\ inbox = <<Command("prepare", active)>> /\ outbox = <<>>
       /\ phase # "engaging"
    \/ /\ child.state = "prepared" /\ inbox = <<>>
       /\ outbox = <<>> \/ (outbox = <<"prepare">> /\ child.acked)
       /\ phase = "preparing" /\ child.acked => outbox = <<"prepare">>
       /\ phase = "engaging" => child.acked /\ outbox = <<>>

\* The child records, or will.
Capturing ==
    /\ outbox = <<>>
    /\ \/ child.state = "prepared" /\ child.acked /\ inbox # <<>> /\ inbox[1].operation = "begin"
       \/ child.state = "recording"

\* Before the hold is reported.
Open ==
    /\ Capturing
    /\ ~Sent("settled") /\ ~Sent("cancel")
    /\ child.state = "recording" => ~child.settled
    /\ ~active.stopSent =>
         /\ ~Sent("flush") /\ ~Sent("stop")
         /\ child.state = "recording" => ~child.flushed /\ ~child.cutoff
    /\ active.stopSent => Sent("stop") \/ (child.state = "recording" /\ child.cutoff)
    /\ ~active.stopSent /\ rejection = None =>
         ~Sent("freeze") /\ (child.state = "recording" => ~child.frozen)

Cancelling ==
    \/ /\ Sent("cancel") /\ child.state \in {"idle", "prepared", "recording"}
       /\ outbox = <<>> \/ (outbox = <<"prepare">> /\ child.state = "prepared" /\ child.acked)
       /\ child.state = "prepared" /\ Sent("begin") => outbox = <<>> /\ child.acked
    \/ child.state = "cancelling" /\ outbox \in {<<>>, <<"prepare">>}
    \/ /\ child.state = "idle" /\ inbox = <<>>
       /\ outbox \in {<<"cancelled">>, <<"prepare", "cancelled">>}

Sealing ==
    \/ Capturing /\ Sent("settled")
    \/ outbox = <<>> /\ child.state = "recording" /\ child.settled /\ child.cutoff
    \/ outbox = <<>> /\ child.state = "finalizing"
    \/ outbox = <<>> /\ child.state = "committed" /\ disk[active.id] = "committed"
    \/ /\ child.state = "idle" /\ inbox = <<>> /\ outbox = <<"complete">>
       /\ disk[active.id] = "committed"

\* What control waits for, in each phase.
Link ==
    IF active = None \/ pc = "retire" THEN Quiet
    ELSE /\ \A i \in DOMAIN inbox : inbox[i].episode = active.id
         /\ child.state # "idle" => child.id = active.id
         /\ CASE phase = "cancelling" -> Cancelling
              [] phase = "finalizing" -> Sealing
              [] OTHER -> IF active.started THEN Open ELSE Opened

\* The directories that exist are those of the episodes listed or active.
Known(e) == e < Len(completed) \/ (active # None /\ e = active.id)
Numbered ==
    /\ active # None => Len(completed) = (IF pc = "retire" THEN active.id + 1 ELSE active.id)
    /\ \A e \in Episodes : disk[e] # "none" => Known(e)
    /\ \A i \in DOMAIN inbox : Known(inbox[i].episode)
    /\ child.state \notin {"idle", "dead"} => disk[child.id] # "none"
    /\ Len(completed) <= MaxEpisodes

\* Nothing is queued where a queue has to have room.
Drained ==
    Usable("recorder") /\ (active = None \/ phase = "engaging" \/ pc = "retire") => inbox = <<>>

ProtocolInv ==
    /\ ~refused
    /\ Running =>
         /\ Numbered
         /\ Drained
         /\ child.state # "dead" => Chain(inbox) /\ (Usable("recorder") => Link)

-----------------------------------------------------------------------------
(* The books.                                                               *)

BooksInv ==
    /\ OutcomeTruthful
    /\ Running => \A e \in faulted :
         e < Len(completed) \/ (active # None /\ e = active.id /\ active.interrupted)

-----------------------------------------------------------------------------
EpisodeOf(a) == a = None \/ (a \in EpisodeType /\ a.id \in Episodes)
Components == {"motion", "recorder", "readers", "session"}
Places == {"loop", "poll", "retire", "move", "record", "dispose", "key", "closed"}
States == {"needs_home", "homing", "ready", "engaging", "following", "stopping",
           "held", "blocked", "closed"}

\* A command about a numbered episode at the end of the queue leaves a queue
\* of such commands.
LEMMA QueueAppended ==
    ASSUME TypeInv, NEW o \in {"begin", "samples", "flush", "freeze", "stop", "settled", "cancel", "prepare"},
           NEW a, a \in EpisodeType, a.id \in Episodes
    PROVE  /\ Append(inbox, Command(o, a)) \in Seq(CommandType)
           /\ Len(Append(inbox, Command(o, a))) = Len(inbox) + 1
           /\ \A i \in DOMAIN Append(inbox, Command(o, a)) :
                Append(inbox, Command(o, a))[i].episode \in Episodes
<1>1. inbox \in Seq(CommandType) /\ \A i \in DOMAIN inbox : inbox[i].episode \in Episodes
  BY DEF TypeInv, TypeOK
<1>2. Command(o, a) \in CommandType /\ Command(o, a).episode \in Episodes
  BY DEF Command, CommandType, EpisodeType
<1> DEFINE c == Command(o, a)
<1> HIDE DEF c
<1>3. c \in CommandType /\ c.episode \in Episodes
  BY <1>2 DEF c
<1>4. \A i \in 1 .. Len(inbox) : inbox[i].episode \in Episodes
  BY <1>1
<1>5. /\ Append(inbox, c) \in Seq(CommandType)
      /\ Len(Append(inbox, c)) = Len(inbox) + 1
      /\ \A i \in 1 .. Len(inbox) : Append(inbox, c)[i] = inbox[i]
      /\ Append(inbox, c)[Len(inbox) + 1] = c
  BY <1>1, <1>3
<1>6. \A i \in DOMAIN Append(inbox, c) : Append(inbox, c)[i].episode \in Episodes
  BY <1>3, <1>4, <1>5, <1>1
<1> QED BY <1>5, <1>6 DEF c

\* A failure, whatever component it takes away, leaves the data their shape.
LEMMA RejectTypes ==
    ASSUME TypeInv,
           NEW component \in Components, NEW a, EpisodeOf(a), NEW m,
           m \in States,
           NEW hard \in BOOLEAN, NEW quitting \in BOOLEAN,
           RejectCall(component, a, m, hard, quitting),
           outcome' \in [Episodes -> OutcomeType \cup {None}],
           pc' \in Places
    PROVE  TypeInv'
<1>1. CASE rejection = None
  <2>1. BeginRejection(component, a, m, hard, quitting)
    BY <1>1 DEF RejectCall
  <2>2. rejection' \in RejectionType
    BY <2>1 DEF BeginRejection, RejectionType, Lossy, Components, StopUnconfirmed
  <2>3. EpisodeOf(active)'
    BY NoneAssumption, <2>1 DEF BeginRejection, Interrupted, EpisodeOf, EpisodeType, Episodes
  <2>4. faulted' \subseteq Nat
    BY <2>1 DEF BeginRejection, EpisodeOf, Episodes, TypeInv, TypeOK
  <2>5. motion' \in States
    BY <2>1 DEF BeginRejection, MotionAfterReject, States
  <2>6. phase' \in {"review", phase}
    BY <2>1 DEF BeginRejection
  <2>7. /\ inbox' \in Seq(CommandType) /\ Len(inbox') <= Capacity
        /\ \A i \in DOMAIN inbox' : inbox'[i].episode \in Episodes
    <3>1. CASE inbox' = inbox
      BY <3>1 DEF TypeInv, TypeOK
    <3>2. CASE a # None /\ Room /\ inbox' = Append(inbox, Command("freeze", a))
      <4>1. Len(inbox) \in Nat /\ Capacity \in Nat
        BY BoundsAssumption DEF TypeInv, TypeOK
      <4> QED BY <3>2, <4>1, QueueAppended DEF EpisodeOf, Room
    <3> QED BY <2>1, <3>1, <3>2 DEF BeginRejection
  <2> QED BY <2>2, <2>3, <2>4, <2>5, <2>6, <2>7 DEF RejectCall, TypeInv, TypeOK, EpisodeOf, States, Places, childVars
<1>2. CASE rejection # None
  <2>1. ExtendRejection(component, a, m)
    BY <1>2 DEF RejectCall
  <2>2. rejection' \in RejectionType
    BY <2>1, <1>2 DEF ExtendRejection, RejectionType, Lossy, Components, TypeInv, TypeOK
  <2> QED BY <2>1, <2>2 DEF RejectCall, ExtendRejection, TypeInv, TypeOK, EpisodeOf, States, Places, childVars
<1> QED BY <1>1, <1>2

\* What a flush and a stop put into the queue.
Tailed(last, a) == inbox \o [i \in DOMAIN last |-> Command(last[i], a)]

\* What a flush and a stop leave: the old queue with the new commands behind.
LEMMA TailAppended ==
    ASSUME TypeInv, NEW last \in {<<"stop">>, <<"flush", "stop">>},
           NEW a, a \in EpisodeType, a.id \in Episodes
    PROVE  /\ Tailed(last, a) \in Seq(CommandType)
           /\ Len(Tailed(last, a)) = Len(inbox) + Len(last)
           /\ \A i \in 1 .. Len(inbox) : Tailed(last, a)[i] = inbox[i]
           /\ \A i \in 1 .. Len(last) : Tailed(last, a)[Len(inbox) + i] = Command(last[i], a)
           /\ \A i \in DOMAIN Tailed(last, a) : Tailed(last, a)[i].episode \in Episodes
<1> DEFINE more == [i \in DOMAIN last |-> Command(last[i], a)]
           longer == Tailed(last, a)
<1>1. inbox \in Seq(CommandType) /\ \A i \in DOMAIN inbox : inbox[i].episode \in Episodes
  BY DEF TypeInv, TypeOK
<1>2. /\ last \in Seq({"flush", "stop"}) /\ Len(last) \in {1, 2}
      /\ DOMAIN last = 1 .. Len(last)
  <2>1. CASE last = <<"stop">>
    BY <2>1
  <2>2. CASE last = <<"flush", "stop">>
    BY <2>2
  <2> QED BY <2>1, <2>2
<1>3. \A i \in DOMAIN last : more[i] \in CommandType /\ more[i].episode \in Episodes
  BY <1>2 DEF Command, CommandType, EpisodeType
<1>4. more \in Seq(CommandType) /\ Len(more) = Len(last)
  <2>1. more \in [1 .. Len(last) -> CommandType]
    BY <1>2, <1>3
  <2>2. Len(last) \in Nat
    BY <1>2
  <2> HIDE DEF more
  <2> QED BY <2>1, <2>2
<1>5. longer = inbox \o more
  BY DEF Tailed
<1> HIDE DEF more, longer
<1>6. /\ longer \in Seq(CommandType)
      /\ Len(longer) = Len(inbox) + Len(more)
      /\ \A i \in 1 .. Len(inbox) : longer[i] = inbox[i]
      /\ \A i \in 1 .. Len(more) : longer[Len(inbox) + i] = more[i]
  <2>1. inbox \in Seq(CommandType) /\ more \in Seq(CommandType)
    BY <1>1, <1>4
  <2>2. /\ longer \in Seq(CommandType)
        /\ Len(longer) = Len(inbox) + Len(more)
        /\ \A i \in 1 .. Len(inbox) + Len(more) :
             longer[i] = IF i <= Len(inbox) THEN inbox[i] ELSE more[i - Len(inbox)]
    BY <1>5, <2>1, ConcatProperties
  <2>3. \A i \in 1 .. Len(inbox) : longer[i] = inbox[i]
    BY <2>1, <2>2
  <2>4. \A i \in 1 .. Len(more) : longer[Len(inbox) + i] = more[i]
    <3> SUFFICES ASSUME NEW i \in 1 .. Len(more) PROVE longer[Len(inbox) + i] = more[i]
      OBVIOUS
    <3>1. /\ Len(inbox) + i \in 1 .. (Len(inbox) + Len(more))
          /\ ~(Len(inbox) + i <= Len(inbox))
          /\ (Len(inbox) + i) - Len(inbox) = i
      BY <2>1
    <3> QED BY <2>2, <3>1
  <2> QED BY <2>2, <2>3, <2>4
<1>7. \A i \in DOMAIN longer : longer[i].episode \in Episodes
  <2> SUFFICES ASSUME NEW i \in 1 .. Len(longer) PROVE longer[i].episode \in Episodes
    BY <1>6
  <2>1. CASE i <= Len(inbox)
    BY <2>1, <1>1, <1>6
  <2>2. CASE i > Len(inbox)
    <3>1. i - Len(inbox) \in 1 .. Len(more) /\ i = Len(inbox) + (i - Len(inbox))
      BY <2>2, <1>1, <1>4, <1>6
    <3>2. more[i - Len(inbox)].episode \in Episodes
      BY <3>1, <1>2, <1>3, <1>4
    <3> QED BY <3>1, <3>2, <1>6
  <2> QED BY <2>1, <2>2, <1>1
<1> QED
  <2>1. \A i \in 1 .. Len(last) : more[i] = Command(last[i], a)
    BY <1>2 DEF more
  <2> QED BY <1>4, <1>6, <1>7, <2>1 DEF longer

\* Noting the hold leaves the rest of the episode alone.
LEMMA SettledKept ==
    ASSUME TypeInv
    PROVE  /\ EpisodeOf(Settled)
           /\ (Settled = None) <=> (active = None)
           /\ active # None => /\ active \in EpisodeType /\ Settled \in EpisodeType
                               /\ Settled.id = active.id
                               /\ Settled.started = active.started
                               /\ Settled.stopSent = active.stopSent
                               /\ Settled.interrupted = active.interrupted
                               /\ active.settled => Settled.settled
                               /\ (/\ Settled.started
                                   /\ \/ motion = "held" /\ Usable("motion")
                                      \/ rejection # None /\ rejection.stopped)
                                  => Settled.settled
<1>1. EpisodeOf(active)
  BY DEF EpisodeOf, TypeInv, TypeOK
<1>2. CASE active = None
  BY <1>2 DEF Settled, EpisodeOf
<1>3. CASE Settled = active /\ active # None
  <2>1. active \in EpisodeType
    BY <1>1, <1>3 DEF EpisodeOf
  <2>2. (/\ active.started
         /\ \/ motion = "held" /\ Usable("motion")
            \/ rejection # None /\ rejection.stopped) => active.settled
    <3> SUFFICES ASSUME active.started,
                        \/ motion = "held" /\ Usable("motion")
                        \/ rejection # None /\ rejection.stopped
                 PROVE  active.settled
      OBVIOUS
    <3>1. [active EXCEPT !.settled = TRUE] = active
      BY <1>3 DEF Settled
    <3> QED BY <2>1, <3>1 DEF EpisodeType
  <2> QED BY <1>1, <1>3, <2>1, <2>2
<1>4. CASE active # None /\ Settled = [active EXCEPT !.settled = TRUE]
  <2> DEFINE a == [active EXCEPT !.settled = TRUE]
  <2>1. active \in EpisodeType /\ active.id \in Episodes
    BY <1>1, <1>4 DEF EpisodeOf
  <2>2. /\ a \in EpisodeType /\ a.settled
        /\ a.id = active.id /\ a.started = active.started
        /\ a.stopSent = active.stopSent /\ a.interrupted = active.interrupted
    BY <2>1 DEF EpisodeType
  <2> HIDE DEF a
  <2>3. Settled = a
    BY <1>4 DEF a
  <2>4. a # None
    BY <2>2, NoneAssumption
  <2> QED BY <1>4, <2>1, <2>2, <2>3, <2>4 DEF EpisodeOf
<1> QED BY <1>2, <1>3, <1>4 DEF Settled

\* The record of a child that has died is one of a child.
LEMMA DeadShape == DeadChild \in ChildType /\ DeadChild.id \in Episodes
<1>1. 0 \in Episodes
  BY BoundsAssumption DEF Episodes
<1>2. NewChild \in ChildType /\ NewChild.id = 0
  BY DEF NewChild, ChildType
<1> QED BY <1>1, <1>2 DEF DeadChild, ChildType

\* What each command requires of the child, and what it leaves behind.
LEMMA AcceptedBy ==
    ASSUME NEW c \in CommandType
    PROVE  /\ c.operation = "prepare" => (Accepts(c) <=> child.state = "idle" /\ disk[c.episode] = "none")
           /\ c.operation = "begin" => (Accepts(c) <=> child.state = "prepared")
           /\ c.operation = "samples" => (Accepts(c) <=> child.state = "recording" /\ ~child.cutoff /\ ~child.frozen)
           /\ c.operation = "flush" => (Accepts(c) <=> child.state = "recording" /\ ~child.cutoff /\ ~child.flushed)
           /\ c.operation \in {"freeze", "stop"} => (Accepts(c) <=> child.state = "recording")
           /\ c.operation = "settled" => (Accepts(c) <=> child.cutoff)
           /\ c.operation = "cancel" => (Accepts(c) <=> child.state \in {"prepared", "recording"})
<1>1. /\ c.operation = "prepare" => (Accepts(c) <=> child.state = "idle" /\ disk[c.episode] = "none")
      /\ c.operation = "begin" => (Accepts(c) <=> child.state = "prepared")
  BY DEF Accepts
<1>2. c.operation = "samples" => (Accepts(c) <=> child.state = "recording" /\ ~child.cutoff /\ ~child.frozen)
  BY DEF Accepts
<1>3. c.operation = "flush" => (Accepts(c) <=> child.state = "recording" /\ ~child.cutoff /\ ~child.flushed)
  BY DEF Accepts
<1>4. c.operation \in {"freeze", "stop"} => (Accepts(c) <=> child.state = "recording")
  BY DEF Accepts
<1>5. c.operation = "settled" => (Accepts(c) <=> child.cutoff)
  BY DEF Accepts
<1>6. c.operation = "cancel" => (Accepts(c) <=> child.state \in {"prepared", "recording"})
  BY DEF Accepts
<1> QED BY <1>1, <1>2, <1>3, <1>4, <1>5, <1>6

\* The state a command leaves the child in, operation by operation.
LEMMA LeftBy ==
    ASSUME NEW c \in CommandType, child \in ChildType, NEW after, after = ChildAfter(c)
    PROVE  /\ after \in ChildType
           /\ c.operation = "prepare" =>
                after.state = "prepared" /\ after.id = c.episode /\ ~after.acked
           /\ c.operation = "begin" =>
                /\ after.state = "recording" /\ after.id = child.id
                /\ ~after.cutoff /\ ~after.flushed /\ ~after.frozen /\ ~after.settled
           /\ c.operation = "samples" => after = child
           /\ c.operation = "flush" =>
                /\ after.state = child.state /\ after.id = child.id /\ after.flushed
                /\ after.frozen = child.frozen /\ after.cutoff = child.cutoff /\ after.settled = child.settled
           /\ c.operation = "freeze" =>
                /\ after.state = child.state /\ after.id = child.id /\ after.flushed = child.flushed
                /\ after.frozen /\ after.cutoff = child.cutoff /\ after.settled = child.settled
           /\ c.operation = "stop" =>
                /\ after.state = child.state /\ after.id = child.id /\ after.flushed = child.flushed
                /\ after.frozen /\ after.cutoff /\ after.settled = child.settled
           /\ c.operation = "settled" =>
                /\ after.state = child.state /\ after.id = child.id
                /\ after.cutoff = child.cutoff /\ after.settled
           /\ c.operation = "cancel" => after.state = "cancelling" /\ after.id = child.id
<1>1. CASE c.operation = "prepare"
  <2>1. after = [child EXCEPT !.state = "prepared", !.id = c.episode, !.acked = FALSE]
    BY <1>1 DEF ChildAfter
  <2> QED BY <1>1, <2>1 DEF ChildType, CommandType
<1>2. CASE c.operation = "begin"
  <2>1. after = [child EXCEPT !.state = "recording", !.frozen = FALSE, !.flushed = FALSE,
                              !.cutoff = FALSE, !.settled = FALSE]
    BY <1>2 DEF ChildAfter
  <2> QED BY <1>2, <2>1 DEF ChildType
<1>3. CASE c.operation = "samples"
  BY <1>3 DEF ChildAfter
<1>4. CASE c.operation = "flush"
  <2>1. after = [child EXCEPT !.flushed = TRUE]
    BY <1>4 DEF ChildAfter
  <2> QED BY <1>4, <2>1 DEF ChildType
<1>5. CASE c.operation = "freeze"
  <2>1. after = [child EXCEPT !.frozen = TRUE]
    BY <1>5 DEF ChildAfter
  <2> QED BY <1>5, <2>1 DEF ChildType
<1>6. CASE c.operation = "stop"
  <2>1. after = [child EXCEPT !.cutoff = TRUE, !.frozen = TRUE]
    BY <1>6 DEF ChildAfter
  <2> QED BY <1>6, <2>1 DEF ChildType
<1>7. CASE c.operation = "settled"
  <2>1. after = [child EXCEPT !.settled = TRUE]
    BY <1>7 DEF ChildAfter
  <2> QED BY <1>7, <2>1 DEF ChildType
<1>8. CASE c.operation = "cancel"
  <2>1. after = [child EXCEPT !.state = "cancelling", !.frozen = FALSE, !.cutoff = FALSE, !.settled = FALSE]
    BY <1>8 DEF ChildAfter
  <2> QED BY <1>8, <2>1 DEF ChildType
<1>9. c.operation \in {"prepare", "begin", "samples", "flush", "freeze", "stop", "settled", "cancel"}
  BY DEF CommandType
<1> QED BY <1>1, <1>2, <1>3, <1>4, <1>5, <1>6, <1>7, <1>8, <1>9

\* Every step of the session, the child and the signal leaves the data their
\* shape.  The queue is bounded because commands are only sent into Room; the
\* two sent without looking, prepare and begin, rest on Drained.
LEMMA TypeStep ==
    ASSUME TypeInv, ControlInv, ProtocolInv, [Next]_vars
    PROVE  TypeInv'
<1>0. ASSUME NEW a, a \in EpisodeType, NEW verified \in BOOLEAN
      PROVE  Append(completed, Entry(a, verified)) \in Seq(EntryType)
  <2>1. Entry(a, verified) \in EntryType
    BY <1>0 DEF Entry, EntryType, EpisodeType, Disposition
  <2> QED BY <2>1 DEF TypeInv, TypeOK
<1>1. CASE UNCHANGED vars
  BY <1>1 DEF TypeInv, TypeOK, vars, loopVars, childVars, historyVars
<1>2. CASE Loop \/ PollNothing \/ NoKey \/ RecordIdle
  BY <1>2 DEF Loop, PollNothing, NoKey, RecordIdle, TypeInv, TypeOK, loopVars, childVars, historyVars
<1>3. ASSUME NEW a, EpisodeOf(a), CloseWith(a), faulted' \subseteq Nat
      PROVE  TypeInv'
  <2>1. completed' \in Seq(EntryType)
    <3>1. completed' = IF a = None THEN completed ELSE Append(completed, Entry(a, FALSE))
      BY <1>3 DEF CloseWith
    <3>2. CASE a = None
      BY <3>1, <3>2 DEF TypeInv, TypeOK
    <3>3. CASE a # None
      BY <1>0, <1>3, <3>1, <3>3 DEF EpisodeOf
    <3> QED BY <3>2, <3>3
  <2>2. disk' \in [Episodes -> {"none", "partial", "committed"}]
    BY <1>3 DEF CloseWith, TypeInv, TypeOK
  <2>3. outcome' \in [Episodes -> OutcomeType \cup {None}]
    BY <1>3 DEF CloseWith, Sidecars, OutcomeType, TypeInv, TypeOK
  <2>4. child' \in ChildType /\ child'.id \in Episodes
    BY <1>3, DeadShape DEF CloseWith
  <2>5. inbox' \in Seq(CommandType) /\ Len(inbox') <= Capacity /\ Len(inbox') = 0
        /\ outbox' \in Seq({"prepare", "cancelled", "complete"})
    BY <1>3, BoundsAssumption DEF CloseWith
  <2>6. /\ pc' = "closed" /\ active' = None /\ phase' \in {phase, "resolving"}
        /\ motion' = "closed" /\ UNCHANGED <<quit, rejection, refused>>
        /\ inbox' = <<>>
    BY <1>3 DEF CloseWith
  <2> QED BY <1>3, <2>1, <2>2, <2>3, <2>4, <2>5, <2>6 DEF TypeInv, TypeOK
<1>4. CASE CloseDone
  BY <1>3, <1>4 DEF CloseDone, EpisodeOf, TypeInv, TypeOK
<1>5. CASE Interrupt
  <2>1. EpisodeOf(Interrupted(active))
    BY DEF Interrupted, EpisodeOf, EpisodeType, TypeInv, TypeOK
  <2>2. faulted' \subseteq Nat
    BY <1>5 DEF Interrupt, EpisodeType, TypeInv, TypeOK
  <2> QED BY <1>3, <1>5, <2>1, <2>2 DEF Interrupt
<1>6. EpisodeOf(active) /\ outcome \in [Episodes -> OutcomeType \cup {None}]
      /\ motion \in States
      /\ quit \in BOOLEAN
  BY DEF EpisodeOf, States, TypeInv, TypeOK
<1>7. CASE PollFails \/ ReadFails \/ \E hard \in BOOLEAN : MoveFails(hard) \/ KeyHomeFails(hard)
  <2>1. pc' \in Places
    BY <1>7 DEF PollFails, ReadFails, MoveFails, KeyHomeFails, Key, Places, TypeInv, TypeOK
  <2>2. "recorder" \in Components /\ "readers" \in Components /\ "motion" \in Components /\ "session" \in Components
    BY DEF Components
  <2> QED BY <1>6, <1>7, <2>1, <2>2, RejectTypes
       DEF PollFails, ReadFails, MoveFails, KeyHomeFails, Key, Reject, RejectWith

<1>8. CASE ReplyPrepared \/ ReplyPreparedLate
  <2>1. outbox' \in Seq({"prepare", "cancelled", "complete"})
    <3>1. outbox # <<>> /\ outbox' = Tail(outbox)
      BY <1>8 DEF ReplyPrepared, ReplyPreparedLate, Reply
    <3> QED BY <3>1 DEF TypeInv, TypeOK
  <2>2. CASE ReplyPrepared
    BY <2>1, <2>2 DEF ReplyPrepared, Reply, TypeInv, TypeOK, loopVars, historyVars
  <2>3. CASE ReplyPreparedLate
    BY <2>1, <2>3 DEF ReplyPreparedLate, Reply, TypeInv, TypeOK, loopVars, historyVars
  <2> QED BY <1>8, <2>2, <2>3
<1>10. CASE ReplyCancelled
  <2>1. outbox' \in Seq({"prepare", "cancelled", "complete"})
    BY <1>10 DEF ReplyCancelled, Reply, TypeInv, TypeOK
  <2>2. active \in EpisodeType
    BY <1>6, <1>10 DEF ReplyCancelled, Reply, ControlInv, EpisodeShape, Running, EpisodeOf, Unoccupied
  <2> QED BY <1>0, <1>10, <2>1, <2>2 DEF ReplyCancelled, Partial, Reply, TypeInv, TypeOK, historyVars
<1>11. ASSUME Reply("complete"), phase = "finalizing"
       PROVE  /\ active \in EpisodeType
              /\ WithOutcome(active) \in [Episodes -> OutcomeType \cup {None}]
              /\ Tail(outbox) \in Seq({"prepare", "cancelled", "complete"})
  <2>1. active \in EpisodeType
    BY <1>6, <1>11 DEF Reply, ControlInv, EpisodeShape, Running, EpisodeOf, Unoccupied
  <2>2. [disposition |-> Disposition(active), verified |-> TRUE] \in OutcomeType
    BY <2>1 DEF Disposition, OutcomeType
  <2>3. WithOutcome(active) \in [Episodes -> OutcomeType \cup {None}]
    BY <1>6, <2>2 DEF WithOutcome
  <2> QED BY <1>11, <2>1, <2>3 DEF Reply, TypeInv, TypeOK
<1>12. CASE ReplyComplete
  BY <1>0, <1>11, <1>12 DEF ReplyComplete, TypeInv, TypeOK, historyVars
<1>13. CASE ReplyCompleteFails
  <2>1. outcome' \in [Episodes -> OutcomeType \cup {None}] /\ pc' \in Places
    BY <1>6, <1>11, <1>13 DEF ReplyCompleteFails, Places
  <2>2. "recorder" \in Components
    BY DEF Components
  <2> QED BY <1>6, <1>13, <2>1, <2>2, RejectTypes DEF ReplyCompleteFails
<1>14. CASE Retire \/ RetirePartial
  BY <1>14 DEF Retire, RetirePartial, TypeInv, TypeOK, childVars, historyVars
<1>15. CASE MoveOn
  BY <1>15 DEF MoveOn, MotionMay, TypeInv, TypeOK, childVars, historyVars
<1>16. CASE Observe
  <2>1. rejection \in RejectionType
    BY <1>16 DEF Observe, Usable, Unavailable, TypeInv, TypeOK
  <2>2. rejection' \in RejectionType
    BY <1>16, <2>1 DEF Observe, RejectionType, Usable
  <2> QED BY <1>16, <2>2 DEF Observe, TypeInv, TypeOK, childVars, historyVars
<1>17. CASE Overdue
  <2>1. rejection' \in RejectionType
    BY <1>17 DEF Overdue, RejectionType, TypeInv, TypeOK
  <2> QED BY <1>17, <2>1 DEF Overdue, TypeInv, TypeOK, childVars, historyVars
<1>18. ASSUME Running, active # None
       PROVE  active \in EpisodeType /\ active.id \in Episodes
  BY <1>6, <1>18 DEF EpisodeOf
<1>19. ASSUME Running, phase \notin Unoccupied
       PROVE  active # None
  BY <1>19 DEF ControlInv, EpisodeShape
<1>20. ASSUME Running, phase \in {"idle", "engaging"}
       PROVE  inbox = <<>> /\ rejection = None
  <2>1. rejection = None
    BY <1>20 DEF ControlInv, RejectionShape, Rejected
  <2> QED BY <1>20, <2>1 DEF Usable, Unavailable, ProtocolInv, Drained, ControlInv, EpisodeShape, Occupied, Opening
<1>21. Capacity \in Nat /\ Capacity >= 1 /\ inbox \in Seq(CommandType) /\ Len(inbox) <= Capacity
  BY BoundsAssumption DEF TypeInv, TypeOK
<1>22. CASE Begin
  <2>1. Running /\ phase = "engaging"
    BY <1>22 DEF Begin, Running
  <2>2. active \in EpisodeType /\ active.id \in Episodes /\ inbox = <<>>
    BY <1>18, <1>19, <1>20, <2>1 DEF Unoccupied
  <2>3. Started \in EpisodeType /\ Started.id = active.id
    BY <2>2 DEF Started, EpisodeType
  <2>4. /\ inbox' \in Seq(CommandType) /\ Len(inbox') <= Capacity
        /\ \A i \in DOMAIN inbox' : inbox'[i].episode \in Episodes
    BY <1>21, <1>22, <2>2, QueueAppended DEF Begin, Send
  <2> QED BY <1>22, <2>2, <2>3, <2>4 DEF Begin, TypeInv, TypeOK, childVars, historyVars
<1>23. CASE Record
  <2>1. Running /\ phase = "recording"
    BY <1>23 DEF Record, Running
  <2>2. active \in EpisodeType /\ active.id \in Episodes
    BY <1>18, <1>19, <2>1 DEF Unoccupied
  <2>3. CASE Room /\ Send("samples", active) /\ UNCHANGED <<loopVars, childVars, outcome, historyVars>>
    <3>1. /\ inbox' \in Seq(CommandType) /\ Len(inbox') <= Capacity
          /\ \A i \in DOMAIN inbox' : inbox'[i].episode \in Episodes
      BY <1>21, <2>2, <2>3, QueueAppended DEF Send, Room
    <3> QED BY <1>23, <2>3, <3>1 DEF Record, TypeInv, TypeOK, loopVars, childVars, historyVars
  <2>4. CASE UNCHANGED <<loopVars, inbox, childVars, outcome, historyVars>>
    BY <1>23, <2>4 DEF Record, TypeInv, TypeOK, loopVars, childVars, historyVars
  <2>5. CASE Reject("recorder")
    <3>1. pc' \in Places /\ "recorder" \in Components
      BY <1>23 DEF Record, Places, Components
    <3> QED BY <1>6, <2>5, <3>1, RejectTypes DEF Reject, RejectWith
  <2> QED BY <1>23, <2>3, <2>4, <2>5 DEF Record
<1>24. EpisodeOf(Settled)
  BY SettledKept
<1>25. CASE TailWaits
  BY <1>24, <1>25 DEF TailWaits, EpisodeOf, TypeInv, TypeOK, childVars, historyVars
<1>26. CASE TailCloses
  <2>1. active \in EpisodeType /\ active.id \in Episodes
    BY <1>6, <1>26 DEF TailCloses, MayFlush, EpisodeOf
  <2>2. PICK last \in {<<"stop">>, <<"flush", "stop">>} :
           IF Len(inbox) + Len(last) <= Capacity
           THEN /\ inbox' = Tailed(last, active)
                /\ active' = [Settled EXCEPT !.stopSent = TRUE]
                /\ UNCHANGED <<phase, completed, quit, rejection, motion, childVars,
                               outcome, historyVars>>
           ELSE RejectWith("recorder", Settled, motion, FALSE, quit)
    BY <1>26 DEF TailCloses, Tailed
  <2>3. CASE Len(inbox) + Len(last) <= Capacity
    <3> DEFINE longer == Tailed(last, active)
    <3>0. /\ longer \in Seq(CommandType) /\ Len(longer) = Len(inbox) + Len(last)
          /\ \A i \in DOMAIN longer : longer[i].episode \in Episodes
      BY <2>1, TailAppended
    <3>1. /\ inbox' \in Seq(CommandType) /\ Len(inbox') <= Capacity
          /\ \A i \in DOMAIN inbox' : inbox'[i].episode \in Episodes
      <4>1. inbox' = longer
        BY <2>2, <2>3
      <4> HIDE DEF longer
      <4> QED BY <3>0, <4>1, <2>3
    <3>2. active' \in EpisodeType /\ active'.id = active.id
      BY <2>1, <2>2, <2>3 DEF Settled, EpisodeType
    <3> QED BY <1>26, <2>1, <2>2, <2>3, <3>1, <3>2 DEF TailCloses, TypeInv, TypeOK, childVars, historyVars
  <2>4. CASE ~(Len(inbox) + Len(last) <= Capacity)
    <3>1. pc' \in Places /\ "recorder" \in Components
      BY <1>26 DEF TailCloses, Places, Components
    <3> QED BY <1>6, <1>24, <2>2, <2>4, <3>1, RejectTypes DEF RejectWith
  <2> QED BY <2>3, <2>4
<1>27. CASE Resolve
  BY <1>27 DEF Resolve, ResolvedTo, TypeInv, TypeOK, childVars, historyVars
<1>28. CASE Dispose
  <2>1. Running /\ pc' \in Places /\ "recorder" \in Components
    BY <1>28 DEF Dispose, Running, Places, Components
  <2>2. CASE active # None /\ Finalize
    <3>1. CASE Room
      <4>1. /\ inbox' \in Seq(CommandType) /\ Len(inbox') <= Capacity
            /\ \A i \in DOMAIN inbox' : inbox'[i].episode \in Episodes
        BY <1>18, <1>21, <2>1, <2>2, <3>1, QueueAppended DEF Finalize, Send, Room
      <4> QED BY <1>28, <2>2, <3>1, <4>1 DEF Dispose, Finalize, TypeInv, TypeOK, childVars, historyVars
    <3>2. CASE ~Room
      BY <1>6, <2>1, <2>2, <3>2, RejectTypes DEF Finalize, Reject, RejectWith
    <3> QED BY <3>1, <3>2
  <2>3. CASE UNCHANGED <<loopVars, inbox, childVars, outcome, historyVars>>
    BY <1>28, <2>3 DEF Dispose, TypeInv, TypeOK, loopVars, childVars, historyVars
  <2>4. CASE ResolvedTo("resolving")
    BY <1>28, <2>4 DEF Dispose, ResolvedTo, TypeInv, TypeOK, childVars, historyVars
  <2>5. ASSUME active # None, rejection # None, NEW choice \in {None, "save", "abort"}
        PROVE  /\ [rejection EXCEPT !.choice = choice] \in RejectionType
               /\ Cancel(choice) => TypeInv'
    <3>1. /\ [rejection EXCEPT !.choice = choice] \in RejectionType
          /\ [rejection EXCEPT !.choice = choice, !.unavailable = @ \cup {"recorder"}] \in RejectionType
      BY <2>5 DEF RejectionType, Lossy, TypeInv, TypeOK
    <3>2. active \in EpisodeType /\ active.id \in Episodes
      BY <1>18, <2>1, <2>5
    <3>3. Append(completed, Entry(active, FALSE)) \in Seq(EntryType)
      BY <1>0, <3>2
    <3>4. Room => /\ Append(inbox, Command("cancel", active)) \in Seq(CommandType)
                  /\ Len(Append(inbox, Command("cancel", active))) <= Capacity
                  /\ \A i \in DOMAIN Append(inbox, Command("cancel", active)) :
                       Append(inbox, Command("cancel", active))[i].episode \in Episodes
      BY <1>21, <3>2, QueueAppended DEF Room
    <3>5. CASE Cancel(choice) /\ ~Usable("recorder")
      BY <1>28, <3>1, <3>3, <3>5 DEF Dispose, Cancel, Partial, TypeInv, TypeOK, childVars, historyVars
    <3>6. CASE Cancel(choice) /\ Usable("recorder") /\ Room
      BY <1>28, <3>1, <3>2, <3>4, <3>6 DEF Dispose, Cancel, Send, TypeInv, TypeOK, childVars, historyVars
    <3>7. CASE Cancel(choice) /\ Usable("recorder") /\ ~Room
      BY <1>28, <3>1, <3>7 DEF Dispose, Cancel, TypeInv, TypeOK, childVars, historyVars
    <3> QED BY <3>1, <3>5, <3>6, <3>7
  <2>6. CASE active # None /\ rejection # None /\ Unverifiable
    <3>1. CASE quit
      BY <2>5, <2>6, <3>1 DEF Unverifiable
    <3>2. CASE ~quit
      BY <1>28, <2>5, <2>6, <3>2 DEF Unverifiable, Dispose, TypeInv, TypeOK, childVars, historyVars
    <3> QED BY <3>1, <3>2
  <2>7. CASE phase = "review" /\ Review
    <3>1. rejection # None /\ rejection.choice \in {None, "save", "abort"}
      BY <2>1, <2>7 DEF ControlInv, RejectionShape, Unrejected, TypeInv, TypeOK, RejectionType
    <3> QED BY <2>2, <2>3, <2>4, <2>5, <2>6, <2>7, <3>1 DEF Review
  <2>8. phase = "stopping" => active # None
    BY <1>19, <2>1 DEF Unoccupied
  <2> QED BY <1>28, <2>2, <2>3, <2>7, <2>8 DEF Dispose
<1>29. CASE \E choice \in {"save", "abort"} : KeyReview(choice)
  <2>1. Running /\ rejection # None
    BY <1>29 DEF KeyReview, Key, Running, ControlInv, RejectionShape, Unrejected
  <2>2. rejection' \in RejectionType
    BY <1>29, <2>1 DEF KeyReview, RejectionType, TypeInv, TypeOK
  <2> QED BY <1>29, <2>2 DEF KeyReview, Key, TypeInv, TypeOK, childVars, historyVars
<1>30. ASSUME Running, phase = "recording",
              NEW reason \in {"space", "fail", "abort", "session_end"}
       PROVE  /\ [active EXCEPT !.reason = reason, !.cutoff = TRUE] \in EpisodeType
              /\ [active EXCEPT !.reason = reason, !.cutoff = TRUE].id \in Episodes
              /\ EpisodeOf([active EXCEPT !.reason = reason])
  <2>1. active \in EpisodeType /\ active.id \in Episodes
    BY <1>18, <1>19, <1>30 DEF Unoccupied
  <2> QED BY <2>1 DEF EpisodeType, EpisodeOf
<1>31. CASE \E reason \in {"space", "fail", "abort"} : KeyStop(reason)
  <2>1. Running /\ phase = "recording"
    BY <1>31 DEF KeyStop, Key, Running
  <2> QED BY <1>30, <1>31, <2>1 DEF KeyStop, Key, Stop, TypeInv, TypeOK, childVars, historyVars
<1>32. CASE \E reason \in {"space", "fail", "abort"} : KeyStopFails(reason)
  <2>1. Running /\ phase = "recording" /\ pc' \in Places /\ "session" \in Components
    BY <1>32 DEF KeyStopFails, Key, Running, Places, Components
  <2>2. PICK reason \in {"space", "fail", "abort"} : KeyStopFails(reason)
    BY <1>32
  <2>3. EpisodeOf([active EXCEPT !.reason = reason])
    BY <1>30, <2>1
  <2> QED BY <1>6, <2>1, <2>2, <2>3, RejectTypes DEF KeyStopFails, RejectWith
<1>33. CASE KeyEngage \/ KeyHome
  BY <1>33 DEF KeyEngage, KeyHome, Key, TypeInv, TypeOK, childVars, historyVars
<1>34. CASE KeyPrepare
  <2>1. Running /\ inbox = <<>>
    BY <1>20, <1>34 DEF KeyPrepare, Key, Running
  <2>2. NewEpisode \in EpisodeType /\ NewEpisode.id \in Episodes
    <3>1. Len(completed) \in Nat
      BY DEF TypeInv, TypeOK
    <3> QED BY <1>34, <3>1, BoundsAssumption DEF KeyPrepare, NewEpisode, EpisodeType, Episodes
  <2>3. /\ inbox' \in Seq(CommandType) /\ Len(inbox') <= Capacity
        /\ \A i \in DOMAIN inbox' : inbox'[i].episode \in Episodes
    BY <1>21, <1>34, <2>1, <2>2, QueueAppended DEF KeyPrepare, Send
  <2> QED BY <1>34, <2>2, <2>3 DEF KeyPrepare, Key, TypeInv, TypeOK, childVars, historyVars
<1>35. CASE KeyQuit
  <2>1. Running
    BY <1>35 DEF KeyQuit, Key, Running
  <2>2. rejection # None => [rejection EXCEPT !.choice = "save"] \in RejectionType
    BY DEF RejectionType, TypeInv, TypeOK
  <2>3. phase \in {"preparing", "engaging"} =>
          /\ [active EXCEPT !.reason = "session_end"] \in EpisodeType
          /\ [active EXCEPT !.reason = "session_end"].id \in Episodes
    BY <1>18, <1>19, <2>1 DEF Unoccupied, EpisodeType
  <2>4. CASE rejection # None
    <3>1. /\ quit' = TRUE /\ pc' = "loop"
          /\ rejection' = rejection \/ rejection' = [rejection EXCEPT !.choice = "save"]
          /\ UNCHANGED <<phase, active, completed, motion, inbox, outbox, child, disk,
                         outcome, faulted, refused>>
      BY <1>35, <2>4 DEF KeyQuit, Key, childVars, historyVars
    <3>2. rejection' \in RejectionType \cup {None}
      BY <2>2, <2>4, <3>1 DEF TypeInv, TypeOK
    <3> QED BY <3>1, <3>2 DEF TypeInv, TypeOK
  <2>5. CASE rejection = None /\ phase = "recording"
    BY <1>30, <1>35, <2>1, <2>5 DEF KeyQuit, Key, Stop, TypeInv, TypeOK, childVars, historyVars
  <2>6. CASE rejection = None /\ phase \in {"preparing", "engaging"} /\ motion # "homing"
    <3>1. /\ quit' = TRUE /\ pc' = "loop" /\ phase' = "closing"
          /\ active' = [active EXCEPT !.reason = "session_end"]
          /\ UNCHANGED <<completed, rejection, motion, inbox, outbox, child, disk,
                         outcome, faulted, refused>>
      BY <1>35, <2>6 DEF KeyQuit, Key, childVars, historyVars
    <3>2. active' \in EpisodeType /\ active'.id \in Episodes
      BY <2>3, <2>6, <3>1
    <3> QED BY <3>1, <3>2 DEF TypeInv, TypeOK
  <2>7. CASE /\ rejection = None /\ phase # "recording"
             /\ ~(phase \in {"preparing", "engaging"} /\ motion # "homing")
    <3>1. /\ quit' = TRUE /\ pc' = "loop" /\ motion' \in {motion, "stopping"}
          /\ UNCHANGED <<phase, active, completed, rejection, inbox, outbox, child, disk,
                         outcome, faulted, refused>>
      <4>1. CASE motion = "homing"
        BY <1>35, <2>7, <4>1 DEF KeyQuit, Key, childVars, historyVars
      <4>2. CASE motion # "homing"
        BY <1>35, <2>7, <4>2 DEF KeyQuit, Key, childVars, historyVars
      <4> QED BY <4>1, <4>2
    <3> QED BY <3>1 DEF TypeInv, TypeOK
  <2> QED BY <2>4, <2>5, <2>6, <2>7
<1>36. CASE KeyQuitFails
  <2> DEFINE a == IF phase = "recording" THEN [active EXCEPT !.reason = "session_end"] ELSE active
  <2>1. Running /\ pc' \in Places /\ "session" \in Components
    BY <1>36 DEF KeyQuitFails, Key, Running, Places, Components
  <2>2. EpisodeOf(a)
    BY <1>6, <1>30, <2>1
  <2> QED BY <1>6, <1>36, <2>1, <2>2, RejectTypes DEF KeyQuitFails, RejectWith
<1>37. CASE ChildTakes
  <2> DEFINE c == inbox[1]
  <2>1. /\ c \in CommandType /\ c.episode \in Episodes /\ Head(inbox) = c
        /\ inbox' = Tail(inbox)
        /\ inbox' \in Seq(CommandType) /\ Len(inbox') <= Capacity
        /\ \A i \in DOMAIN inbox' : inbox'[i].episode \in Episodes
    <3>1. inbox # <<>> /\ inbox' = Tail(inbox)
      BY <1>37 DEF ChildTakes
    <3>2. Len(inbox) >= 1 /\ Head(inbox) = c
      BY <1>21, <3>1
    <3>3. /\ \A i \in 1 .. Len(inbox) : inbox[i].episode \in Episodes
          /\ Len(inbox') = Len(inbox) - 1 /\ inbox' \in Seq(CommandType)
      BY <1>21, <3>1 DEF TypeInv
    <3>4. \A i \in 1 .. Len(inbox') : i + 1 \in 1 .. Len(inbox) /\ inbox'[i] = inbox[i + 1]
      BY <1>21, <3>1, <3>3
    <3> QED BY <1>21, <3>1, <3>2, <3>3, <3>4
  <2> HIDE DEF c
  <2>2. child' \in ChildType /\ child'.id \in Episodes
    <3> DEFINE after == ChildAfter(c)
    <3>0. c.operation \in {"prepare", "begin", "samples", "flush", "freeze", "stop", "settled", "cancel"}
          /\ child \in ChildType /\ child.id \in Episodes
      BY <2>1 DEF CommandType, TypeInv, TypeOK
    <3> HIDE DEF after
    <3>1. after \in ChildType /\ after.id \in Episodes
      BY <2>1, <3>0, LeftBy DEF after
    <3> USE DEF after
    <3> QED BY <1>37, <2>1, <3>1, DeadShape DEF ChildTakes
  <2>3. /\ disk' \in [Episodes -> {"none", "partial", "committed"}] /\ refused' \in BOOLEAN
        /\ UNCHANGED <<pc, phase, active, completed, quit, rejection, motion, outbox, outcome, faulted>>
    BY <1>37 DEF ChildTakes, TypeInv, TypeOK, loopVars
  <2> QED BY <2>1, <2>2, <2>3 DEF TypeInv, TypeOK
<1>38. CASE ChildAcks \/ ChildReports
  <2>1. outbox' \in Seq({"prepare", "cancelled", "complete"})
    <3>1. PICK reply \in {"prepare", "cancelled", "complete"} : outbox' = Append(outbox, reply)
      BY <1>38 DEF ChildAcks, ChildReports
    <3> QED BY <3>1 DEF TypeInv, TypeOK
  <2>2. child' \in ChildType /\ child'.id \in Episodes
    BY <1>38 DEF ChildAcks, ChildReports, ChildType, TypeInv, TypeOK
  <2> QED BY <1>38, <2>1, <2>2 DEF ChildAcks, ChildReports, TypeInv, TypeOK, loopVars, historyVars
<1>39. CASE ChildFinalizes \/ ChildCommits \/ ChildDies
  <2>1. child' \in ChildType /\ child'.id \in Episodes
    <3>1. CASE ChildFinalizes \/ ChildCommits
      BY <3>1 DEF ChildFinalizes, ChildCommits, ChildType, TypeInv, TypeOK
    <3>2. CASE ChildDies
      BY <3>2, DeadShape DEF ChildDies
    <3> QED BY <1>39, <3>1, <3>2
  <2> QED BY <1>39, <2>1 DEF ChildFinalizes, ChildCommits, ChildDies, TypeInv, TypeOK, loopVars, historyVars
<1> QED
  BY <1>1, <1>2, <1>4, <1>5, <1>7, <1>8, <1>10, <1>12, <1>13, <1>14, <1>15, <1>16, <1>17, <1>22,
     <1>23, <1>25, <1>26, <1>27, <1>28, <1>29, <1>31, <1>32, <1>33, <1>34, <1>35, <1>36, <1>37,
     <1>38, <1>39
  DEF Next, Control, Step, Poll, Move, Phases, Keys, Child

-----------------------------------------------------------------------------
\* A failure leaves the phase, the episode and the motion in agreement: the
\* shared code of every action that rejects.
LEMMA RejectControl ==
    ASSUME TypeInv, ControlInv, Running,
           NEW component \in Components, NEW a, EpisodeOf(a),
           NEW hard \in BOOLEAN, NEW quitting \in BOOLEAN,
           RejectCall(component, a, motion, hard, quitting),
           (a = None) <=> (active = None),
           a # None => /\ a.started = active.started
                       /\ a.stopSent = active.stopSent
                       /\ active.settled => a.settled,
           pc' \notin {"retire", "closed"},
           pc' = "dispose" =>
             /\ component = "recorder"
             /\ (/\ a # None /\ a.started
                 /\ \/ motion = "held" /\ Usable("motion")
                    \/ rejection # None /\ rejection.stopped)
                => a.settled
    PROVE  ControlInv'
<1>1. CASE rejection = None
  <2>1. BeginRejection(component, a, motion, hard, quitting)
    BY <1>1 DEF RejectCall
  <2>2. /\ active' = IF a = None THEN None
                     ELSE [Interrupted(a) EXCEPT !.cutoff = @ \/ a.started]
        /\ phase' = IF phase = "finalizing" /\ component # "recorder" THEN phase ELSE "review"
    BY <2>1 DEF BeginRejection
  <2>3. /\ rejection' \in RejectionType /\ rejection' # None /\ ~rejection'.stopped
        /\ Usable("motion")' => /\ motion' \in {"stopping", "held"}
                                /\ motion' = "held" <=> motion = "held"
    <3>1. rejection' \in RejectionType /\ ~rejection'.stopped
      BY <2>1 DEF BeginRejection, RejectionType, Lossy, Components, StopUnconfirmed
    <3>2. PICK stopped \in BOOLEAN :
            /\ StopUnconfirmed(motion, hard, stopped) => "motion" \in rejection'.unavailable
            /\ motion' = MotionAfterReject(motion, hard, stopped)
      BY <2>1 DEF BeginRejection
    <3>3. rejection' # None
      BY NoneAssumption, <3>1
    <3>4. Usable("motion")' => "motion" \notin rejection'.unavailable
      BY <3>3 DEF Usable, Unavailable
    <3>5. Usable("motion")' => ~hard /\ (motion \in {"stopping", "held"} \/ stopped)
      BY <3>2, <3>4 DEF StopUnconfirmed
    <3>6. Usable("motion")' => motion' = IF motion \in {"stopping", "held"} THEN motion ELSE "stopping"
      <4>1. ASSUME ~hard, motion \in {"stopping", "held"}
            PROVE  motion' = motion
        BY <3>2, <4>1 DEF MotionAfterReject
      <4>2. ASSUME ~hard, motion \notin {"stopping", "held"}, stopped
            PROVE  motion' = "stopping"
        BY <3>2, <4>2 DEF MotionAfterReject
      <4> QED BY <3>5, <4>1, <4>2
    <3> QED BY <3>1, <3>3, <3>6
  <2>4. /\ (active = None) <=> (active' = None)
        /\ a # None => /\ active'.started = a.started /\ active'.stopSent = a.stopSent
                       /\ active'.settled = a.settled
    <3>1. a # None => active' \in EpisodeType
      BY <2>2 DEF EpisodeOf, EpisodeType, Interrupted
    <3> QED BY NoneAssumption, <2>2, <3>1 DEF EpisodeOf, EpisodeType, Interrupted
  <2>5. Usable("motion")
    BY <1>1 DEF Usable, Unavailable
  <2>6. EpisodeShape'
    BY <2>2, <2>4 DEF ControlInv, EpisodeShape, Opening, Occupied, Unoccupied
  <2>7. RejectionShape'
    BY <2>2, <2>3 DEF RejectionShape, Rejected
  <2>8. Usable("motion")' => motion' \in Motions'
    BY <2>2, <2>3, <2>5 DEF ControlInv, Motions
  <2>9. PlaceShape'
    BY <2>2, <2>3, <2>4, <2>5 DEF PlaceShape
  <2> QED BY <2>6, <2>7, <2>8, <2>9 DEF ControlInv
<1>2. CASE rejection # None
  <2>1. ExtendRejection(component, a, motion)
    BY <1>2 DEF RejectCall
  <2>2. /\ active' = a /\ motion' = motion
        /\ phase' = IF component = "recorder" THEN "review" ELSE phase
    BY <2>1 DEF ExtendRejection
  <2>3. /\ rejection' \in RejectionType /\ rejection' # None
        /\ rejection'.stopped = rejection.stopped
        /\ Usable("motion")' => Usable("motion")
        /\ component = "recorder" => (Usable("motion")' <=> Usable("motion"))
    <3>1. rejection' \in RejectionType /\ rejection'.stopped = rejection.stopped
          /\ rejection'.unavailable = rejection.unavailable \cup ({component} \cap Lossy)
      BY <2>1, <1>2 DEF ExtendRejection, RejectionType, Lossy, Components, TypeInv, TypeOK
    <3> QED BY NoneAssumption, <1>2, <3>1 DEF Usable, Unavailable
  <2>4. phase \in Rejected
    BY <1>2 DEF ControlInv, RejectionShape
  <2>5. EpisodeShape'
    BY <2>2 DEF ControlInv, EpisodeShape, Opening, Occupied, Unoccupied
  <2>6. RejectionShape'
    BY <1>2, <2>2, <2>3, <2>4 DEF ControlInv, RejectionShape, Rejected
  <2>7. Usable("motion")' => motion' \in Motions'
    BY <2>2, <2>3, <2>4 DEF ControlInv, Motions, Rejected
  <2>8. PlaceShape'
    BY <1>2, <2>2, <2>3, <2>4 DEF PlaceShape, Rejected
  <2> QED BY <2>5, <2>6, <2>7, <2>8 DEF ControlInv
<1> QED BY <1>1, <1>2

\* Every step leaves the phase, the episode, the rejection and the motion in
\* agreement.
LEMMA ControlStep ==
    ASSUME TypeInv, ControlInv, TypeInv', [Next]_vars
    PROVE  ControlInv'
<1>1. CASE UNCHANGED vars
  BY <1>1 DEF ControlInv, EpisodeShape, RejectionShape, Motions, PlaceShape, Usable, Unavailable,
              Running, vars, loopVars
<1>2. CASE Child
  <2>1. UNCHANGED <<pc, loopVars>>
    BY <1>2 DEF Child, ChildTakes, ChildAcks, ChildFinalizes, ChildCommits, ChildReports, ChildDies
  <2> QED BY <2>1 DEF ControlInv, EpisodeShape, RejectionShape, Motions, PlaceShape, Usable,
                      Unavailable, Running, loopVars
<1>3. CASE CloseDone \/ Interrupt
  BY <1>3 DEF CloseDone, Interrupt, CloseWith, ControlInv, Running
<1>4. CASE Loop \/ PollNothing \/ ReplyPreparedLate \/ NoKey \/ RecordIdle
  <2>1. Running /\ UNCHANGED loopVars /\ pc' \in {"poll", "move", "loop", "key"}
        /\ (phase = "closing" => pc' = "loop")
        /\ ~(pc = "record" /\ phase = "engaging" /\ motion = "following")
    BY <1>4 DEF Loop, PollNothing, ReplyPreparedLate, Reply, NoKey, RecordIdle, Running, Done,
                ControlInv, PlaceShape, Motions, RejectionShape, Rejected, EpisodeShape
  <2>2. EpisodeShape' /\ RejectionShape'
    BY <2>1 DEF ControlInv, EpisodeShape, RejectionShape, Usable, Unavailable, loopVars
  <2>3. Usable("motion")' => motion' \in Motions'
    BY <2>1 DEF ControlInv, Motions, Usable, Unavailable, loopVars
  <2>4. PlaceShape'
    BY <2>1 DEF ControlInv, PlaceShape, loopVars
  <2> QED BY <2>2, <2>3, <2>4 DEF ControlInv
<1>5. EpisodeOf(active) /\ quit \in BOOLEAN
      /\ (rejection = None \/ rejection \in RejectionType)
  BY DEF EpisodeOf, TypeInv, TypeOK
<1>6. "recorder" \in Components /\ "readers" \in Components /\ "motion" \in Components
      /\ "session" \in Components
  BY DEF Components
<1>7. CASE PollFails \/ ReadFails \/ ReplyCompleteFails \/ \E hard \in BOOLEAN : MoveFails(hard) \/ KeyHomeFails(hard)
  <2>1. Running /\ pc' \notin {"retire", "closed", "dispose"}
    BY <1>7 DEF PollFails, ReadFails, ReplyCompleteFails, MoveFails, KeyHomeFails, Key, Reply, Running
  <2>2. \E component \in Components, hard \in BOOLEAN :
           RejectCall(component, active, motion, hard, quit)
    BY <1>6, <1>7 DEF PollFails, ReadFails, ReplyCompleteFails, MoveFails, KeyHomeFails, Reject, RejectWith
  <2> QED BY <1>5, <2>1, <2>2, RejectControl
<1>8. CASE ReplyPrepared
  BY <1>8 DEF ReplyPrepared, Reply, ControlInv, EpisodeShape, RejectionShape, Motions, PlaceShape,
              Usable, Unavailable, Running, Opening, Occupied, Unoccupied, Unrejected, Rejected
<1>9. CASE ReplyCancelled
  BY <1>9 DEF ReplyCancelled, Reply, ControlInv, EpisodeShape, RejectionShape, Motions, PlaceShape,
              Usable, Unavailable, Running, Unoccupied, Unrejected, Rejected
<1>10. CASE ReplyComplete
  BY <1>10 DEF ReplyComplete, Reply, ControlInv, EpisodeShape, RejectionShape, Motions, PlaceShape,
               Usable, Unavailable, Running, Unoccupied
<1>11. CASE Retire \/ RetirePartial
  BY <1>11 DEF Retire, RetirePartial, ControlInv, EpisodeShape, RejectionShape, Motions, PlaceShape,
               Usable, Unavailable, Running, Unoccupied, Unrejected, Rejected
<1>12. CASE MoveOn
  BY <1>12 DEF MoveOn, MotionMay, ControlInv, EpisodeShape, RejectionShape, Motions, PlaceShape,
               Usable, Unavailable, Running
<1>13. CASE Observe
  <2>1. rejection \in RejectionType /\ rejection # None /\ ~Usable("motion") /\ Running
    BY <1>5, <1>13 DEF Observe, Usable, Unavailable, Running
  <2>2. /\ rejection' \in RejectionType
        /\ rejection'.unavailable = rejection.unavailable
    BY <1>13, <2>1 DEF Observe, RejectionType
  <2>3. rejection' # None /\ ~Usable("motion")'
    BY <2>1, <2>2, NoneAssumption DEF Usable, Unavailable
  <2> QED BY <1>13, <2>1, <2>3 DEF Observe, ControlInv, EpisodeShape, RejectionShape, PlaceShape, Running
<1>14. CASE Overdue
  <2>1. rejection \in RejectionType /\ rejection # None
    BY <1>5, <1>14 DEF Overdue
  <2>2. /\ rejection' \in RejectionType
        /\ rejection'.unavailable = rejection.unavailable
        /\ rejection'.stopped = rejection.stopped
    BY <1>14, <2>1 DEF Overdue, RejectionType
  <2>3. rejection' # None /\ (Usable("motion")' <=> Usable("motion"))
    BY <2>1, <2>2, NoneAssumption DEF Usable, Unavailable
  <2> QED BY <1>14, <2>1, <2>2, <2>3 DEF Overdue, ControlInv, EpisodeShape, RejectionShape, Motions,
                                         PlaceShape, Running
<1>15. ASSUME Running, phase \notin Unoccupied
       PROVE  active # None /\ active \in EpisodeType /\ phase \in Occupied
  BY <1>5, <1>15 DEF EpisodeOf, ControlInv, EpisodeShape
<1>16. CASE Begin
  <2>1. active # None /\ active \in EpisodeType /\ rejection = None /\ Running /\ phase = "engaging"
        /\ ~active.stopSent
    BY <1>15, <1>16 DEF Begin, Running, Unoccupied, ControlInv, RejectionShape, Rejected, EpisodeShape, Opening
  <2>2. /\ active' \in EpisodeType /\ active'.started /\ ~active'.stopSent
    BY <1>16, <2>1 DEF Begin, Started, EpisodeType
  <2>3. active' # None
    BY <2>2, NoneAssumption
  <2> QED BY <1>16, <2>1, <2>2, <2>3 DEF Begin, ControlInv, EpisodeShape, RejectionShape, Motions, PlaceShape,
               Usable, Unavailable, Running, Unoccupied, Occupied, Opening, Unrejected
<1>17. CASE Record
  <2>1. CASE Reject("recorder")
    BY <1>5, <1>6, <1>17, <2>1, RejectControl DEF Record, Reject, RejectWith, Running
  <2>2. CASE UNCHANGED loopVars
    BY <1>17, <2>2 DEF Record, ControlInv, EpisodeShape, RejectionShape, Motions, PlaceShape,
               Usable, Unavailable, Running, loopVars
  <2> QED BY <1>17, <2>1, <2>2 DEF Record, loopVars
<1>18. /\ EpisodeOf(Settled)
       /\ (Settled = None) <=> (active = None)
       /\ Settled # None => /\ Settled.started = active.started
                            /\ Settled.stopSent = active.stopSent
                            /\ active.settled => Settled.settled
       /\ (/\ Settled # None /\ Settled.started
           /\ \/ motion = "held" /\ Usable("motion")
              \/ rejection # None /\ rejection.stopped)
          => Settled.settled
  BY SettledKept
<1>19. CASE TailWaits
  <2>1. Running /\ phase \in {"stopping", "review"} /\ UNCHANGED <<phase, motion, rejection, quit>>
        /\ active' = Settled /\ pc' = "dispose"
    BY <1>19 DEF TailWaits, Running
  <2>2. EpisodeShape'
    BY <1>18, <2>1 DEF ControlInv, EpisodeShape, Opening
  <2>3. RejectionShape' /\ (Usable("motion")' <=> Usable("motion")) /\ Motions' = Motions
    BY <2>1 DEF ControlInv, RejectionShape, Usable, Unavailable, Motions
  <2>4. PlaceShape'
    BY <1>18, <2>1, <2>3 DEF PlaceShape
  <2> QED BY <2>1, <2>2, <2>3, <2>4 DEF ControlInv
<1>20. CASE TailCloses
  <2>1. Running /\ phase \in {"stopping", "review"} /\ pc' = "dispose" /\ active # None /\ active.started
    BY <1>20 DEF TailCloses, MayFlush, Running
  <2>2. CASE RejectWith("recorder", Settled, motion, FALSE, quit)
    BY <1>5, <1>6, <1>18, <2>1, <2>2, RejectControl DEF RejectWith
  <2>3. CASE /\ active' = [Settled EXCEPT !.stopSent = TRUE]
             /\ UNCHANGED <<phase, completed, quit, rejection, motion, childVars, outcome, historyVars>>
    <3>1. /\ active' # None
          /\ active'.started
          /\ (/\ \/ motion = "held" /\ Usable("motion")
                 \/ rejection # None /\ rejection.stopped)
             => active'.settled
      BY <1>18, <2>1, <2>3, NoneAssumption DEF EpisodeOf, EpisodeType
    <3>2. EpisodeShape'
      BY <2>1, <2>3, <3>1 DEF ControlInv, EpisodeShape, Opening
    <3>3. RejectionShape' /\ (Usable("motion")' <=> Usable("motion")) /\ Motions' = Motions
      BY <2>1, <2>3 DEF ControlInv, RejectionShape, Usable, Unavailable, Motions
    <3>4. PlaceShape'
      BY <2>1, <2>3, <3>1, <3>3 DEF PlaceShape
    <3> QED BY <2>1, <2>3, <3>2, <3>3, <3>4 DEF ControlInv
  <2> QED BY <1>20, <2>2, <2>3 DEF TailCloses
<1>21. ASSUME Running, pc' = "key", active = None, phase \in {"resolving", "review"}, rejection # None,
              ResolvedTo("resolving")
       PROVE  ControlInv'
  <2>1. /\ UNCHANGED <<active, motion, quit>>
        /\ \/ phase' \in {"blocked", "resolving"} /\ UNCHANGED rejection
           \/ phase' = "idle" /\ rejection' = None /\ motion = "held"
    BY <1>21 DEF ResolvedTo
  <2>2. Usable("motion") => motion \in {"stopping", "held"}
    BY <1>21 DEF ControlInv, Motions
  <2> QED BY <1>21, <2>1, <2>2 DEF ControlInv, EpisodeShape, RejectionShape, Motions, PlaceShape, Usable,
                 Unavailable, Running, Unoccupied, Unrejected, Rejected
<1>22. CASE Resolve
  <2>1. Running /\ pc' = "key" /\ phase = "resolving" /\ ResolvedTo("resolving")
    BY <1>22 DEF Resolve, Running
  <2>2. active = None /\ rejection # None
    BY <2>1 DEF ControlInv, EpisodeShape, RejectionShape, Occupied, Opening, Unrejected
  <2> QED BY <1>21, <2>1, <2>2
<1>23. CASE Dispose
  <2>1. Running /\ pc = "dispose" /\ phase \in {"stopping", "review"}
        /\ pc' = IF completed' = completed THEN "key" ELSE "retire"
    BY <1>23 DEF Dispose, Running, ControlInv, PlaceShape
  <2>2. ASSUME active # None, active.started, active.stopSent, StopConfirmed \/ rejection = None,
               rejection = None => motion = "held", Finalize
        PROVE  ControlInv'
    <3>1. CASE Reject("recorder")
      BY <1>5, <1>6, <2>1, <3>1, RejectControl DEF Reject, RejectWith, RejectCall
    <3>2. CASE phase' = "finalizing" /\ UNCHANGED <<active, completed, quit, rejection, motion>>
      <4>1. active.settled
        BY <2>1, <2>2 DEF StopConfirmed, ControlInv, PlaceShape, Usable, Unavailable
      <4>2. Usable("motion") => motion = "held"
        BY <2>1, <2>2 DEF StopConfirmed, ControlInv, RejectionShape, Usable, Unavailable
      <4> QED BY <2>1, <2>2, <3>2, <4>1, <4>2 DEF ControlInv, EpisodeShape, RejectionShape, Motions, PlaceShape,
                   Usable, Unavailable, Occupied, Unrejected, Rejected, Opening
    <3> QED BY <2>2, <3>1, <3>2 DEF Finalize
  <2>3. CASE UNCHANGED <<loopVars, inbox, childVars, outcome, historyVars>>
    BY <2>1, <2>3 DEF ControlInv, EpisodeShape, RejectionShape, Motions, PlaceShape, Usable, Unavailable,
                      Running, loopVars
  <2>4. ASSUME phase = "review"
        PROVE  rejection # None /\ rejection \in RejectionType
    BY <1>5, <2>1, <2>4 DEF ControlInv, RejectionShape, Unrejected
  <2>5. ASSUME active # None, phase = "review", NEW choice \in {None, "save", "abort"}, Cancel(choice)
        PROVE  ControlInv'
    <3>1. /\ rejection' \in RejectionType
          /\ rejection'.stopped = rejection.stopped
          /\ rejection.unavailable \subseteq rejection'.unavailable
          /\ UNCHANGED <<quit, motion>>
      <4>1. /\ \/ rejection' = [rejection EXCEPT !.choice = choice]
               \/ rejection' = [rejection EXCEPT !.choice = choice, !.unavailable = @ \cup {"recorder"}]
            /\ UNCHANGED <<quit, motion>>
        BY <2>5 DEF Cancel
      <4>2. rejection \in RejectionType
        BY <2>4, <2>5
      <4> QED BY <4>1, <4>2 DEF RejectionType, Lossy
    <3>2. rejection' # None /\ (Usable("motion")' => Usable("motion"))
      BY <2>4, <2>5, <3>1, NoneAssumption DEF Usable, Unavailable
    <3>3. UNCHANGED active /\ phase' \in {"cancelling", "review"}
      BY <2>5 DEF Cancel
    <3>4. Usable("motion") => motion \in {"stopping", "held"}
      BY <2>1, <2>5 DEF ControlInv, Motions
    <3> QED BY <2>1, <2>4, <2>5, <3>1, <3>2, <3>3, <3>4 DEF ControlInv, EpisodeShape, RejectionShape, Motions,
                 PlaceShape, Unoccupied, Occupied, Opening, Rejected
  <2>6. ASSUME phase = "review", rejection' = [rejection EXCEPT !.choice = None],
               UNCHANGED <<phase, active, completed, quit, motion>>
        PROVE  ControlInv'
    <3>1. /\ rejection' \in RejectionType
          /\ rejection'.stopped = rejection.stopped
          /\ rejection.unavailable = rejection'.unavailable
      BY <2>4, <2>6 DEF RejectionType
    <3>2. rejection' # None /\ (Usable("motion")' <=> Usable("motion"))
      BY <2>4, <2>6, <3>1, NoneAssumption DEF Usable, Unavailable
    <3> QED BY <2>1, <2>4, <2>6, <3>1, <3>2 DEF ControlInv, EpisodeShape, RejectionShape, Motions, PlaceShape
  <2>7. CASE active # None /\ phase = "review" /\ Unverifiable
    BY <2>5, <2>6, <2>7 DEF Unverifiable
  <2>8. CASE phase = "review" /\ Review
    <3>1. rejection.choice \in {None, "save", "abort"}
      BY <2>4, <2>8 DEF RejectionType
    <3>2. CASE active = None
      <4>1. ResolvedTo("resolving") /\ completed' = completed
        BY <2>8, <3>2 DEF Review, ResolvedTo
      <4> QED BY <1>21, <2>1, <2>4, <2>8, <3>2, <4>1
    <3>3. CASE active # None /\ (rejection.choice = "abort" \/ ~active.started)
      BY <2>5, <2>8, <3>1, <3>3 DEF Review
    <3>4. CASE active # None /\ ~(rejection.choice = "abort" \/ ~active.started)
      BY <2>2, <2>3, <2>4, <2>7, <2>8, <3>1, <3>4 DEF Review
    <3> QED BY <3>2, <3>3, <3>4
  <2>9. CASE phase = "stopping" /\ motion = "held" /\ active.stopSent /\ Finalize
    <3>1. active # None /\ active.started /\ rejection = None
      BY <1>15, <2>1, <2>9 DEF Unoccupied, ControlInv, EpisodeShape, RejectionShape, Rejected
    <3> QED BY <2>2, <2>9, <3>1
  <2> QED BY <1>23, <2>3, <2>8, <2>9 DEF Dispose
<1>24. ASSUME Running, pc' = "loop", rejection # None, NEW choice \in {"save", "abort"},
              rejection' = [rejection EXCEPT !.choice = choice],
              UNCHANGED <<phase, active, motion>>, quit => quit'
       PROVE  ControlInv'
  <2>1. /\ rejection' \in RejectionType
        /\ rejection'.stopped = rejection.stopped
        /\ rejection.unavailable = rejection'.unavailable
    BY <1>5, <1>24 DEF RejectionType
  <2>2. rejection' # None /\ (Usable("motion")' <=> Usable("motion"))
    BY <1>24, <2>1, NoneAssumption DEF Usable, Unavailable
  <2> QED BY <1>24, <2>1, <2>2 DEF ControlInv, EpisodeShape, RejectionShape, Motions, PlaceShape, Rejected
<1>25. CASE \E choice \in {"save", "abort"} : KeyReview(choice)
  <2>1. Running /\ rejection # None /\ pc' = "loop"
    BY <1>25 DEF KeyReview, Key, Running, ControlInv, RejectionShape, Unrejected
  <2> QED BY <1>24, <1>25, <2>1 DEF KeyReview
<1>26. ASSUME Running, phase = "recording", pc' = "loop", NEW reason \in {"space", "fail", "abort", "session_end"},
              NEW quitting \in BOOLEAN, Stop(reason, quitting)
       PROVE  ControlInv'
  <2>1. active # None /\ active \in EpisodeType /\ rejection = None /\ active.started
    BY <1>15, <1>26 DEF Unoccupied, ControlInv, EpisodeShape, RejectionShape, Rejected
  <2>2. active' \in EpisodeType /\ active'.started
    BY <1>26, <2>1 DEF Stop, EpisodeType
  <2>3. active' # None /\ phase' = "stopping" /\ motion' = "stopping" /\ rejection' = None
    BY <1>26, <2>1, <2>2, NoneAssumption DEF Stop
  <2> QED BY <1>26, <2>2, <2>3 DEF ControlInv, EpisodeShape, RejectionShape, Motions, PlaceShape, Running,
                                   Occupied, Opening, Unrejected
<1>27. CASE \E reason \in {"space", "fail", "abort"} : KeyStop(reason)
  BY <1>5, <1>26, <1>27 DEF KeyStop, Key, Running
<1>28. ASSUME Running, phase = "recording", NEW reason \in {"space", "fail", "abort", "session_end"},
              NEW quitting \in BOOLEAN, quit => quitting, pc' = "loop",
              RejectCall("session", [active EXCEPT !.reason = reason], motion, TRUE, quitting)
       PROVE  ControlInv'
  <2> DEFINE a == [active EXCEPT !.reason = reason]
  <2>1. active # None /\ active \in EpisodeType
    BY <1>15, <1>28 DEF Unoccupied
  <2>2. /\ EpisodeOf(a) /\ a # None /\ a.started = active.started /\ a.stopSent = active.stopSent
        /\ a.settled = active.settled
    BY <1>5, <1>28, <2>1, NoneAssumption DEF EpisodeOf, EpisodeType
  <2> HIDE DEF a
  <2>3. RejectCall("session", a, motion, TRUE, quitting)
    BY <1>28 DEF a
  <2> QED BY <1>6, <1>28, <2>1, <2>2, <2>3, RejectControl
<1>29. CASE \E reason \in {"space", "fail", "abort"} : KeyStopFails(reason)
  BY <1>5, <1>28, <1>29 DEF KeyStopFails, RejectWith, Key, Running
<1>30. CASE KeyEngage
  BY <1>30 DEF KeyEngage, Key, ControlInv, EpisodeShape, RejectionShape, Motions, PlaceShape,
               Usable, Unavailable, Running
<1>31. CASE KeyHome
  BY <1>31 DEF KeyHome, Key, ControlInv, EpisodeShape, RejectionShape, Motions, PlaceShape,
               Usable, Unavailable, Running
<1>32. CASE KeyPrepare
  <2>1. Running /\ rejection = None /\ motion = "ready" /\ pc' = "loop" /\ phase' = "preparing"
        /\ UNCHANGED <<rejection, motion, quit>>
    BY <1>32 DEF KeyPrepare, Key, Running, ControlInv, RejectionShape, Rejected
  <2>2. active' = NewEpisode /\ NewEpisode \in EpisodeType /\ ~NewEpisode.started /\ ~NewEpisode.stopSent
    <3>1. Len(completed) \in Nat
      BY DEF TypeInv, TypeOK
    <3> QED BY <1>32, <3>1 DEF KeyPrepare, NewEpisode, EpisodeType
  <2>3. active' # None
    BY <2>2, NoneAssumption
  <2> QED BY <2>1, <2>2, <2>3 DEF ControlInv, EpisodeShape, RejectionShape, Motions, PlaceShape, Running,
                                  Occupied, Opening, Unrejected
<1>33. CASE KeyQuit
  <2>1. Running /\ pc' = "loop"
    BY <1>33 DEF KeyQuit, Key, Running
  <2>2. CASE rejection # None
    <3>1. CASE phase = "review"
      BY <1>24, <1>33, <2>1, <2>2, <3>1 DEF KeyQuit
    <3>2. CASE phase # "review"
      BY <1>33, <2>1, <2>2, <3>2 DEF KeyQuit, ControlInv, EpisodeShape, RejectionShape, Motions, PlaceShape,
           Usable, Unavailable, Rejected
    <3> QED BY <3>1, <3>2
  <2>3. CASE rejection = None /\ phase = "recording"
    BY <1>26, <1>33, <2>1, <2>3 DEF KeyQuit
  <2>4. CASE rejection = None /\ phase \in {"preparing", "engaging"} /\ motion # "homing"
    <3>1. active # None /\ active \in EpisodeType /\ ~active.started /\ ~active.stopSent
          /\ motion \in {"ready", "engaging"}
      <4>1. pc # "record"
        BY <1>33 DEF KeyQuit, Key
      <4> QED BY <1>15, <2>1, <2>4, <4>1 DEF Unoccupied, ControlInv, EpisodeShape, Opening, Motions, Usable, Unavailable
    <3>2. /\ active' = [active EXCEPT !.reason = "session_end"]
          /\ phase' = "closing" /\ quit' = TRUE /\ UNCHANGED <<rejection, motion>>
      BY <1>33, <2>4 DEF KeyQuit
    <3>3. active' \in EpisodeType /\ ~active'.started /\ ~active'.stopSent
      BY <3>1, <3>2 DEF EpisodeType
    <3>4. active' # None
      BY <3>3, NoneAssumption
    <3> QED BY <2>1, <2>4, <3>1, <3>2, <3>3, <3>4 DEF ControlInv, EpisodeShape, RejectionShape, Motions, PlaceShape,
                 Running, Occupied, Opening, Unrejected
  <2>5. CASE rejection = None /\ phase \notin {"recording", "preparing", "engaging"} /\ motion = "homing"
    <3>1. phase = "idle" /\ pc' = "loop" /\ motion' = "stopping" /\ UNCHANGED <<phase, active, rejection>>
      BY <1>33, <2>1, <2>5 DEF KeyQuit, Usable, Unavailable, ControlInv, Motions
    <3> QED BY <2>1, <2>5, <3>1 DEF ControlInv, EpisodeShape, RejectionShape, Motions, PlaceShape, Usable, Unavailable
  <2>6. CASE rejection = None /\ phase \in {"preparing", "engaging"} /\ motion = "homing"
    BY <2>1, <2>6 DEF ControlInv, Motions, Usable, Unavailable
  <2>7. CASE rejection = None /\ phase \notin {"recording", "preparing", "engaging"} /\ motion # "homing"
    <3>1. pc' = "loop" /\ quit' = TRUE /\ UNCHANGED <<phase, active, rejection, motion>>
      BY <1>33, <2>1, <2>7 DEF KeyQuit
    <3> QED BY <2>1, <2>7, <3>1 DEF ControlInv, EpisodeShape, RejectionShape, Motions, PlaceShape, Usable, Unavailable
  <2> QED BY <2>2, <2>3, <2>4, <2>5, <2>6, <2>7
<1>34. CASE KeyQuitFails
  <2>1. Running /\ pc' = "loop" /\ rejection = None
    BY <1>34 DEF KeyQuitFails, Key, Running
  <2>2. CASE phase = "recording"
    BY <1>28, <1>34, <2>1, <2>2 DEF KeyQuitFails, RejectWith
  <2>3. CASE phase # "recording"
    BY <1>5, <1>6, <1>34, <2>1, <2>3, RejectControl DEF KeyQuitFails, RejectWith
  <2> QED BY <2>2, <2>3
<1> QED
  BY <1>1, <1>2, <1>3, <1>4, <1>7, <1>8, <1>9, <1>10, <1>11, <1>12, <1>13, <1>14, <1>16, <1>17, <1>19,
     <1>20, <1>22, <1>23, <1>25, <1>27, <1>29, <1>30, <1>31, <1>32, <1>33, <1>34
  DEF Next, Control, Step, Poll, Move, Phases, Keys

-----------------------------------------------------------------------------
(* The queues.                                                              *)

\* A step of control that keeps the episode where it is keeps what it waits for.
SameEpisode ==
    /\ (active = None) <=> (active' = None)
    /\ active # None => /\ active'.id = active.id
                        /\ active'.started = active.started
                        /\ active'.stopSent = active.stopSent
    /\ (pc = "retire") <=> (pc' = "retire")

SameWait ==
    \/ phase' = phase
    \/ /\ phase \notin {"cancelling", "finalizing"}
       /\ phase' \notin {"preparing", "engaging", "cancelling", "finalizing"}

\* What control waits for stays the same while neither queue nor child moves.
LEMMA LinkFrame ==
    ASSUME UNCHANGED <<inbox, outbox, child, disk>>, SameEpisode, SameWait,
           rejection' = None => rejection = None, Link
    PROVE  Link'
<1>1. Quiet => Quiet'
  BY DEF Quiet
<1>2. active # None /\ Cancelling => Cancelling'
  BY DEF Cancelling, Sent, Has
<1>3. active # None /\ Sealing => Sealing'
  BY DEF Sealing, Capturing, Sent, Has, SameEpisode
<1>4. active # None /\ Open => Open'
  BY DEF Open, Capturing, Sent, Has, SameEpisode
<1>5. active # None /\ Opened => Opened'
  BY DEF Opened, SameEpisode, SameWait, Command
<1> QED BY <1>1, <1>2, <1>3, <1>4, <1>5 DEF Link, SameEpisode, SameWait

\* So do the numbers of the directories.
LEMMA NumberedFrame ==
    ASSUME UNCHANGED <<inbox, child, disk, completed>>, SameEpisode, Numbered
    PROVE  Numbered'
<1>1. \A e : Known(e) => Known(e)'
  BY DEF Known, SameEpisode
<1> QED BY <1>1 DEF Numbered, SameEpisode

\* A step of the session that sends nothing and takes no reply keeps the
\* protocol, as long as it waits for the same thing.
LEMMA ProtocolFrame ==
    ASSUME UNCHANGED <<inbox, outbox, child, disk, completed, refused>>, SameEpisode, SameWait,
           rejection' = None => rejection = None,
           Usable("recorder")' => Usable("recorder"),
           Running, ProtocolInv
    PROVE  ProtocolInv'
<1>1. Numbered'
  BY NumberedFrame DEF ProtocolInv
<1>2. Drained'
  BY DEF ProtocolInv, Drained, SameEpisode, SameWait
<1>3. child.state # "dead" => Chain(inbox)'
  BY DEF ProtocolInv, Chain, Awaited
<1>4. child.state # "dead" /\ Usable("recorder")' => Link'
  BY LinkFrame DEF ProtocolInv
<1> QED BY <1>1, <1>2, <1>3, <1>4 DEF ProtocolInv

\* What a queue the child can take may grow by.
LEMMA ChainAppended ==
    ASSUME NEW queue \in Seq(CommandType), Chain(queue), NEW c \in CommandType,
           c.operation \in Awaited,
           \A i \in DOMAIN queue : c.operation \in Following(queue[i].operation),
           queue = <<>> /\ child.state = "idle" => c.operation = "prepare",
           queue = <<>> /\ child.state = "prepared" => c.operation \in {"begin", "cancel"},
           c.operation = "prepare" => disk[c.episode] = "none",
           c.operation = "settled" => \/ child.state = "recording" /\ child.cutoff
                                      \/ Has(queue, "stop")
    PROVE  Chain(Append(queue, c))
<1> DEFINE longer == Append(queue, c)
           n == Len(queue)
<1>1. /\ longer \in Seq(CommandType) /\ Len(longer) = n + 1 /\ n \in Nat
      /\ \A i \in 1 .. n : longer[i] = queue[i]
      /\ longer[n + 1] = c
      /\ longer # <<>>
  OBVIOUS
<1>2. DOMAIN longer = 1 .. (n + 1) /\ DOMAIN queue = 1 .. n
  BY <1>1
<1> HIDE DEF longer, n
<1>3. \A i \in DOMAIN longer : \/ i \in DOMAIN queue /\ longer[i] = queue[i]
                               \/ i = n + 1 /\ longer[i] = c
  BY <1>1, <1>2
<1>4. \A i \in DOMAIN longer : longer[i].operation \in Awaited
  BY <1>3 DEF Chain
<1>5. \A i, j \in DOMAIN longer : i < j => longer[j].operation \in Following(longer[i].operation)
  <2> SUFFICES ASSUME NEW i \in DOMAIN longer, NEW j \in DOMAIN longer, i < j
               PROVE  longer[j].operation \in Following(longer[i].operation)
    OBVIOUS
  <2>1. i \in DOMAIN queue /\ longer[i] = queue[i]
    BY <1>1, <1>2, <1>3
  <2>2. CASE j \in DOMAIN queue /\ longer[j] = queue[j]
    BY <2>1, <2>2 DEF Chain
  <2>3. CASE longer[j] = c
    BY <2>1, <2>3
  <2> QED BY <1>3, <2>2, <2>3
<1>6. /\ child.state = "idle" => longer[1].operation = "prepare"
      /\ child.state = "prepared" => longer[1].operation \in {"begin", "cancel"}
  <2>1. CASE queue = <<>>
    <3>1. n = 0
      BY <2>1 DEF n
    <3> QED BY <1>1, <2>1, <3>1
  <2>2. CASE queue # <<>>
    <3>1. 1 \in 1 .. n
      BY <2>2 DEF n
    <3> QED BY <1>1, <2>2, <3>1 DEF Chain
  <2> QED BY <2>1, <2>2
<1>7. \A i \in DOMAIN longer :
         /\ longer[i].operation = "prepare" => disk[longer[i].episode] = "none"
         /\ longer[i].operation = "settled" =>
              \/ child.state = "recording" /\ child.cutoff
              \/ \E j \in DOMAIN longer : j < i /\ longer[j].operation = "stop"
  <2> SUFFICES ASSUME NEW i \in DOMAIN longer
               PROVE  /\ longer[i].operation = "prepare" => disk[longer[i].episode] = "none"
                      /\ longer[i].operation = "settled" =>
                           \/ child.state = "recording" /\ child.cutoff
                           \/ \E j \in DOMAIN longer : j < i /\ longer[j].operation = "stop"
    OBVIOUS
  <2>1. \A j \in DOMAIN queue : j \in DOMAIN longer /\ longer[j] = queue[j] /\ j < n + 1
    BY <1>1, <1>2
  <2>2. CASE i \in DOMAIN queue /\ longer[i] = queue[i]
    BY <2>1, <2>2 DEF Chain
  <2>3. CASE i = n + 1 /\ longer[i] = c
    BY <2>1, <2>3 DEF Has
  <2> QED BY <1>3, <2>2, <2>3
<1> QED BY <1>4, <1>5, <1>6, <1>7 DEF Chain, longer

\* What a rejection does to the recorder and to what control waits for.
LEMMA RejectEffect ==
    ASSUME TypeInv, ControlInv, Running, pc # "retire", pc' # "retire",
           NEW component \in Components, NEW a, EpisodeOf(a),
           NEW hard \in BOOLEAN, NEW quitting \in BOOLEAN,
           RejectCall(component, a, motion, hard, quitting),
           (a = None) <=> (active = None),
           a # None => /\ a.id = active.id
                       /\ a.started = active.started
                       /\ a.stopSent = active.stopSent
    PROVE  /\ SameEpisode
           /\ rejection' # None
           /\ component = "recorder" => ~Usable("recorder")'
           /\ Usable("recorder")' => Usable("recorder") /\ SameWait
           /\ UNCHANGED <<outbox, child, disk, completed, refused>>
           /\ \/ UNCHANGED inbox
              \/ /\ active # None /\ active.started /\ ~active.stopSent
                 /\ rejection = None /\ phase' = "review" /\ phase # "finalizing"
                 /\ Room /\ inbox' = Append(inbox, Command("freeze", active))
<1>1. UNCHANGED <<outbox, child, disk, completed, refused>>
  BY DEF RejectCall, childVars
<1>2. CASE rejection = None
  <2>1. BeginRejection(component, a, motion, hard, quitting)
    BY <1>2 DEF RejectCall
  <2>2. /\ active' = IF a = None THEN None
                     ELSE [Interrupted(a) EXCEPT !.cutoff = @ \/ a.started]
        /\ phase' = IF phase = "finalizing" /\ component # "recorder" THEN phase ELSE "review"
        /\ \/ UNCHANGED inbox
           \/ /\ a # None /\ a.started /\ ~a.stopSent /\ phase # "finalizing" /\ component # "recorder"
              /\ Room /\ inbox' = Append(inbox, Command("freeze", a))
    BY <2>1 DEF BeginRejection
  <2>3. /\ rejection' \in RejectionType
        /\ component = "recorder" => "recorder" \in rejection'.unavailable
    BY <2>1 DEF BeginRejection, RejectionType, Lossy, Components, StopUnconfirmed
  <2>4. /\ (active = None) <=> (active' = None)
        /\ a # None => /\ active'.id = a.id /\ active'.started = a.started
                       /\ active'.stopSent = a.stopSent
    <3>1. a # None => active' \in EpisodeType
      BY <2>2 DEF EpisodeOf, EpisodeType, Interrupted
    <3> QED BY NoneAssumption, <2>2, <3>1 DEF EpisodeOf, EpisodeType, Interrupted
  <2>5. SameEpisode
    BY <2>4 DEF SameEpisode
  <2>6. rejection' # None /\ (component = "recorder" => ~Usable("recorder")') /\ Usable("recorder")
    BY <1>2, <2>3, NoneAssumption DEF Usable, Unavailable
  <2>7. phase # "cancelling"
    BY <1>2 DEF ControlInv, RejectionShape, Unrejected
  <2>8. Usable("recorder")' => SameWait
    BY <2>2, <2>6, <2>7 DEF SameWait
  <2>9. a # None => Command("freeze", a) = Command("freeze", active)
    BY DEF Command
  <2> QED BY <1>1, <1>2, <2>2, <2>5, <2>6, <2>8, <2>9
<1>3. CASE rejection # None
  <2>1. ExtendRejection(component, a, motion)
    BY <1>3 DEF RejectCall
  <2>2. /\ rejection' \in RejectionType
        /\ rejection.unavailable \subseteq rejection'.unavailable
        /\ component = "recorder" => "recorder" \in rejection'.unavailable
    BY <2>1, <1>3 DEF ExtendRejection, RejectionType, Lossy, Components, TypeInv, TypeOK
  <2>3. /\ rejection' # None /\ (component = "recorder" => ~Usable("recorder")')
        /\ Usable("recorder")' => Usable("recorder")
    BY <1>3, <2>2, NoneAssumption DEF Usable, Unavailable
  <2>4. SameEpisode
    BY <2>1 DEF SameEpisode, ExtendRejection
  <2>5. Usable("recorder")' => SameWait
    BY <2>1, <2>3 DEF SameWait, ExtendRejection
  <2>6. UNCHANGED inbox
    BY <2>1 DEF ExtendRejection
  <2> QED BY <1>1, <2>3, <2>4, <2>5, <2>6
<1> QED BY <1>2, <1>3

\* A failure, which may send freeze, keeps the protocol.
LEMMA RejectProtocol ==
    ASSUME TypeInv, ControlInv, ProtocolInv, Running, pc # "retire", pc' # "retire",
           NEW component \in Components, NEW a, EpisodeOf(a),
           NEW hard \in BOOLEAN, NEW quitting \in BOOLEAN,
           RejectCall(component, a, motion, hard, quitting),
           (a = None) <=> (active = None),
           a # None => /\ a.id = active.id
                       /\ a.started = active.started
                       /\ a.stopSent = active.stopSent
    PROVE  ProtocolInv'
<1>1. /\ SameEpisode
      /\ rejection' # None
      /\ Usable("recorder")' => Usable("recorder") /\ SameWait
      /\ UNCHANGED <<outbox, child, disk, completed, refused>>
  BY RejectEffect
<1>2. CASE UNCHANGED inbox
  <2>1. Numbered'
    BY <1>1, <1>2, NumberedFrame DEF ProtocolInv
  <2>2. child.state # "dead" => Chain(inbox)'
    BY <1>1, <1>2 DEF ProtocolInv, Chain, Awaited
  <2>3. Drained'
    BY <1>1, <1>2 DEF ProtocolInv, Drained, SameEpisode, SameWait
  <2>4. child.state # "dead" /\ Usable("recorder")' => Link'
    BY <1>1, <1>2, LinkFrame DEF ProtocolInv
  <2> QED BY <1>1, <2>1, <2>2, <2>3, <2>4 DEF ProtocolInv
<1>3. CASE inbox' # inbox
  <2>1. /\ active # None /\ rejection = None /\ phase' = "review" /\ phase # "finalizing"
        /\ Room /\ inbox' = Append(inbox, Command("freeze", active))
        /\ active.started /\ ~active.stopSent
    BY <1>3, RejectEffect
  <2> DEFINE c == Command("freeze", active)
  <2>2. /\ active \in EpisodeType /\ active.id \in Episodes /\ inbox \in Seq(CommandType)
        /\ c \in CommandType /\ c.operation = "freeze" /\ c.episode = active.id
    BY <2>1 DEF Command, CommandType, EpisodeType, TypeInv, TypeOK
  <2>3. /\ DOMAIN inbox' = 1 .. (Len(inbox) + 1)
        /\ \A i \in DOMAIN inbox : inbox'[i] = inbox[i] /\ i \in DOMAIN inbox'
        /\ inbox'[Len(inbox) + 1] = c
        /\ \A i \in DOMAIN inbox' : inbox'[i] = c \/ (i \in DOMAIN inbox /\ inbox'[i] = inbox[i])
        /\ inbox' # <<>>
        /\ Len(inbox) \in Nat
    BY <2>1, <2>2
  <2> HIDE DEF c
  <2>4. Numbered'
    <3>1. \A e : Known(e) => Known(e)'
      BY <1>1 DEF Known, SameEpisode
    <3>2. \A e : e = active.id => Known(e)'
      BY <1>1, <2>1 DEF Known, SameEpisode
    <3>3. \A i \in DOMAIN inbox : Known(inbox[i].episode)
      BY DEF ProtocolInv, Numbered
    <3>4. (\A i \in DOMAIN inbox : Known(inbox[i].episode))'
      BY <2>2, <2>3, <3>1, <3>2, <3>3
    <3> QED BY <1>1, <3>1, <3>4 DEF ProtocolInv, Numbered, SameEpisode
  <2>5. Drained'
    BY <1>1, <2>1 DEF Drained, SameEpisode
  <2>6. ASSUME child.state # "dead" PROVE Chain(inbox)' /\ Link'
    <3>1. Usable("recorder")
      BY <2>1 DEF Usable, Unavailable
    <3>2. Link /\ Chain(inbox)
      BY <2>6, <3>1 DEF ProtocolInv
    <3>3. phase \notin {"cancelling", "finalizing"}
      BY <2>1 DEF ControlInv, RejectionShape, Unrejected
    <3>4. /\ Open /\ \A i \in DOMAIN inbox : inbox[i].episode = active.id
          /\ child.id = active.id
      BY <2>1, <3>2, <3>3 DEF Link, Open, Capturing
    <3>5. /\ \A i \in DOMAIN inbox : inbox[i].operation \in {"begin", "samples"}
          /\ c.operation \in Awaited
          /\ child.state \in {"prepared", "recording"}
          /\ child.state = "prepared" => inbox # <<>> /\ child.acked /\ inbox[1].operation = "begin"
      <4>1. \A i \in DOMAIN inbox : inbox[i].operation \notin {"settled", "cancel", "flush", "stop", "freeze"}
        BY <2>1, <3>4 DEF Open, Sent, Has
      <4>2. /\ child.state \in {"prepared", "recording"}
            /\ child.state = "prepared" => inbox # <<>> /\ child.acked /\ inbox[1].operation = "begin"
        BY <3>4 DEF Open, Capturing
      <4>3. Awaited \in {Following("begin") \cup {"begin"}, Following("samples")}
        BY <2>1, <3>4, <4>2 DEF Open, Awaited
      <4>4. Awaited \subseteq {"begin", "samples", "freeze", "flush", "stop", "settled", "cancel"} /\ "freeze" \in Awaited
        BY <4>3 DEF Following
      <4>5. \A i \in DOMAIN inbox : inbox[i].operation \in Awaited
        BY <3>2 DEF Chain
      <4> QED BY <2>2, <4>1, <4>2, <4>4, <4>5
    <3>6. Chain(Append(inbox, c))
      <4>1. \A i \in DOMAIN inbox : c.operation \in Following(inbox[i].operation)
        BY <2>2, <3>5 DEF Following
      <4> QED BY <2>2, <3>2, <3>5, <4>1, ChainAppended
    <3>7. Chain(inbox)'
      BY <1>1, <2>1, <3>6 DEF Chain, Awaited, c
    <3>8. Open'
      <4>1. Capturing'
        BY <1>1, <2>3, <3>4, <3>5 DEF Open, Capturing
      <4>2. /\ ~Sent("settled")' /\ ~Sent("cancel")' /\ ~Sent("flush")' /\ ~Sent("stop")'
        BY <2>2, <2>3, <3>5 DEF Sent, Has
      <4> QED BY <1>1, <2>1, <3>4, <4>1, <4>2 DEF Open, SameEpisode
    <3>9. Link'
      <4>1. \A i \in DOMAIN inbox' : inbox'[i].episode = active.id
        BY <2>2, <2>3, <3>4
      <4> QED BY <1>1, <2>1, <3>4, <3>8, <4>1 DEF Link, SameEpisode
    <3> QED BY <3>7, <3>9
  <2> QED BY <1>1, <2>4, <2>5, <2>6 DEF ProtocolInv
<1> QED BY <1>2, <1>3

\* What is in a queue after a command is put at its end.
LEMMA AppendedQueue ==
    ASSUME NEW queue \in Seq(CommandType), NEW c \in CommandType
    PROVE  /\ Append(queue, c) \in Seq(CommandType)
           /\ \A i \in DOMAIN queue : Append(queue, c)[i] = queue[i] /\ i \in DOMAIN Append(queue, c)
           /\ \E i \in DOMAIN Append(queue, c) : Append(queue, c)[i] = c
           /\ \A i \in DOMAIN Append(queue, c) :
                Append(queue, c)[i] = c \/ (i \in DOMAIN queue /\ Append(queue, c)[i] = queue[i])
           /\ Append(queue, c) # <<>>
<1> DEFINE longer == Append(queue, c)
<1>1. /\ longer \in Seq(CommandType) /\ Len(longer) = Len(queue) + 1 /\ Len(queue) \in Nat
      /\ \A i \in 1 .. Len(queue) : longer[i] = queue[i]
      /\ longer[Len(queue) + 1] = c
      /\ longer # <<>>
  OBVIOUS
<1>2. DOMAIN longer = 1 .. (Len(queue) + 1) /\ DOMAIN queue = 1 .. Len(queue)
  BY <1>1
<1> HIDE DEF longer
<1>3. \A i \in 1 .. (Len(queue) + 1) : i \in 1 .. Len(queue) \/ i = Len(queue) + 1
  BY <1>1
<1> QED BY <1>1, <1>2, <1>3 DEF longer

\* The same of the command queue in a step that sends.
LEMMA QueueGrown ==
    ASSUME TypeInv, NEW c \in CommandType, inbox' = Append(inbox, c)
    PROVE  /\ inbox \in Seq(CommandType) /\ Len(inbox) \in Nat
           /\ DOMAIN inbox' = 1 .. (Len(inbox) + 1)
           /\ \A i \in DOMAIN inbox : inbox'[i] = inbox[i] /\ i \in DOMAIN inbox'
           /\ Len(inbox) + 1 \in DOMAIN inbox'
           /\ inbox'[Len(inbox) + 1] = c
           /\ \A i \in DOMAIN inbox' : inbox'[i] = c \/ (i \in DOMAIN inbox /\ inbox'[i] = inbox[i])
           /\ inbox' # <<>>
BY DEF TypeInv, TypeOK

\* A command about the active episode keeps the numbers.
LEMMA GrownNumbered ==
    ASSUME TypeInv, NEW c \in CommandType, inbox' = Append(inbox, c),
           UNCHANGED <<child, disk, completed>>, Numbered,
           active' # None, c.episode = active'.id, Len(completed) = active'.id, pc' # "retire",
           active = None \/ active'.id = active.id
    PROVE  Numbered'
<1>1. \A e : Known(e) => Known(e)'
  BY DEF Known
<1>2. \A e : e = active'.id => Known(e)'
  BY DEF Known
<1>3. (\A i \in DOMAIN inbox : Known(inbox[i].episode))'
  BY <1>1, <1>2, QueueGrown DEF Numbered
<1> QED BY <1>1, <1>3 DEF Numbered

\* The queue a step leaves can be taken when the queue it made can.
LEMMA GrownChain ==
    ASSUME TypeInv, NEW c \in CommandType, inbox' = Append(inbox, c), UNCHANGED <<child, disk>>,
           Chain(Append(inbox, c))
    PROVE  Chain(inbox)'
BY DEF Chain, Awaited

\* What the queue can hold, and what it still has a place for, before the hold
\* is reported.
LEMMA OpenQueue ==
    ASSUME Open, Chain(inbox)
    PROVE  /\ child.state \in {"prepared", "recording"}
           /\ inbox = <<>> => child.state = "recording"
           /\ {"settled", "cancel"} \subseteq Awaited
           /\ \A i \in DOMAIN inbox : {"settled", "cancel"} \subseteq Following(inbox[i].operation)
           /\ ~active.stopSent =>
                /\ {"flush", "stop"} \subseteq Awaited
                /\ \A i \in DOMAIN inbox : {"flush", "stop"} \subseteq Following(inbox[i].operation)
           /\ ~active.stopSent /\ rejection = None =>
                /\ "samples" \in Awaited
                /\ \A i \in DOMAIN inbox : "samples" \in Following(inbox[i].operation)
           /\ active.stopSent => (child.state = "recording" /\ child.cutoff) \/ Sent("stop")
<1>1. child.state \in {"prepared", "recording"} /\ (inbox = <<>> => child.state = "recording")
  BY DEF Open, Capturing
<1>2. Awaited \in {Following("begin") \cup {"begin"}, Following("samples"), Following("freeze"),
                   Following("flush"), Following("stop")}
  BY <1>1 DEF Open, Awaited
<1>3. {"settled", "cancel"} \subseteq Awaited
      /\ Awaited \subseteq {"begin", "samples", "freeze", "flush", "stop", "settled", "cancel"}
  BY <1>2 DEF Following
<1>4. \A i \in DOMAIN inbox : inbox[i].operation \in {"begin", "samples", "freeze", "flush", "stop"}
  BY <1>3 DEF Open, Chain, Sent, Has
<1>5. \A i \in DOMAIN inbox : {"settled", "cancel"} \subseteq Following(inbox[i].operation)
  BY <1>4 DEF Following
<1>6. ASSUME ~active.stopSent
      PROVE  /\ {"flush", "stop"} \subseteq Awaited
             /\ \A i \in DOMAIN inbox : {"flush", "stop"} \subseteq Following(inbox[i].operation)
  <2>1. Awaited \in {Following("begin") \cup {"begin"}, Following("samples"), Following("freeze")}
    BY <1>1, <1>6 DEF Open, Awaited
  <2>2. \A i \in DOMAIN inbox : inbox[i].operation \in {"begin", "samples", "freeze"}
    BY <1>4, <1>6 DEF Open, Sent, Has
  <2> QED BY <2>1, <2>2 DEF Following
<1>7. ASSUME ~active.stopSent, rejection = None
      PROVE  /\ "samples" \in Awaited
             /\ \A i \in DOMAIN inbox : "samples" \in Following(inbox[i].operation)
  <2>1. Awaited \in {Following("begin") \cup {"begin"}, Following("samples")}
    BY <1>1, <1>7 DEF Open, Awaited
  <2>2. \A i \in DOMAIN inbox : inbox[i].operation \in {"begin", "samples"}
    BY <1>4, <1>7 DEF Open, Sent, Has
  <2> QED BY <2>1, <2>2 DEF Following
<1> QED BY <1>1, <1>3, <1>5, <1>6, <1>7 DEF Open

\* After a send, what is sent is what was and the new command.
LEMMA GrownSent ==
    ASSUME TypeInv, NEW c \in CommandType, inbox' = Append(inbox, c)
    PROVE  \A o : Sent(o)' <=> (Sent(o) \/ c.operation = o)
BY QueueGrown DEF Sent, Has

\* A send behind begin does not change that the child records, or will.
LEMMA GrownCapturing ==
    ASSUME TypeInv, NEW c \in CommandType, inbox' = Append(inbox, c), UNCHANGED <<outbox, child>>,
           Capturing
    PROVE  Capturing'
<1>1. inbox # <<>> => 1 \in DOMAIN inbox
  BY DEF TypeInv, TypeOK
<1> QED BY <1>1, QueueGrown DEF Capturing

\* What a command carries.
LEMMA CommandTyped ==
    ASSUME NEW a \in EpisodeType,
           NEW o \in {"prepare", "begin", "samples", "flush", "freeze", "stop", "settled", "cancel"}
    PROVE  /\ Command(o, a) \in CommandType
           /\ Command(o, a).operation = o
           /\ Command(o, a).episode = a.id
BY DEF Command, CommandType, EpisodeType

\* prepare is only ever sent into an empty queue to an idle child.
LEMMA KeyPrepareProtocol ==
    ASSUME TypeInv, ControlInv, ProtocolInv, KeyPrepare
    PROVE  ProtocolInv'
<1> DEFINE c == Command("prepare", NewEpisode)
<1>1. /\ Running /\ pc' = "loop" /\ phase = "idle" /\ phase' = "preparing" /\ active' = NewEpisode
      /\ inbox' = Append(inbox, c) /\ Len(completed) < MaxEpisodes
      /\ UNCHANGED <<completed, rejection, outbox, child, disk, refused>>
  BY DEF KeyPrepare, Key, Running, Send, childVars, historyVars
<1>2. active = None /\ rejection = None /\ Usable("recorder") /\ pc = "key"
  BY <1>1 DEF ControlInv, EpisodeShape, Occupied, Opening, RejectionShape, Rejected, Usable, Unavailable,
              KeyPrepare, Key
<1>3. /\ NewEpisode \in EpisodeType /\ NewEpisode.id = Len(completed) /\ ~NewEpisode.started
      /\ ~NewEpisode.stopSent /\ Len(completed) \in Episodes /\ Len(completed) \in Nat
  <2>1. Len(completed) \in Nat
    BY DEF TypeInv, TypeOK
  <2> QED BY <1>1, <2>1, BoundsAssumption DEF NewEpisode, EpisodeType, Episodes
<1>4. c \in CommandType /\ c.operation = "prepare" /\ c.episode = active'.id /\ active' # None
      /\ c.episode \in Episodes
  BY <1>1, <1>3, CommandTyped, NoneAssumption
<1>5. inbox = <<>>
  BY <1>1, <1>2 DEF ProtocolInv, Drained
<1>6. Numbered'
  BY <1>1, <1>2, <1>3, <1>4, GrownNumbered, BoundsAssumption DEF ProtocolInv, Numbered
<1>7. Drained'
  BY <1>1, <1>4 DEF Drained
<1>8. ASSUME child.state # "dead"
      PROVE  Chain(inbox)' /\ Link'
  <2>1. Quiet
    BY <1>1, <1>2, <1>8 DEF ProtocolInv, Link
  <2>2. disk[c.episode] = "none"
    BY <1>1, <1>2, <1>3, <1>4 DEF ProtocolInv, Numbered, Known
  <2>3. Chain(inbox)
    BY <1>1, <1>8 DEF ProtocolInv
  <2>4. c.operation \in Awaited
    BY <1>4, <2>1 DEF Quiet, Awaited
  <2>5. Chain(Append(inbox, c))
    <3>1. inbox \in Seq(CommandType)
      BY DEF TypeInv, TypeOK
    <3>2. \A i \in DOMAIN inbox : FALSE
      BY <1>5
    <3> QED BY <1>4, <1>5, <2>1, <2>2, <2>3, <2>4, <3>1, <3>2, ChainAppended DEF Quiet
  <2>6. Chain(inbox)'
    BY <1>1, <1>4, <2>5, GrownChain
  <2>7. Opened'
    <3>1. inbox' = <<Command("prepare", active')>>
      BY <1>1, <1>5
    <3> QED BY <1>1, <2>1, <3>1 DEF Opened, Quiet, Command
  <2>8. Link'
    <3>1. \A i \in DOMAIN inbox' : inbox'[i].episode = active'.id
      BY <1>1, <1>4, <1>5
    <3> QED BY <1>1, <1>3, <1>4, <2>1, <2>7, <3>1 DEF Link, Quiet
  <2> QED BY <2>6, <2>8
<1> QED BY <1>1, <1>6, <1>7, <1>8 DEF ProtocolInv

\* Control sends one more command about the episode that is active.
LEMMA SendProtocol ==
    ASSUME TypeInv, ProtocolInv, Running, pc' \notin {"retire", "closed"}, pc # "retire",
           NEW c \in CommandType, inbox' = Append(inbox, c),
           active # None, active' # None, c.episode = active.id, active'.id = active.id,
           UNCHANGED <<completed, outbox, child, disk, refused>>,
           phase' # "engaging",
           child.state # "dead" => Chain(Append(inbox, c)) /\ (Usable("recorder")' => Link')
    PROVE  ProtocolInv'
<1>1. Numbered'
  BY GrownNumbered DEF ProtocolInv, Numbered
<1>2. Drained'
  BY DEF Drained
<1>3. child.state # "dead" => Chain(inbox)'
  BY GrownChain
<1> QED BY <1>1, <1>2, <1>3 DEF ProtocolInv

\* Every command in the queue is about the active episode.
LEMMA GrownLink ==
    ASSUME TypeInv, ProtocolInv, Running, pc # "retire", Link, active # None, active' # None,
           active'.id = active.id, NEW c \in CommandType, inbox' = Append(inbox, c),
           c.episode = active.id, UNCHANGED child
    PROVE  /\ \A i \in DOMAIN inbox' : inbox'[i].episode = active'.id
           /\ child'.state # "idle" => child'.id = active'.id
<1>1. /\ \A i \in DOMAIN inbox : inbox[i].episode = active.id
      /\ child.state # "idle" => child.id = active.id
  BY DEF Link
<1> QED BY <1>1, QueueGrown

\* begin is only sent after the child acknowledged its preparation.
LEMMA BeginProtocol ==
    ASSUME TypeInv, ControlInv, ProtocolInv, Begin
    PROVE  ProtocolInv'
<1> DEFINE c == Command("begin", active)
<1>1. /\ Running /\ pc = "record" /\ pc' = "record" /\ phase = "engaging" /\ phase' = "recording" /\ active' = Started
      /\ inbox' = Append(inbox, c)
      /\ UNCHANGED <<completed, rejection, outbox, child, disk, refused>>
  BY DEF Begin, Running, Send, childVars, historyVars
<1>2. active # None /\ rejection = None /\ Usable("recorder") /\ ~active.started /\ ~active.stopSent
      /\ active \in EpisodeType
  BY <1>1 DEF ControlInv, EpisodeShape, Unoccupied, Opening, RejectionShape, Rejected, Usable, Unavailable,
              TypeInv, TypeOK
<1>3. /\ active' \in EpisodeType /\ active'.id = active.id /\ active'.started /\ ~active'.stopSent
  BY <1>1, <1>2 DEF Started, EpisodeType
<1>4. c \in CommandType /\ c.operation = "begin" /\ c.episode = active.id /\ active' # None
  BY <1>2, <1>3, CommandTyped, NoneAssumption
<1>5. inbox = <<>>
  BY <1>1, <1>2 DEF ProtocolInv, Drained
<1> HIDE DEF c
<1>6. ASSUME child.state # "dead"
      PROVE  Chain(Append(inbox, c)) /\ Link'
  <2>1. Link /\ Chain(inbox) /\ inbox \in Seq(CommandType)
    BY <1>1, <1>2, <1>6 DEF ProtocolInv, TypeInv, TypeOK
  <2>2. child.state = "prepared" /\ child.acked /\ outbox = <<>>
    BY <1>1, <1>2, <2>1 DEF Link, Opened
  <2>3. Chain(Append(inbox, c))
    <3>1. c.operation \in Awaited
      BY <1>4, <2>2 DEF Awaited
    <3>2. \A i \in DOMAIN inbox : FALSE
      BY <1>5
    <3> QED BY <1>4, <1>5, <2>1, <2>2, <3>1, <3>2, ChainAppended
  <2>4. Open'
    <3>1. inbox' = <<c>>
      BY <1>1, <1>5
    <3>2. Capturing'
      BY <1>1, <1>4, <2>2, <3>1 DEF Capturing
    <3>3. \A o : Sent(o)' <=> c.operation = o
      BY <3>1 DEF Sent, Has
    <3> QED BY <1>1, <1>3, <1>4, <2>2, <3>2, <3>3 DEF Open
  <2>5. Link'
    BY <1>1, <1>2, <1>3, <1>4, <2>1, <2>4, GrownLink DEF Link
  <2> QED BY <2>3, <2>5
<1> QED BY <1>1, <1>2, <1>3, <1>4, <1>6, SendProtocol

\* While an episode is captured, control may add what the child awaits.
LEMMA SendOpen ==
    ASSUME TypeInv, ControlInv, ProtocolInv, Running, pc # "retire", pc' \notin {"retire", "closed"},
           Usable("recorder"), active # None, active.started,
           phase \notin {"cancelling", "finalizing"}, child.state # "dead"
    PROVE  /\ Link /\ Open /\ Chain(inbox) /\ inbox \in Seq(CommandType)
           /\ active \in EpisodeType
BY DEF Link, ProtocolInv, TypeInv, TypeOK

\* Receipts are sent while the episode records, before its cutoff.
LEMMA SamplesProtocol ==
    ASSUME TypeInv, ControlInv, ProtocolInv, pc = "record", pc' = "key", phase = "recording",
           Send("samples", active), UNCHANGED <<loopVars, childVars, outcome, historyVars>>
    PROVE  ProtocolInv'
<1> DEFINE c == Command("samples", active)
<1>1. /\ Running /\ inbox' = Append(inbox, c)
      /\ UNCHANGED <<phase, active, completed, rejection, outbox, child, disk, refused>>
  BY DEF Running, Send, loopVars, childVars, historyVars
<1>2. active # None /\ rejection = None /\ Usable("recorder") /\ active.started /\ ~active.stopSent
      /\ active \in EpisodeType
  BY <1>1 DEF ControlInv, EpisodeShape, Unoccupied, Opening, RejectionShape, Rejected, Usable, Unavailable,
              TypeInv, TypeOK
<1>3. c \in CommandType /\ c.operation = "samples" /\ c.episode = active.id
  BY <1>2, CommandTyped
<1> HIDE DEF c
<1>4. ASSUME child.state # "dead"
      PROVE  Chain(Append(inbox, c)) /\ Link'
  <2>1. Link /\ Open /\ Chain(inbox) /\ inbox \in Seq(CommandType)
    BY <1>1, <1>2, <1>4, SendOpen
  <2>2. Chain(Append(inbox, c))
    <3>1. /\ c.operation \in Awaited
          /\ \A i \in DOMAIN inbox : c.operation \in Following(inbox[i].operation)
          /\ child.state \in {"prepared", "recording"}
          /\ inbox = <<>> => child.state = "recording"
      BY <1>2, <1>3, <2>1, OpenQueue
    <3> QED BY <1>3, <2>1, <3>1, ChainAppended
  <2>3. Open'
    <3>1. Capturing'
      BY <1>1, <1>3, <2>1, GrownCapturing DEF Open
    <3>2. \A o : Sent(o)' <=> (Sent(o) \/ c.operation = o)
      BY <1>1, <1>3, GrownSent
    <3> QED BY <1>1, <1>2, <1>3, <2>1, <3>1, <3>2 DEF Open
  <2>4. Link'
    BY <1>1, <1>2, <1>3, <2>1, <2>3, GrownLink DEF Link
  <2> QED BY <2>2, <2>4
<1> QED BY <1>1, <1>2, <1>3, <1>4, SendProtocol

\* settled is sent once, behind the stop, when the hold is measured.
LEMMA FinalizeProtocol ==
    ASSUME TypeInv, ControlInv, ProtocolInv, pc = "dispose", pc' = "key",
           phase \in {"stopping", "review"}, active # None, active.started, active.stopSent,
           Usable("recorder"), Room, Finalize
    PROVE  ProtocolInv'
<1> DEFINE c == Command("settled", active)
<1>1. /\ Running /\ inbox' = Append(inbox, c) /\ phase' = "finalizing"
      /\ UNCHANGED <<active, completed, rejection, outbox, child, disk, refused>>
  BY DEF Running, Finalize, Send, childVars, historyVars
<1>2. active \in EpisodeType
  BY DEF TypeInv, TypeOK
<1>3. c \in CommandType /\ c.operation = "settled" /\ c.episode = active.id
  BY <1>2, CommandTyped
<1> HIDE DEF c
<1>4. ASSUME child.state # "dead"
      PROVE  Chain(Append(inbox, c)) /\ Link'
  <2>1. Link /\ Open /\ Chain(inbox) /\ inbox \in Seq(CommandType)
    BY <1>1, <1>4, SendOpen
  <2>2. Chain(Append(inbox, c))
    <3>1. /\ c.operation \in Awaited
          /\ \A i \in DOMAIN inbox : c.operation \in Following(inbox[i].operation)
          /\ child.state \in {"prepared", "recording"}
          /\ inbox = <<>> => child.state = "recording"
          /\ (child.state = "recording" /\ child.cutoff) \/ Has(inbox, "stop")
      BY <1>3, <2>1, OpenQueue DEF Sent
    <3> QED BY <1>3, <2>1, <3>1, ChainAppended
  <2>3. Sealing'
    <3>1. Capturing'
      BY <1>1, <1>3, <2>1, GrownCapturing DEF Open
    <3>2. Sent("settled")'
      BY <1>1, <1>3, GrownSent
    <3> QED BY <3>1, <3>2 DEF Sealing
  <2>4. Link'
    BY <1>1, <1>3, <2>1, <2>3, GrownLink DEF Link
  <2> QED BY <2>2, <2>4
<1> QED BY <1>1, <1>3, <1>4, SendProtocol

\* cancel is sent once, and nothing follows it.
LEMMA CancelProtocol ==
    ASSUME TypeInv, ControlInv, ProtocolInv, pc = "dispose", pc' = "key", phase = "review", active # None,
           NEW choice \in {None, "save", "abort"}, Usable("recorder"), Room, Cancel(choice)
    PROVE  ProtocolInv'
<1> DEFINE c == Command("cancel", active)
<1>1. /\ Running /\ inbox' = Append(inbox, c) /\ phase' = "cancelling"
      /\ UNCHANGED <<active, completed, outbox, child, disk, refused>>
  BY DEF Running, Cancel, Send, childVars, historyVars
<1>2. active \in EpisodeType
  BY DEF TypeInv, TypeOK
<1>3. c \in CommandType /\ c.operation = "cancel" /\ c.episode = active.id
  BY <1>2, CommandTyped
<1> HIDE DEF c
<1>4. ASSUME child.state # "dead"
      PROVE  Chain(Append(inbox, c)) /\ Link'
  <2>1. Link /\ Chain(inbox) /\ inbox \in Seq(CommandType) /\ (active.started => Open)
        /\ (~active.started => Opened)
    BY <1>1, <1>4 DEF Link, ProtocolInv, TypeInv, TypeOK
  <2>2. /\ c.operation \in Awaited
        /\ \A i \in DOMAIN inbox : c.operation \in Following(inbox[i].operation)
        /\ child.state \in {"idle", "prepared", "recording"}
        /\ inbox = <<>> => child.state # "idle"
        /\ outbox = <<>> \/ (outbox = <<"prepare">> /\ child.state = "prepared" /\ child.acked)
        /\ child.state = "prepared" /\ Sent("begin") => outbox = <<>> /\ child.acked
    <3>1. CASE active.started
      BY <1>3, <2>1, <3>1, OpenQueue DEF Open, Capturing
    <3>2. CASE ~active.started
      <4>1. CASE /\ child.state = "idle" /\ inbox = <<Command("prepare", active)>> /\ outbox = <<>>
        <5>1. \A i \in DOMAIN inbox : inbox[i].operation = "prepare"
          BY <1>2, <4>1, CommandTyped
        <5> QED BY <1>3, <4>1, <5>1 DEF Awaited, Following
      <4>2. CASE /\ child.state = "prepared" /\ inbox = <<>>
                 /\ outbox = <<>> \/ (outbox = <<"prepare">> /\ child.acked)
        <5>1. \A i \in DOMAIN inbox : FALSE
          BY <4>2
        <5> QED BY <1>3, <4>2, <5>1 DEF Awaited, Following, Sent, Has
      <4> QED BY <2>1, <3>2, <4>1, <4>2 DEF Opened
    <3> QED BY <3>1, <3>2
  <2>3. Chain(Append(inbox, c))
    BY <1>3, <2>1, <2>2, ChainAppended
  <2>4. Cancelling'
    <3>1. Sent("cancel")' /\ (Sent("begin")' => Sent("begin"))
      BY <1>1, <1>3, GrownSent
    <3> QED BY <1>1, <2>2, <3>1 DEF Cancelling
  <2>5. Link'
    BY <1>1, <1>3, <2>1, <2>4, GrownLink DEF Link
  <2> QED BY <2>3, <2>5
<1> QED BY <1>1, <1>3, <1>4, SendProtocol

\* flush and stop, or stop alone, end the receipts of the episode.
LEMMA TailProtocol ==
    ASSUME TypeInv, ControlInv, ProtocolInv, pc = "record", pc' = "dispose", phase \in {"stopping", "review"},
           active # None, active.started, ~active.stopSent, Usable("recorder"),
           NEW last \in {<<"stop">>, <<"flush", "stop">>}, NEW a, EpisodeOf(a), a # None,
           a.id = active.id, a.started = active.started,
           inbox' = Tailed(last, active), active' = [a EXCEPT !.stopSent = TRUE],
           UNCHANGED <<phase, completed, rejection, childVars, historyVars>>
    PROVE  ProtocolInv'
<1> DEFINE stop == Command("stop", active)
           flush == Command("flush", active)
           before == IF last = <<"stop">> THEN inbox ELSE Append(inbox, flush)
<1>1. active \in EpisodeType /\ active.id \in Episodes /\ inbox \in Seq(CommandType)
  BY DEF TypeInv, TypeOK
<1>2. /\ active' \in EpisodeType /\ active'.id = active.id /\ active'.started /\ active'.stopSent
      /\ active' # None
  BY NoneAssumption DEF EpisodeOf, EpisodeType
<1>3. /\ stop \in CommandType /\ stop.operation = "stop" /\ stop.episode = active.id
      /\ flush \in CommandType /\ flush.operation = "flush" /\ flush.episode = active.id
  BY <1>1, CommandTyped
<1>4. before \in Seq(CommandType) /\ inbox' = Append(before, stop)
  <2> HIDE DEF stop, flush, before
  <2> DEFINE longer == Tailed(last, active)
  <2>0. /\ longer \in Seq(CommandType)
        /\ Len(longer) = Len(inbox) + Len(last)
        /\ \A i \in 1 .. Len(inbox) : longer[i] = inbox[i]
        /\ \A i \in 1 .. Len(last) : longer[Len(inbox) + i] = Command(last[i], active)
    BY <1>1, TailAppended
  <2>1. /\ inbox' \in Seq(CommandType)
        /\ Len(inbox') = Len(inbox) + Len(last)
        /\ \A i \in 1 .. Len(inbox) : inbox'[i] = inbox[i]
        /\ \A i \in 1 .. Len(last) : inbox'[Len(inbox) + i] = Command(last[i], active)
    BY <2>0
  <2> HIDE DEF longer
  <2>2. CASE last = <<"stop">>
    <3>1. /\ Append(inbox, stop) \in Seq(CommandType)
          /\ Len(inbox') = Len(Append(inbox, stop))
          /\ inbox'[Len(inbox) + 1] = stop
      BY <1>1, <1>3, <2>1, <2>2 DEF stop
    <3>2. \A i \in 1 .. Len(inbox') : inbox'[i] = Append(inbox, stop)[i]
      BY <1>1, <2>1, <2>2, <3>1
    <3>3. inbox' = Append(inbox, stop)
      BY <2>1, <3>1, <3>2, SeqEqual
    <3> QED BY <1>1, <2>2, <3>3 DEF before
  <2>3. CASE last = <<"flush", "stop">>
    <3> DEFINE both == Append(Append(inbox, flush), stop)
    <3>0. Len(last) = 2 /\ last[1] = "flush" /\ last[2] = "stop"
      BY <2>3
    <3>1. /\ Append(inbox, flush) \in Seq(CommandType)
          /\ both \in Seq(CommandType)
          /\ Len(inbox') = Len(both)
          /\ Len(both) = Len(inbox) + 2
          /\ inbox'[Len(inbox) + 1] = flush
          /\ inbox'[Len(inbox) + 2] = stop
      <4>1. Append(inbox, flush) \in Seq(CommandType) /\ Len(Append(inbox, flush)) = Len(inbox) + 1
        BY <1>1, <1>3
      <4>2. both \in Seq(CommandType) /\ Len(both) = Len(inbox) + 2
        BY <1>1, <1>3, <4>1
      <4>3. inbox'[Len(inbox) + 1] = flush /\ inbox'[Len(inbox) + 2] = stop
        BY <2>1, <3>0 DEF stop, flush
      <4> QED BY <2>1, <3>0, <4>1, <4>2, <4>3
    <3>2. /\ \A i \in 1 .. Len(inbox) : both[i] = inbox[i]
          /\ both[Len(inbox) + 1] = flush
          /\ both[Len(inbox) + 2] = stop
      BY <1>1, <1>3
    <3> HIDE DEF both
    <3>3. \A i \in 1 .. Len(inbox') : inbox'[i] = both[i]
      <4> SUFFICES ASSUME NEW i \in 1 .. Len(inbox') PROVE inbox'[i] = both[i]
        OBVIOUS
      <4>1. i \in 1 .. Len(inbox) \/ i = Len(inbox) + 1 \/ i = Len(inbox) + 2
        <5>1. Len(inbox) \in Nat /\ Len(inbox') = Len(inbox) + 2
          BY <1>1, <3>1
        <5> QED BY <5>1
      <4>2. CASE i \in 1 .. Len(inbox)
        BY <2>1, <3>2, <4>2
      <4>3. CASE i = Len(inbox) + 1
        BY <3>1, <3>2, <4>3
      <4>4. CASE i = Len(inbox) + 2
        BY <3>1, <3>2, <4>4
      <4> QED BY <4>1, <4>2, <4>3, <4>4
    <3>4. inbox' = both
      BY <2>1, <3>1, <3>3, SeqEqual
    <3>5. last # <<"stop">>
      BY <2>3
    <3> QED BY <3>1, <3>4, <3>5 DEF both, before
  <2> QED BY <2>2, <2>3
<1>5. /\ inbox' \in Seq(CommandType)
      /\ \A i \in DOMAIN inbox' : inbox'[i].episode = active.id \/ (i \in DOMAIN inbox /\ inbox'[i] = inbox[i])
      /\ \A i \in DOMAIN inbox' : inbox'[i].operation \in {"flush", "stop"} \/ (i \in DOMAIN inbox /\ inbox'[i] = inbox[i])
      /\ \A i \in DOMAIN inbox : inbox'[i] = inbox[i] /\ i \in DOMAIN inbox'
      /\ \E i \in DOMAIN inbox' : inbox'[i].operation = "stop"
      /\ inbox' # <<>>
  <2> HIDE DEF stop, flush
  <2>1. CASE last = <<"stop">>
    <3>1. inbox' = Append(inbox, stop)
      BY <1>4, <2>1
    <3> QED BY <1>1, <1>3, <3>1, AppendedQueue
  <2>2. CASE last = <<"flush", "stop">>
    <3>1. last # <<"stop">>
      BY <2>2
    <3> DEFINE q == Append(inbox, flush)
    <3>2. /\ q \in Seq(CommandType)
          /\ \A i \in DOMAIN inbox : q[i] = inbox[i] /\ i \in DOMAIN q
          /\ \A i \in DOMAIN q : q[i] = flush \/ (i \in DOMAIN inbox /\ q[i] = inbox[i])
      BY <1>1, <1>3, AppendedQueue
    <3>3. inbox' = Append(q, stop)
      BY <1>4, <3>1
    <3> HIDE DEF q
    <3>4. /\ inbox' \in Seq(CommandType)
          /\ \A i \in DOMAIN q : inbox'[i] = q[i] /\ i \in DOMAIN inbox'
          /\ \E i \in DOMAIN inbox' : inbox'[i] = stop
          /\ \A i \in DOMAIN inbox' : inbox'[i] = stop \/ (i \in DOMAIN q /\ inbox'[i] = q[i])
          /\ inbox' # <<>>
      BY <1>3, <3>2, <3>3, AppendedQueue
    <3>5. \A i \in DOMAIN inbox' :
            inbox'[i] = stop \/ inbox'[i] = flush \/ (i \in DOMAIN inbox /\ inbox'[i] = inbox[i])
      BY <3>2, <3>4
    <3>6. \A i \in DOMAIN inbox : inbox'[i] = inbox[i] /\ i \in DOMAIN inbox'
      BY <3>2, <3>4
    <3>7. \A i \in DOMAIN inbox' :
            inbox'[i].episode = active.id \/ (i \in DOMAIN inbox /\ inbox'[i] = inbox[i])
      BY <1>3, <3>5
    <3>8. \A i \in DOMAIN inbox' :
            inbox'[i].operation \in {"flush", "stop"} \/ (i \in DOMAIN inbox /\ inbox'[i] = inbox[i])
      BY <1>3, <3>5
    <3> QED BY <1>3, <3>4, <3>6, <3>7, <3>8
  <2> QED BY <2>1, <2>2
<1>6. UNCHANGED <<phase, completed, rejection, outbox, child, disk, refused>> /\ Running /\ pc # "retire"
  BY DEF childVars, historyVars, Running
<1> HIDE DEF before
<1>7. Numbered'
  <2>1. \A e : Known(e) => Known(e)'
    BY <1>2, <1>6 DEF Known
  <2>2. \A e : e = active.id => Known(e)'
    BY <1>2, <1>6 DEF Known
  <2>3. (\A i \in DOMAIN inbox : Known(inbox[i].episode))'
    BY <1>5, <1>6, <2>1, <2>2 DEF ProtocolInv, Numbered
  <2> QED BY <1>2, <1>6, <2>1, <2>3 DEF ProtocolInv, Numbered
<1>8. Drained'
  BY <1>2, <1>6 DEF Drained
<1>9. ASSUME child.state # "dead"
      PROVE  Chain(inbox)' /\ Link'
  <2>1. Link /\ Open /\ Chain(inbox)
    BY <1>6, <1>9, SendOpen
  <2>2. Chain(before)
    <3>1. CASE before = inbox
      BY <2>1, <3>1
    <3>2. CASE before = Append(inbox, flush)
      <4>1. /\ flush.operation \in Awaited
            /\ \A i \in DOMAIN inbox : flush.operation \in Following(inbox[i].operation)
            /\ child.state \in {"prepared", "recording"}
            /\ inbox = <<>> => child.state = "recording"
        BY <1>3, <2>1, OpenQueue
      <4> QED BY <1>1, <1>3, <2>1, <3>2, <4>1, ChainAppended
    <3> QED BY <3>1, <3>2 DEF before
  <2>3. Chain(Append(before, stop))
    <3>1. /\ stop.operation \in Awaited
          /\ \A i \in DOMAIN inbox : stop.operation \in Following(inbox[i].operation)
          /\ child.state \in {"prepared", "recording"}
          /\ inbox = <<>> => child.state = "recording"
      BY <1>3, <2>1, OpenQueue
    <3>2. \A i \in DOMAIN before : stop.operation \in Following(before[i].operation)
      <4>1. CASE before = inbox
        BY <3>1, <4>1
      <4>2. CASE before = Append(inbox, flush)
        <5> HIDE DEF flush, stop
        <5>1. \A i \in DOMAIN before : before[i] = flush \/ (i \in DOMAIN inbox /\ before[i] = inbox[i])
          BY <1>1, <1>3, <4>2, AppendedQueue
        <5>2. stop.operation \in Following(flush.operation)
          BY <1>3 DEF Following
        <5> QED BY <3>1, <5>1, <5>2
      <4> QED BY <4>1, <4>2 DEF before
    <3>3. before = <<>> => inbox = <<>>
      <4> HIDE DEF flush
      <4>1. Append(inbox, flush) # <<>>
        BY <1>1, <1>3, AppendedQueue
      <4> QED BY <4>1 DEF before
    <3> QED BY <1>3, <1>4, <2>2, <3>1, <3>2, <3>3, ChainAppended
  <2>4. Chain(inbox)'
    <3> DEFINE q == Append(before, stop)
    <3>1. inbox' = q /\ Chain(q)
      BY <1>4, <2>3
    <3> HIDE DEF q
    <3> QED BY <1>6, <3>1 DEF Chain, Awaited
  <2>5. Open'
    <3>1. Capturing'
      <4>1. inbox # <<>> => 1 \in DOMAIN inbox
        BY <1>1
      <4> QED BY <1>5, <1>6, <2>1, <4>1 DEF Open, Capturing
    <3>2. Sent("stop")' /\ ~Sent("settled")' /\ ~Sent("cancel")'
      <4>1. Sent("stop")'
        BY <1>5 DEF Sent, Has
      <4>2. \A o \in {"settled", "cancel"} : \A i \in DOMAIN inbox : inbox[i].operation # o
        BY <2>1 DEF Open, Sent, Has
      <4>3. \A o \in {"settled", "cancel"} : \A i \in DOMAIN inbox' : inbox'[i].operation # o
        BY <1>5, <4>2
      <4> QED BY <4>1, <4>3 DEF Sent, Has
    <3> QED BY <1>2, <1>6, <2>1, <3>1, <3>2 DEF Open
  <2>6. Link'
    <3>1. /\ \A i \in DOMAIN inbox' : inbox'[i].episode = active'.id
          /\ child.state # "idle" => child.id = active'.id
      BY <1>2, <1>5, <1>6, <2>1 DEF Link
    <3> QED BY <1>2, <1>6, <2>1, <2>5, <3>1 DEF Link
  <2> QED BY <2>4, <2>6
<1> QED BY <1>6, <1>7, <1>8, <1>9 DEF ProtocolInv

-----------------------------------------------------------------------------
(* The recorder process.                                                    *)

\* The command at the head of the queue is one the child accepts, and what is
\* behind it is what the child awaits afterwards.
LEMMA HeadAccepted ==
    ASSUME TypeInv, Chain(inbox), inbox # <<>>, child.state # "dead"
    PROVE  /\ Accepts(inbox[1])
           /\ inbox[1].operation \in Awaited
           /\ child.state \in {"idle", "prepared", "recording"}
           /\ \A i \in DOMAIN inbox : i > 1 => inbox[i].operation \in Following(inbox[1].operation)
<1> DEFINE c == inbox[1]
<1>1. 1 \in DOMAIN inbox /\ c \in CommandType
  BY DEF TypeInv, TypeOK
<1>2. /\ c.operation \in Awaited
      /\ \A i \in DOMAIN inbox : i > 1 => inbox[i].operation \in Following(c.operation)
      /\ child.state = "idle" => c.operation = "prepare"
      /\ child.state = "prepared" => c.operation \in {"begin", "cancel"}
      /\ c.operation = "prepare" => disk[c.episode] = "none"
  BY <1>1 DEF Chain
<1>3. c.operation = "settled" => child.state = "recording" /\ child.cutoff
  BY <1>1 DEF Chain
<1> HIDE DEF c
<1>4. child.state \in {"idle", "prepared", "recording"}
  BY <1>2 DEF Awaited
<1>5. c.operation \in {"prepare", "begin", "samples", "flush", "freeze", "stop", "settled", "cancel"}
  BY <1>1 DEF CommandType
<1>6. ASSUME child.state = "idle" PROVE Accepts(c)
  BY <1>1, <1>2, <1>6, AcceptedBy
<1>7. ASSUME child.state = "prepared" PROVE Accepts(c)
  BY <1>1, <1>2, <1>7, AcceptedBy
<1>8. ASSUME child.state = "recording" PROVE Accepts(c)
  <2>1. c.operation \in Following("samples")
    BY <1>2, <1>8 DEF Awaited, Following
  <2>2. c.operation \in {"samples", "freeze", "flush", "stop", "settled", "cancel"}
    BY <2>1 DEF Following
  <2>3. c.operation = "samples" => ~child.cutoff /\ ~child.frozen
    BY <1>2, <1>8 DEF Awaited, Following
  <2>4. c.operation = "flush" => ~child.cutoff /\ ~child.flushed
    BY <1>2, <1>8 DEF Awaited, Following
  <2> QED BY <1>1, <1>3, <1>8, <2>2, <2>3, <2>4, AcceptedBy
<1> QED BY <1>2, <1>4, <1>6, <1>7, <1>8 DEF c

\* What is left of the queue when the child takes its head.
LEMMA TakenQueue ==
    ASSUME TypeInv, inbox # <<>>, inbox' = Tail(inbox)
    PROVE  /\ inbox[1] \in CommandType /\ Head(inbox) = inbox[1] /\ 1 \in DOMAIN inbox
           /\ DOMAIN inbox' = 1 .. (Len(inbox) - 1) /\ Len(inbox) \in Nat
           /\ \A i \in DOMAIN inbox' : i + 1 \in DOMAIN inbox /\ i + 1 > 1 /\ inbox'[i] = inbox[i + 1]
           /\ \A i \in DOMAIN inbox : i = 1 \/ (i - 1 \in DOMAIN inbox' /\ inbox'[i - 1] = inbox[i])
           /\ inbox' # <<>> => 1 \in DOMAIN inbox'
<1>1. inbox \in Seq(CommandType) /\ Len(inbox) \in Nat /\ Len(inbox) >= 1
  BY DEF TypeInv, TypeOK
<1>2. /\ inbox' \in Seq(CommandType) /\ Len(inbox') = Len(inbox) - 1
      /\ \A i \in 1 .. Len(inbox') : inbox'[i] = inbox[i + 1]
      /\ Head(inbox) = inbox[1]
  BY <1>1
<1>3. DOMAIN inbox' = 1 .. (Len(inbox) - 1) /\ DOMAIN inbox = 1 .. Len(inbox)
  BY <1>1, <1>2
<1>4. inbox' # <<>> => Len(inbox') # 0
  BY <1>2
<1> QED BY <1>1, <1>2, <1>3, <1>4

\* The child accepts the head of the queue, and the rest can still be taken:
\* this is why no command is ever refused.
LEMMA TakenChain ==
    ASSUME TypeInv, ChildTakes, Chain(inbox)
    PROVE  /\ Chain(inbox)'
           /\ UNCHANGED refused
           /\ Accepts(inbox[1]) /\ child' = ChildAfter(inbox[1])
<1> DEFINE c == inbox[1]
<1>1. inbox # <<>> /\ inbox' = Tail(inbox) /\ child.state # "dead"
  BY DEF ChildTakes
<1>2. /\ c \in CommandType /\ Head(inbox) = c /\ 1 \in DOMAIN inbox
      /\ \A i \in DOMAIN inbox' : i + 1 \in DOMAIN inbox /\ i + 1 > 1 /\ inbox'[i] = inbox[i + 1]
      /\ \A i \in DOMAIN inbox : i = 1 \/ (i - 1 \in DOMAIN inbox' /\ inbox'[i - 1] = inbox[i])
      /\ inbox' # <<>> => 1 \in DOMAIN inbox'
      /\ Len(inbox) \in Nat /\ DOMAIN inbox' = 1 .. (Len(inbox) - 1)
  BY <1>1, TakenQueue
<1>3. /\ Accepts(c) /\ c.operation \in Awaited
      /\ child.state \in {"idle", "prepared", "recording"}
      /\ \A i \in DOMAIN inbox : i > 1 => inbox[i].operation \in Following(c.operation)
  BY <1>1, <1>2, HeadAccepted
<1>4. child' = ChildAfter(c) /\ UNCHANGED refused
  BY <1>2, <1>3 DEF ChildTakes
<1> HIDE DEF c
<1>5. \A i \in DOMAIN inbox' : /\ inbox'[i].operation \in Following(c.operation)
                               /\ inbox'[i].operation \in Awaited
  BY <1>2, <1>3 DEF Chain
<1>6. c.operation \in {"prepare", "begin", "samples", "flush", "freeze", "stop", "settled", "cancel"}
      /\ child \in ChildType
  BY <1>2 DEF CommandType, TypeInv, TypeOK
<1>7. /\ c.operation = "prepare" => child'.state = "prepared" /\ child.state = "idle"
      /\ c.operation = "begin" => /\ child'.state = "recording" /\ child.state = "prepared"
                                  /\ ~child'.cutoff /\ ~child'.flushed /\ ~child'.frozen /\ ~child'.settled
      /\ c.operation \in {"samples", "flush", "freeze", "stop", "settled"} =>
           child'.state = "recording" /\ child.state = "recording" /\ ~child.settled
      /\ c.operation = "samples" => child' = child
      /\ c.operation = "flush" => child'.flushed /\ ~child'.cutoff /\ ~child'.settled
      /\ c.operation = "freeze" => /\ child'.frozen /\ child'.flushed = child.flushed /\ child'.cutoff = child.cutoff
                                   /\ ~child'.settled
      /\ c.operation = "stop" => child'.cutoff /\ ~child'.settled
      /\ c.operation = "settled" => child'.settled /\ child'.cutoff
      /\ c.operation = "cancel" => child'.state = "cancelling"
  <2>1. child.state = "recording" /\ child.settled => FALSE
    BY <1>3 DEF Awaited
  <2>2. c.operation \in {"samples", "flush", "freeze", "stop", "settled"} => child.state = "recording"
    <3>1. child.state = "prepared" => c.operation \in {"begin", "cancel"}
      BY <1>1, <1>2 DEF Chain, c
    <3>2. child.state = "idle" => c.operation = "prepare"
      BY <1>1, <1>2 DEF Chain, c
    <3> QED BY <1>3, <3>1, <3>2
  <2>3. /\ c.operation = "prepare" => child.state = "idle"
        /\ c.operation = "begin" => child.state = "prepared"
    <3>1. child.state = "recording" => c.operation \notin {"prepare", "begin"}
      BY <1>3 DEF Awaited, Following
    <3>2. child.state = "prepared" => c.operation \in {"begin", "cancel"}
      BY <1>1, <1>2 DEF Chain, c
    <3>3. child.state = "idle" => c.operation = "prepare"
      BY <1>1, <1>2 DEF Chain, c
    <3> QED BY <1>3, <3>1, <3>2, <3>3
  <2>4. c \in CommandType /\ child' = ChildAfter(c)
    BY <1>2, <1>4
  <2>5. /\ c.operation = "settled" => child.cutoff
        /\ c.operation = "flush" => ~child.cutoff
    BY <1>3, <2>4, AcceptedBy
  <2> QED BY <1>6, <2>1, <2>2, <2>3, <2>4, <2>5, LeftBy
<1>8. \A o : o \in Following(c.operation) /\ o \in Awaited => o \in Awaited'
  <2>1. CASE c.operation = "prepare"
    BY <1>7, <2>1 DEF Following, Awaited
  <2>2. CASE c.operation \in {"begin", "samples"}
    BY <1>7, <2>2 DEF Following, Awaited
  <2>3. CASE c.operation \in {"flush", "freeze"}
    BY <1>7, <2>3 DEF Following, Awaited
  <2>4. CASE c.operation = "stop"
    BY <1>7, <2>4 DEF Following, Awaited
  <2>5. CASE c.operation \in {"settled", "cancel"}
    BY <2>5 DEF Following
  <2> QED BY <1>6, <2>1, <2>2, <2>3, <2>4, <2>5
<1>9. (\A i \in DOMAIN inbox : inbox[i].operation \in Awaited)'
  BY <1>5, <1>8
<1>10. (\A i, j \in DOMAIN inbox : i < j => inbox[j].operation \in Following(inbox[i].operation))'
  <2> SUFFICES ASSUME NEW i \in DOMAIN inbox', NEW j \in DOMAIN inbox', i < j
               PROVE  inbox'[j].operation \in Following(inbox'[i].operation)
    OBVIOUS
  <2>1. i + 1 < j + 1
    BY <1>2
  <2> QED BY <1>2, <2>1 DEF Chain
<1>11. (/\ inbox # <<>> /\ child.state = "idle" => inbox[1].operation = "prepare"
        /\ inbox # <<>> /\ child.state = "prepared" => inbox[1].operation \in {"begin", "cancel"})'
  <2>1. child'.state # "idle" /\ (child'.state = "prepared" => c.operation = "prepare")
    BY <1>6, <1>7
  <2>2. Following("prepare") = {"cancel"}
    BY DEF Following
  <2> QED BY <1>2, <1>5, <2>1, <2>2
<1>12. (\A i \in DOMAIN inbox : inbox[i].operation = "prepare" => disk[inbox[i].episode] = "none")'
  <2>1. "prepare" \notin Following(c.operation)
    BY <1>6 DEF Following
  <2> QED BY <1>5, <2>1
<1>13. (\A i \in DOMAIN inbox : inbox[i].operation = "settled" =>
              \/ child.state = "recording" /\ child.cutoff
              \/ \E j \in DOMAIN inbox : j < i /\ inbox[j].operation = "stop")'
  <2> SUFFICES ASSUME NEW i \in DOMAIN inbox', inbox'[i].operation = "settled"
               PROVE  \/ child'.state = "recording" /\ child'.cutoff
                      \/ \E j \in DOMAIN inbox' : j < i /\ inbox'[j].operation = "stop"
    OBVIOUS
  <2>1. i + 1 \in DOMAIN inbox /\ inbox[i + 1].operation = "settled"
    BY <1>2
  <2>2. c.operation \notin {"settled", "cancel", "prepare"}
    BY <1>5 DEF Following
  <2>3. CASE child.state = "recording" /\ child.cutoff
    BY <1>3, <1>6, <1>7, <2>2, <2>3 DEF Accepts
  <2>4. CASE \E j \in DOMAIN inbox : j < i + 1 /\ inbox[j].operation = "stop"
    <3>1. PICK j \in DOMAIN inbox : j < i + 1 /\ inbox[j].operation = "stop"
      BY <2>4
    <3>2. CASE j = 1
      BY <1>7, <3>1, <3>2 DEF c
    <3>3. CASE j # 1
      <4>1. j - 1 \in DOMAIN inbox' /\ inbox'[j - 1].operation = "stop"
        BY <1>2, <3>1, <3>3
      <4>2. j - 1 < i
        BY <1>2, <3>1, <4>1
      <4> QED BY <4>1, <4>2
    <3> QED BY <3>2, <3>3
  <2> QED BY <2>1, <2>3, <2>4 DEF Chain
<1>14. Chain(inbox)'
  BY <1>9, <1>10, <1>11, <1>12, <1>13 DEF Chain
<1> QED BY <1>3, <1>4, <1>14 DEF c

\* What is still sent after the child takes the head.
LEMMA TakenSent ==
    ASSUME TypeInv, ChildTakes, Chain(inbox)
    PROVE  \A o : /\ Sent(o) => Sent(o)' \/ inbox[1].operation = o
                  /\ Sent(o)' => Sent(o) /\ o \in Following(inbox[1].operation)
<1>1. inbox # <<>> /\ inbox' = Tail(inbox) /\ child.state # "dead"
  BY DEF ChildTakes
<1>2. /\ \A i \in DOMAIN inbox' : i + 1 \in DOMAIN inbox /\ i + 1 > 1 /\ inbox'[i] = inbox[i + 1]
      /\ \A i \in DOMAIN inbox : i = 1 \/ (i - 1 \in DOMAIN inbox' /\ inbox'[i - 1] = inbox[i])
  BY <1>1, TakenQueue
<1>3. \A i \in DOMAIN inbox : i > 1 => inbox[i].operation \in Following(inbox[1].operation)
  BY <1>1, HeadAccepted
<1> QED BY <1>2, <1>3 DEF Sent, Has

\* The child taking a command keeps the protocol, in every phase.
LEMMA TakeProtocol ==
    ASSUME TypeInv, ControlInv, ProtocolInv, Running, ChildTakes
    PROVE  ProtocolInv'
<1> DEFINE c == inbox[1]
<1>1. /\ inbox # <<>> /\ inbox' = Tail(inbox) /\ child.state # "dead" /\ Chain(inbox)
      /\ UNCHANGED <<pc, phase, active, completed, rejection, outbox>>
  BY DEF ChildTakes, ProtocolInv, loopVars
<1>2. /\ c \in CommandType /\ Head(inbox) = c /\ 1 \in DOMAIN inbox
      /\ \A i \in DOMAIN inbox' : i + 1 \in DOMAIN inbox /\ i + 1 > 1 /\ inbox'[i] = inbox[i + 1]
  BY <1>1, TakenQueue
<1>3. /\ Accepts(c) /\ c.operation \in Awaited /\ Chain(inbox)' /\ child' = ChildAfter(c) /\ ~refused'
      /\ child.state \in {"idle", "prepared", "recording"}
  BY <1>1, <1>2, HeadAccepted, TakenChain DEF ProtocolInv
<1>4. /\ \A o : Sent(o) => Sent(o)' \/ c.operation = o
      /\ \A o : Sent(o)' => Sent(o) /\ o \in Following(c.operation)
  BY <1>1, TakenSent
<1>5. disk' = IF c.operation = "prepare" THEN [disk EXCEPT ![c.episode] = "partial"] ELSE disk
  BY <1>2, <1>3 DEF ChildTakes
<1>6. /\ child.state = "idle" => c.operation = "prepare"
      /\ child.state = "prepared" => c.operation \in {"begin", "cancel"}
      /\ child.state = "recording" =>
           c.operation \in {"samples", "flush", "freeze", "stop", "settled", "cancel"}
  <2>1. child.state = "recording" => c.operation \in {"samples", "flush", "freeze", "stop", "settled", "cancel"}
    BY <1>3 DEF Awaited, Following
  <2> QED BY <1>1, <1>2, <2>1 DEF Chain
<1>7. /\ c.episode \in Episodes /\ child \in ChildType /\ disk \in [Episodes -> {"none", "partial", "committed"}]
      /\ c.operation \in {"prepare", "begin", "samples", "flush", "freeze", "stop", "settled", "cancel"}
  BY <1>2 DEF TypeInv, TypeOK, CommandType
<1>8. Numbered /\ Known(c.episode)
  BY <1>1, <1>2 DEF ProtocolInv, Numbered
<1> HIDE DEF c
<1>9. /\ c.operation = "prepare" => child'.state = "prepared" /\ child'.id = c.episode /\ ~child'.acked
      /\ c.operation = "begin" =>
           /\ child'.state = "recording" /\ child'.id = child.id
           /\ ~child'.cutoff /\ ~child'.flushed /\ ~child'.frozen /\ ~child'.settled
      /\ c.operation = "samples" => child' = child
      /\ c.operation = "flush" =>
           /\ child'.state = child.state /\ child'.id = child.id /\ child'.flushed
           /\ child'.frozen = child.frozen /\ child'.cutoff = child.cutoff /\ child'.settled = child.settled
      /\ c.operation = "freeze" =>
           /\ child'.state = child.state /\ child'.id = child.id /\ child'.flushed = child.flushed
           /\ child'.frozen /\ child'.cutoff = child.cutoff /\ child'.settled = child.settled
      /\ c.operation = "stop" =>
           /\ child'.state = child.state /\ child'.id = child.id /\ child'.flushed = child.flushed
           /\ child'.frozen /\ child'.cutoff /\ child'.settled = child.settled
      /\ c.operation = "settled" =>
           child'.state = child.state /\ child'.id = child.id /\ child'.cutoff = child.cutoff /\ child'.settled
      /\ c.operation = "cancel" => child'.state = "cancelling" /\ child'.id = child.id
  <2> DEFINE after == ChildAfter(c)
  <2>1. child' = after
    BY <1>3
  <2> HIDE DEF after
  <2> QED BY <1>2, <1>7, <2>1, LeftBy DEF after
<1>10. Numbered'
  <2>1. \A e : Known(e) => Known(e)'
    BY <1>1 DEF Known
  <2>2. \A e \in Episodes : disk'[e] # "none" => disk[e] # "none" \/ e = c.episode
    BY <1>5, <1>7
  <2>3. (\A e \in Episodes : disk[e] # "none" => Known(e))'
    BY <1>8, <2>1, <2>2 DEF Numbered
  <2>4. (\A i \in DOMAIN inbox : Known(inbox[i].episode))'
    BY <1>2, <1>8, <2>1 DEF Numbered
  <2>5. child'.state \notin {"idle", "dead"} => disk'[child'.id] # "none"
    <3>1. CASE c.operation = "prepare"
      BY <1>5, <1>7, <1>9, <3>1
    <3>2. CASE c.operation # "prepare"
      <4>1. child'.id = child.id /\ disk' = disk /\ child.state \notin {"idle", "dead"}
        BY <1>3, <1>5, <1>6, <1>7, <1>9, <3>2
      <4> QED BY <1>8, <4>1 DEF Numbered
    <3> QED BY <3>1, <3>2
  <2> QED BY <1>1, <1>8, <2>3, <2>4, <2>5 DEF Numbered
<1>11. Drained'
  BY <1>1 DEF ProtocolInv, Drained, Usable, Unavailable
<1>12. ASSUME Usable("recorder")' PROVE Link'
  <2>1. Usable("recorder") /\ Link
    BY <1>1, <1>12 DEF Usable, Unavailable, ProtocolInv
  <2>2. active # None /\ pc # "retire"
    BY <1>1, <2>1 DEF Link, Quiet
  <2>3. /\ \A i \in DOMAIN inbox : inbox[i].episode = active.id
        /\ child.state # "idle" => child.id = active.id
    BY <2>1, <2>2 DEF Link
  <2>4. (\A i \in DOMAIN inbox : inbox[i].episode = active.id)'
    BY <1>1, <1>2, <2>3
  <2>5. child'.id = active.id
    <3>1. c.episode = active.id
      BY <1>2, <2>3 DEF c
    <3> QED BY <1>6, <1>7, <1>9, <2>3, <3>1
  <2>6. ASSUME Cancelling PROVE Cancelling'
    <3>1. /\ Sent("cancel")
          /\ outbox = <<>> \/ (outbox = <<"prepare">> /\ child.state = "prepared" /\ child.acked)
          /\ child.state = "prepared" /\ Sent("begin") => outbox = <<>> /\ child.acked
      BY <1>1, <1>3, <2>6 DEF Cancelling
    <3>2. CASE c.operation = "cancel"
      BY <1>1, <1>9, <3>1, <3>2 DEF Cancelling
    <3>3. CASE c.operation # "cancel"
      <4>1. Sent("cancel")' /\ child'.state \in {"prepared", "recording"}
        <5>1. Sent("cancel")'
          BY <1>4, <3>1, <3>3
        <5>2. child'.state \in {"prepared", "recording"}
          BY <1>3, <1>6, <1>9, <3>3
        <5> QED BY <5>1, <5>2
      <4>2. child'.state = "prepared" => c.operation = "prepare" /\ child.state = "idle"
        <5>1. child.state = "recording" => c.operation # "prepare"
          BY <1>6
        <5>2. c.operation # "prepare" => child'.state = "recording"
          BY <1>6, <1>7, <1>9, <1>3, <3>3
        <5>3. child.state = "prepared" => c.operation # "prepare"
          BY <1>6
        <5> QED BY <1>3, <5>1, <5>2, <5>3
      <4>3. child'.state = "prepared" => ~Sent("begin")'
        BY <1>4, <4>2 DEF Following
      <4>4. outbox = <<>>
        <5>1. child.state = "prepared" => c.operation = "begin" /\ Sent("begin")
          BY <1>2, <1>6, <3>3 DEF Sent, Has, c
        <5> QED BY <3>1, <5>1
      <4> QED BY <1>1, <4>1, <4>3, <4>4 DEF Cancelling
    <3> QED BY <3>2, <3>3
  <2>7. ASSUME Sealing PROVE Sealing'
    <3>1. Capturing /\ Sent("settled")
      BY <1>1, <1>3, <2>7 DEF Sealing, Awaited
    <3>2. outbox = <<>> /\ c.operation # "cancel" /\ child.state \in {"prepared", "recording"}
      BY <1>4, <3>1 DEF Capturing, Following
    <3>3. child'.state = "recording"
      BY <1>6, <1>9, <3>2
    <3>4. CASE c.operation = "settled"
      <4>1. child'.cutoff /\ child'.settled
        BY <1>2, <1>3, <1>9, <3>4, AcceptedBy
      <4> QED BY <1>1, <3>2, <3>3, <4>1 DEF Sealing
    <3>5. CASE c.operation # "settled"
      BY <1>1, <1>4, <3>1, <3>2, <3>3, <3>5 DEF Sealing, Capturing
    <3> QED BY <3>4, <3>5
  <2>8. ASSUME Open PROVE Open'
    <3>1. /\ outbox = <<>> /\ child.state \in {"prepared", "recording"}
          /\ child.state = "prepared" => c.operation = "begin"
          /\ c.operation \notin {"settled", "cancel", "prepare"}
      <4>1. Sent(c.operation)
        BY <1>2 DEF Sent, Has, c
      <4>2. c.operation \notin {"settled", "cancel"}
        BY <2>8, <4>1 DEF Open
      <4>3. outbox = <<>> /\ child.state \in {"prepared", "recording"}
        BY <2>8 DEF Open, Capturing
      <4> QED BY <1>6, <4>2, <4>3
    <3>2. Sent(c.operation)
      BY <1>2 DEF Sent, Has, c
    <3>3. child'.state = "recording" /\ ~child'.settled
      <4>1. child.state = "recording" => ~child.settled
        BY <2>8 DEF Open
      <4> QED BY <1>6, <1>9, <3>1, <4>1
    <3>4. Capturing' /\ ~Sent("settled")' /\ ~Sent("cancel")'
      BY <1>1, <1>4, <2>8, <3>1, <3>3 DEF Open, Capturing
    <3>5. ~active.stopSent =>
            /\ ~Sent("flush")' /\ ~Sent("stop")' /\ ~child'.flushed /\ ~child'.cutoff
      <4> SUFFICES ASSUME ~active.stopSent
                   PROVE  ~Sent("flush")' /\ ~Sent("stop")' /\ ~child'.flushed /\ ~child'.cutoff
        OBVIOUS
      <4>1. /\ ~Sent("flush") /\ ~Sent("stop") /\ c.operation \notin {"flush", "stop"}
            /\ child.state = "recording" => ~child.flushed /\ ~child.cutoff
        BY <2>8, <3>2 DEF Open
      <4> QED BY <1>4, <1>6, <1>7, <1>9, <3>1, <4>1
    <3>6. active.stopSent => Sent("stop")' \/ child'.cutoff
      <4>1. active.stopSent => Sent("stop") \/ (child.state = "recording" /\ child.cutoff)
        BY <2>8 DEF Open
      <4>2. child.state = "recording" /\ child.cutoff => child'.cutoff
        BY <1>6, <1>9, <3>1
      <4> QED BY <1>4, <1>9, <4>1, <4>2
    <3>7. ~active.stopSent /\ rejection = None => ~Sent("freeze")' /\ ~child'.frozen
      <4> SUFFICES ASSUME ~active.stopSent, rejection = None
                   PROVE  ~Sent("freeze")' /\ ~child'.frozen
        OBVIOUS
      <4>1. /\ ~Sent("freeze") /\ c.operation \notin {"freeze", "flush", "stop"}
            /\ child.state = "recording" => ~child.frozen
        BY <2>8, <3>2 DEF Open
      <4> QED BY <1>4, <1>6, <1>9, <3>1, <4>1
    <3> QED BY <1>1, <3>3, <3>4, <3>5, <3>6, <3>7 DEF Open
  <2>9. ASSUME Opened PROVE Opened'
    <3>1. child.state = "idle" /\ inbox = <<Command("prepare", active)>> /\ outbox = <<>> /\ phase # "engaging"
      BY <1>1, <2>9 DEF Opened
    <3>2. inbox' = <<>>
      BY <1>1, <3>1
    <3> QED BY <1>1, <1>6, <1>9, <3>1, <3>2 DEF Opened
  <2> QED BY <1>1, <2>1, <2>2, <2>4, <2>5, <2>6, <2>7, <2>8, <2>9 DEF Link
<1> QED BY <1>3, <1>10, <1>11, <1>12 DEF ProtocolInv

\* The directories keep their owner while the episode and the list do.
LEMMA KnownKept ==
    ASSUME UNCHANGED <<active, completed>>
    PROVE  \A e : Known(e) => Known(e)'
BY DEF Known

\* The child acknowledging a preparation keeps the protocol.
LEMMA AckProtocol ==
    ASSUME TypeInv, ControlInv, ProtocolInv, Running, ChildAcks
    PROVE  ProtocolInv'
<1>1. /\ child.state = "prepared" /\ ~child.acked /\ child' = [child EXCEPT !.acked = TRUE]
      /\ outbox' = Append(outbox, "prepare")
      /\ UNCHANGED <<pc, phase, active, completed, rejection, inbox, disk, refused>>
  BY DEF ChildAcks, loopVars, historyVars
<1>2. /\ child'.state = "prepared" /\ child'.acked /\ child'.id = child.id
      /\ child'.flushed = child.flushed /\ child'.frozen = child.frozen
      /\ child'.cutoff = child.cutoff /\ child'.settled = child.settled
  BY <1>1 DEF TypeInv, TypeOK, ChildType
<1>3. Numbered'
  BY <1>1, <1>2, KnownKept DEF ProtocolInv, Numbered
<1>4. Drained'
  BY <1>1 DEF ProtocolInv, Drained, Usable, Unavailable
<1>5. Chain(inbox)'
  BY <1>1, <1>2 DEF ProtocolInv, Chain, Awaited
<1>6. ASSUME Usable("recorder")' PROVE Link'
  <2>1. Link
    BY <1>1, <1>6 DEF ProtocolInv, Usable, Unavailable
  <2>2. active # None /\ pc # "retire"
    BY <1>1, <2>1 DEF Link, Quiet
  <2>3. \A o : Sent(o)' <=> Sent(o)
    BY <1>1 DEF Sent, Has
  <2>4. outbox = <<>> => outbox' = <<"prepare">>
    BY <1>1
  <2>5. Cancelling => Cancelling'
    BY <1>1, <1>2, <2>3, <2>4 DEF Cancelling
  <2>6. ~Sealing /\ ~Open
    BY <1>1 DEF Sealing, Open, Capturing
  <2>7. Opened => Opened'
    BY <1>1, <1>2, <2>4 DEF Opened
  <2> QED BY <1>1, <1>2, <2>1, <2>2, <2>5, <2>6, <2>7 DEF Link
<1> QED BY <1>1, <1>3, <1>4, <1>5, <1>6 DEF ProtocolInv

\* Where the child awaits nothing the queue is empty.
LEMMA NothingAwaited ==
    ASSUME TypeInv, Chain(inbox), Awaited = {}
    PROVE  inbox = <<>>
<1>1. \A i \in DOMAIN inbox : FALSE
  BY DEF Chain
<1> QED BY <1>1 DEF TypeInv, TypeOK

\* The child starting to seal keeps the protocol.
LEMMA FinalizesProtocol ==
    ASSUME TypeInv, ControlInv, ProtocolInv, Running, ChildFinalizes
    PROVE  ProtocolInv'
<1>1. /\ child.state = "recording" /\ child.cutoff /\ child.settled
      /\ child' = [child EXCEPT !.state = "finalizing"]
      /\ UNCHANGED <<pc, phase, active, completed, rejection, inbox, outbox, disk, refused>>
  BY DEF ChildFinalizes, loopVars, historyVars
<1>2. child'.state = "finalizing" /\ child'.id = child.id
  BY <1>1 DEF TypeInv, TypeOK, ChildType
<1>3. Numbered'
  BY <1>1, <1>2, KnownKept DEF ProtocolInv, Numbered
<1>4. Drained'
  BY <1>1 DEF ProtocolInv, Drained, Usable, Unavailable
<1>5. inbox = <<>>
  <2>1. Awaited = {}
    BY <1>1 DEF Awaited
  <2> QED BY <1>1, <2>1, NothingAwaited DEF ProtocolInv
<1>6. Chain(inbox)'
  BY <1>1, <1>2, <1>5 DEF Chain
<1>7. ASSUME Usable("recorder")' PROVE Link'
  <2>1. Link
    BY <1>1, <1>7 DEF ProtocolInv, Usable, Unavailable
  <2>2. active # None /\ pc # "retire"
    BY <1>1, <2>1 DEF Link, Quiet
  <2>3. \A o : ~Sent(o)
    BY <1>5 DEF Sent, Has
  <2>4. ~Cancelling /\ ~Open /\ ~Opened
    BY <1>1, <2>3 DEF Cancelling, Open, Opened
  <2>5. Sealing => Sealing'
    BY <1>1, <1>2, <2>3 DEF Sealing
  <2> QED BY <1>1, <1>2, <2>1, <2>2, <2>4, <2>5 DEF Link
<1> QED BY <1>1, <1>3, <1>4, <1>6, <1>7 DEF ProtocolInv

\* The child publishing the episode keeps the protocol.
LEMMA CommitsProtocol ==
    ASSUME TypeInv, ControlInv, ProtocolInv, Running, ChildCommits
    PROVE  ProtocolInv'
<1>1. /\ child.state = "finalizing" /\ child' = [child EXCEPT !.state = "committed"]
      /\ disk' = [disk EXCEPT ![child.id] = "committed"]
      /\ UNCHANGED <<pc, phase, active, completed, rejection, inbox, outbox, refused>>
  BY DEF ChildCommits, loopVars, historyVars
<1>2. child'.state = "committed" /\ child'.id = child.id /\ child.id \in Episodes
  BY <1>1 DEF TypeInv, TypeOK, ChildType
<1>3. disk'[child.id] = "committed" /\ \A e \in Episodes : e # child.id => disk'[e] = disk[e]
  BY <1>1, <1>2 DEF TypeInv, TypeOK
<1>4. Numbered'
  <2>1. Numbered
    BY DEF ProtocolInv
  <2>2. disk[child.id] # "none" /\ Known(child.id)
    BY <1>1, <1>2, <2>1 DEF Numbered
  <2>3. (\A e \in Episodes : disk[e] # "none" => Known(e))'
    BY <1>1, <1>3, <2>1, <2>2, KnownKept DEF Numbered
  <2> QED BY <1>1, <1>2, <1>3, <2>1, <2>3, KnownKept DEF Numbered
<1>5. Drained'
  BY <1>1 DEF ProtocolInv, Drained, Usable, Unavailable
<1>6. inbox = <<>>
  <2>1. Awaited = {}
    BY <1>1 DEF Awaited
  <2> QED BY <1>1, <2>1, NothingAwaited DEF ProtocolInv
<1>7. Chain(inbox)'
  BY <1>1, <1>2, <1>6 DEF Chain
<1>8. ASSUME Usable("recorder")' PROVE Link'
  <2>1. Link
    BY <1>1, <1>8 DEF ProtocolInv, Usable, Unavailable
  <2>2. active # None /\ pc # "retire"
    BY <1>1, <2>1 DEF Link, Quiet
  <2>3. \A o : ~Sent(o)
    BY <1>6 DEF Sent, Has
  <2>4. ~Cancelling /\ ~Open /\ ~Opened
    BY <1>1, <2>3 DEF Cancelling, Open, Opened, Capturing
  <2>5. child.id = active.id
    BY <1>1, <2>1, <2>2 DEF Link
  <2>6. Sealing => Sealing'
    BY <1>1, <1>2, <1>3, <2>3, <2>5 DEF Sealing
  <2> QED BY <1>1, <1>2, <2>1, <2>2, <2>4, <2>6 DEF Link
<1> QED BY <1>1, <1>4, <1>5, <1>7, <1>8 DEF ProtocolInv

\* The child answering complete or cancelled keeps the protocol.
LEMMA ReportsProtocol ==
    ASSUME TypeInv, ControlInv, ProtocolInv, Running, ChildReports
    PROVE  ProtocolInv'
<1>1. /\ child.state \in {"committed", "cancelling"} /\ child' = [child EXCEPT !.state = "idle"]
      /\ outbox' = Append(outbox, IF child.state = "committed" THEN "complete" ELSE "cancelled")
      /\ UNCHANGED <<pc, phase, active, completed, rejection, inbox, disk, refused>>
  BY DEF ChildReports, loopVars, historyVars
<1>2. child'.state = "idle"
  BY <1>1 DEF TypeInv, TypeOK, ChildType
<1>3. Numbered'
  BY <1>1, <1>2, KnownKept DEF ProtocolInv, Numbered
<1>4. Drained'
  BY <1>1 DEF ProtocolInv, Drained, Usable, Unavailable
<1>5. inbox = <<>>
  <2>1. Awaited = {}
    BY <1>1 DEF Awaited
  <2> QED BY <1>1, <2>1, NothingAwaited DEF ProtocolInv
<1>6. Chain(inbox)'
  BY <1>1, <1>5 DEF Chain
<1>7. ASSUME Usable("recorder")' PROVE Link'
  <2>1. Link
    BY <1>1, <1>7 DEF ProtocolInv, Usable, Unavailable
  <2>2. active # None /\ pc # "retire"
    BY <1>1, <2>1 DEF Link, Quiet
  <2>3. \A o : ~Sent(o)
    BY <1>5 DEF Sent, Has
  <2>4. ~Open /\ ~Opened
    BY <1>1 DEF Open, Opened, Capturing
  <2>5. Cancelling => Cancelling'
    <3>1. Cancelling => child.state = "cancelling" /\ outbox \in {<<>>, <<"prepare">>}
      BY <1>1, <2>3 DEF Cancelling
    <3>2. Cancelling => outbox' \in {<<"cancelled">>, <<"prepare", "cancelled">>}
      <4>1. Append(<<>>, "cancelled") = <<"cancelled">>
        OBVIOUS
      <4>2. Append(<<"prepare">>, "cancelled") = <<"prepare", "cancelled">>
        <5> DEFINE q == Append(<<"prepare">>, "cancelled")
                   r == <<"prepare", "cancelled">>
        <5>1. /\ q \in Seq({"prepare", "cancelled"}) /\ Len(q) = 2
              /\ q[1] = "prepare" /\ q[2] = "cancelled"
          OBVIOUS
        <5>2. /\ r \in Seq({"prepare", "cancelled"}) /\ Len(r) = 2
              /\ r[1] = "prepare" /\ r[2] = "cancelled"
          OBVIOUS
        <5> HIDE DEF q, r
        <5>3. \A i \in 1 .. 2 : i = 1 \/ i = 2
          OBVIOUS
        <5>4. q = r
          BY <5>1, <5>2, <5>3, SeqEqual
        <5> QED BY <5>4 DEF q, r
      <4>3. child.state = "cancelling" => outbox' = Append(outbox, "cancelled")
        BY <1>1
      <4> QED BY <3>1, <4>1, <4>2, <4>3
    <3> QED BY <1>1, <1>2, <1>5, <3>2 DEF Cancelling
  <2>6. Sealing => Sealing'
    <3>1. Sealing => child.state = "committed" /\ outbox = <<>> /\ disk[active.id] = "committed"
      BY <1>1, <2>3 DEF Sealing
    <3>2. Sealing => outbox' = <<"complete">>
      BY <1>1, <3>1
    <3> QED BY <1>1, <1>2, <1>5, <3>1, <3>2 DEF Sealing
  <2> QED BY <1>1, <1>2, <1>5, <2>1, <2>2, <2>4, <2>5, <2>6 DEF Link
<1> QED BY <1>1, <1>3, <1>4, <1>6, <1>7 DEF ProtocolInv

\* Nothing is asked of the queues of a child that has died.
LEMMA DiesProtocol ==
    ASSUME TypeInv, ControlInv, ProtocolInv, Running, ChildDies
    PROVE  ProtocolInv'
<1>1. /\ child' = DeadChild /\ child'.state = "dead"
      /\ UNCHANGED <<pc, phase, active, completed, rejection, inbox, disk, refused>>
  BY DEF ChildDies, loopVars, historyVars, DeadChild, NewChild
<1>2. Numbered'
  BY <1>1, KnownKept DEF ProtocolInv, Numbered
<1>3. Drained'
  BY <1>1 DEF ProtocolInv, Drained, Usable, Unavailable
<1> QED BY <1>1, <1>2, <1>3 DEF ProtocolInv

-----------------------------------------------------------------------------
(* The replies.                                                             *)

\* The reply being handled is the head of what the child left.
LEMMA HeadOfReplies ==
    ASSUME NEW operation, Reply(operation), TypeInv, ProtocolInv
    PROVE  /\ outbox # <<>> /\ pc = "poll" /\ Running /\ Usable("recorder") /\ child.state # "dead"
           /\ Link /\ Chain(inbox)
           /\ outbox = <<"prepare">> => operation = "prepare" /\ Tail(outbox) = <<>>
           /\ outbox = <<"cancelled">> => operation = "cancelled" /\ Tail(outbox) = <<>>
           /\ outbox = <<"complete">> => operation = "complete" /\ Tail(outbox) = <<>>
           /\ outbox = <<"prepare", "cancelled">> => operation = "prepare" /\ Tail(outbox) = <<"cancelled">>
<1>1. outbox # <<>> /\ Head(outbox) = operation /\ pc = "poll" /\ Running /\ Usable("recorder") /\ child.state # "dead"
  BY DEF Reply, Running
<1>2. Link /\ Chain(inbox)
  BY <1>1 DEF ProtocolInv
<1>3. outbox = <<"prepare">> => operation = "prepare" /\ Tail(outbox) = <<>>
  BY <1>1
<1>4. outbox = <<"cancelled">> => operation = "cancelled" /\ Tail(outbox) = <<>>
  BY <1>1
<1>5. outbox = <<"complete">> => operation = "complete" /\ Tail(outbox) = <<>>
  BY <1>1
<1>6. outbox = <<"prepare", "cancelled">> => operation = "prepare" /\ Tail(outbox) = <<"cancelled">>
  BY <1>1
<1> QED BY <1>1, <1>2, <1>3, <1>4, <1>5, <1>6

\* What the reply at the head of the queue says of the child.
LEMMA ReplyAwaited ==
    ASSUME NEW operation, Reply(operation), TypeInv, ControlInv, ProtocolInv
    PROVE  /\ active # None
           /\ operation = "prepare" => \/ phase \notin {"finalizing", "engaging"} /\ ~active.started /\ Opened
                                       \/ phase = "cancelling" /\ Cancelling
           /\ operation = "cancelled" => /\ phase = "cancelling" /\ outbox = <<"cancelled">>
                                         /\ child.state = "idle" /\ inbox = <<>>
           /\ operation = "complete" => /\ phase = "finalizing" /\ outbox = <<"complete">>
                                        /\ child.state = "idle" /\ inbox = <<>>
                                        /\ disk[active.id] = "committed"
<1>1. /\ outbox # <<>> /\ pc = "poll" /\ Running /\ Usable("recorder") /\ child.state # "dead"
      /\ Link /\ Chain(inbox)
      /\ outbox = <<"prepare">> => operation = "prepare" /\ Tail(outbox) = <<>>
      /\ outbox = <<"cancelled">> => operation = "cancelled" /\ Tail(outbox) = <<>>
      /\ outbox = <<"complete">> => operation = "complete" /\ Tail(outbox) = <<>>
      /\ outbox = <<"prepare", "cancelled">> => operation = "prepare" /\ Tail(outbox) = <<"cancelled">>
  BY HeadOfReplies
<1>2. active # None
  BY <1>1 DEF Link, Quiet
<1>3. CASE phase = "cancelling"
  <2>1. Cancelling
    BY <1>1, <1>2, <1>3 DEF Link
  <2>2. CASE outbox = <<"cancelled">>
    <3>1. outbox # <<"prepare">>
      BY <2>2
    <3> QED BY <1>1, <1>2, <1>3, <2>1, <2>2, <3>1 DEF Cancelling
  <2>3. CASE outbox # <<"cancelled">>
    BY <1>1, <1>2, <1>3, <2>1, <2>3 DEF Cancelling
  <2> QED BY <2>2, <2>3
<1>4. CASE phase = "finalizing"
  <2>1. Sealing
    BY <1>1, <1>2, <1>4 DEF Link
  <2> QED BY <1>1, <1>2, <1>4, <2>1 DEF Sealing, Capturing
<1>5. CASE phase \notin {"cancelling", "finalizing"}
  <2>1. IF active.started THEN Open ELSE Opened
    BY <1>1, <1>2, <1>5 DEF Link
  <2>2. ~active.started /\ Opened
    BY <1>1, <2>1 DEF Open, Capturing
  <2> QED BY <1>1, <1>2, <1>5, <2>2 DEF Opened
<1> QED BY <1>3, <1>4, <1>5

\* An entry is added for the episode that was active.
LEMMA ListedNumbered ==
    ASSUME TypeInv, Numbered, pc # "retire", pc' # "retire" \/ active' = active, active # None,
           active' \in {None, active}, active' = active => pc' = "retire",
           NEW entry, completed' = Append(completed, entry), entry \in EntryType,
           UNCHANGED <<inbox, child, disk>>
    PROVE  Numbered'
<1>1. Len(completed') = Len(completed) + 1 /\ Len(completed) = active.id /\ Len(completed) \in Nat
  BY DEF TypeInv, TypeOK, Numbered
<1>2. \A e \in Nat : Known(e) => Known(e)'
  BY <1>1 DEF Known
<1>3. active.id \in Episodes /\ MaxEpisodes \in Nat /\ Episodes \subseteq Nat
  BY BoundsAssumption DEF TypeInv, Episodes
<1>4. Len(completed') <= MaxEpisodes
  BY <1>1, <1>3 DEF Episodes
<1>5. (\A e \in Episodes : disk[e] # "none" => Known(e))'
  BY <1>2, <1>3 DEF Numbered
<1>6. (\A i \in DOMAIN inbox : Known(inbox[i].episode))'
  BY <1>2, <1>3 DEF Numbered, TypeInv
<1> QED BY <1>1, <1>4, <1>5, <1>6 DEF Numbered

\* What an entry of session.json says.
LEMMA EntryTyped ==
    ASSUME NEW a \in EpisodeType, NEW verified \in BOOLEAN
    PROVE  /\ Entry(a, verified) \in EntryType
           /\ Entry(a, verified).id = a.id
           /\ Entry(a, verified).verified = verified
           /\ Entry(a, verified).settled = a.settled
           /\ ~verified => Entry(a, verified).disposition = "aborted"
           /\ verified => Entry(a, verified).disposition = Disposition(a)
<1>1. Disposition(a) \in {"success", "fail", "aborted"}
  BY DEF Disposition
<1> QED BY <1>1 DEF Entry, EntryType, EpisodeType

\* Handling a reply, and retiring the episode after it, keep the protocol.
LEMMA RepliesProtocol ==
    ASSUME TypeInv, ControlInv, ProtocolInv,
           ReplyPrepared \/ ReplyPreparedLate \/ ReplyCancelled \/ ReplyComplete \/ ReplyCompleteFails
             \/ Retire \/ RetirePartial
    PROVE  ProtocolInv'
<1>1. ASSUME NEW operation, Reply(operation), pc' = "poll",
             outbox' = Tail(outbox), UNCHANGED <<active, completed, rejection, inbox, child, disk, refused>>,
             phase' = "engaging" => inbox = <<>>, Link'
      PROVE  ProtocolInv'
  <2>1. Running /\ pc = "poll" /\ child.state # "dead" /\ Usable("recorder")
    BY <1>1 DEF Reply, Running
  <2>2. Numbered'
    BY <1>1, <2>1, KnownKept DEF ProtocolInv, Numbered
  <2>3. Drained'
    BY <1>1, <2>1 DEF ProtocolInv, Drained
  <2>4. Chain(inbox)'
    BY <1>1, <2>1 DEF ProtocolInv, Chain, Awaited
  <2> QED BY <1>1, <2>1, <2>2, <2>3, <2>4 DEF ProtocolInv
<1>2. CASE ReplyPrepared
  <2>1. /\ Reply("prepare") /\ pc' = "poll" /\ phase = "preparing" /\ phase' = "engaging" /\ outbox' = Tail(outbox)
        /\ UNCHANGED <<active, completed, rejection, inbox, child, disk, refused>>
    BY <1>2 DEF ReplyPrepared, Reply, historyVars
  <2>2. active # None /\ ~active.started /\ Opened
    BY <2>1, ReplyAwaited
  <2>3. /\ outbox # <<>> /\ Link /\ pc = "poll"
        /\ outbox = <<"prepare">> => Tail(outbox) = <<>>
    BY <2>1, HeadOfReplies
  <2>4. child.state = "prepared" /\ child.acked /\ inbox = <<>> /\ outbox' = <<>>
    BY <2>1, <2>2, <2>3 DEF Opened
  <2>5. Opened'
    BY <2>1, <2>4 DEF Opened
  <2>6. Link'
    BY <2>1, <2>2, <2>3, <2>5 DEF Link
  <2> QED BY <1>1, <2>1, <2>4, <2>6
<1>3. CASE ReplyPreparedLate
  <2>1. /\ Reply("prepare") /\ pc' = "poll" /\ phase # "preparing" /\ outbox' = Tail(outbox)
        /\ UNCHANGED <<phase, active, completed, rejection, inbox, child, disk, refused>>
    BY <1>3 DEF ReplyPreparedLate, Reply, historyVars, loopVars
  <2>2. /\ active # None
        /\ \/ phase \notin {"finalizing", "engaging"} /\ ~active.started /\ Opened
           \/ phase = "cancelling" /\ Cancelling
    BY <2>1, ReplyAwaited
  <2>3. /\ outbox # <<>> /\ Link /\ pc = "poll"
        /\ outbox = <<"prepare">> => Tail(outbox) = <<>>
        /\ outbox = <<"prepare", "cancelled">> => Tail(outbox) = <<"cancelled">>
        /\ outbox # <<"cancelled">>
    <3>1. outbox = <<"cancelled">> => "prepare" = "cancelled"
      BY <2>1, HeadOfReplies
    <3> QED BY <2>1, <3>1, HeadOfReplies
  <2>4. CASE phase = "cancelling"
    <3>1. Cancelling
      BY <2>2, <2>3, <2>4 DEF Link
    <3>2. Cancelling'
      BY <2>1, <2>3, <3>1 DEF Cancelling, Sent, Has
    <3>3. Link'
      BY <2>1, <2>2, <2>3, <2>4, <3>2 DEF Link
    <3> QED BY <1>1, <2>1, <2>4, <3>3
  <2>5. CASE phase # "cancelling"
    <3>1. child.state = "prepared" /\ child.acked /\ inbox = <<>> /\ outbox' = <<>> /\ phase \notin {"finalizing", "engaging"}
      BY <2>1, <2>2, <2>3, <2>5 DEF Opened
    <3>2. Opened'
      BY <2>1, <3>1 DEF Opened
    <3>3. Link'
      BY <2>1, <2>2, <2>3, <2>5, <3>1, <3>2 DEF Link
    <3> QED BY <1>1, <2>1, <3>1, <3>3
  <2> QED BY <2>4, <2>5
<1>4. ASSUME NEW entry \in EntryType, completed' = Append(completed, entry),
             active # None, Running, pc # "retire", pc' # "closed",
             \/ active' = None /\ pc' # "retire"
             \/ active' = active /\ pc' = "retire",
             inbox = <<>>, child.state = "idle", outbox' = <<>>,
             UNCHANGED <<inbox, child, disk, refused>>
      PROVE  ProtocolInv'
  <2>1. Numbered'
    BY <1>4, ListedNumbered DEF ProtocolInv
  <2>2. Drained'
    BY <1>4 DEF Drained
  <2>3. Chain(inbox)'
    BY <1>4 DEF Chain
  <2>4. Link'
    BY <1>4 DEF Link, Quiet
  <2> QED BY <1>4, <2>1, <2>2, <2>3, <2>4 DEF ProtocolInv
<1>5. CASE ReplyCancelled
  <2>1. /\ Reply("cancelled") /\ pc = "poll" /\ pc' = "retire" /\ outbox' = Tail(outbox) /\ active' = active
        /\ completed' = Append(completed, Entry(active, FALSE))
        /\ UNCHANGED <<inbox, child, disk, refused>>
    BY <1>5 DEF ReplyCancelled, Reply, Partial, historyVars
  <2>2. active # None /\ child.state = "idle" /\ inbox = <<>> /\ outbox' = <<>>
    BY <2>1, ReplyAwaited, HeadOfReplies
  <2>3. Entry(active, FALSE) \in EntryType
    BY <2>2, EntryTyped DEF TypeInv, TypeOK
  <2> QED BY <1>4, <2>1, <2>2, <2>3 DEF Running
<1>6. CASE ReplyComplete
  <2>1. /\ Reply("complete") /\ pc = "poll" /\ pc' = "retire" /\ outbox' = Tail(outbox) /\ active' = active
        /\ completed' = Append(completed, Entry(active, TRUE))
        /\ UNCHANGED <<inbox, child, disk, refused>>
    BY <1>6 DEF ReplyComplete, Reply, historyVars
  <2>2. active # None /\ child.state = "idle" /\ inbox = <<>> /\ outbox' = <<>>
    BY <2>1, ReplyAwaited, HeadOfReplies
  <2>3. Entry(active, TRUE) \in EntryType
    BY <2>2, EntryTyped DEF TypeInv, TypeOK
  <2> QED BY <1>4, <2>1, <2>2, <2>3 DEF Running
<1>7. CASE ReplyCompleteFails
  <2>1. /\ Running /\ pc = "poll" /\ pc' = "move"
        /\ RejectCall("recorder", active, motion, FALSE, quit)
    BY <1>7 DEF ReplyCompleteFails, Reply, Running
  <2>2. EpisodeOf(active) /\ "recorder" \in Components /\ quit \in BOOLEAN
    BY DEF EpisodeOf, TypeInv, TypeOK, Components
  <2> QED BY <2>1, <2>2, RejectProtocol
<1>8. CASE Retire \/ RetirePartial
  <2>1. /\ Running /\ pc = "retire" /\ pc' \in {"poll", "key"} /\ active' = None
        /\ UNCHANGED <<completed, rejection, inbox, outbox, child, disk, refused>>
    BY <1>8 DEF Retire, RetirePartial, Running, childVars, historyVars
  <2>2. active # None
    BY <2>1 DEF ControlInv, PlaceShape, EpisodeShape, Unoccupied
  <2>3. Len(completed) = active.id + 1 /\ active.id \in Nat
    BY <2>1, <2>2 DEF ProtocolInv, Numbered, TypeInv, TypeOK, EpisodeType
  <2>4. \A e : Known(e) => Known(e)'
    BY <2>1, <2>3 DEF Known
  <2>5. Numbered'
    BY <2>1, <2>4 DEF ProtocolInv, Numbered
  <2>6. Drained'
    BY <2>1 DEF ProtocolInv, Drained, Usable, Unavailable
  <2>7. child.state # "dead" => Chain(inbox)'
    BY <2>1 DEF ProtocolInv, Chain, Awaited
  <2>8. child.state # "dead" /\ Usable("recorder")' => Link'
    BY <2>1 DEF ProtocolInv, Link, Quiet, Usable, Unavailable
  <2> QED BY <2>1, <2>5, <2>6, <2>7, <2>8 DEF ProtocolInv
<1> QED BY <1>2, <1>3, <1>5, <1>6, <1>7, <1>8

-----------------------------------------------------------------------------
(* The phases.                                                              *)

\* A step that only changes the loop, motion or the quit.
LEMMA IdleProtocol ==
    ASSUME ProtocolInv, Running, pc # "retire", pc' # "retire", SameWait,
           UNCHANGED <<active, completed, rejection, inbox, outbox, child, disk, refused>>
    PROVE  ProtocolInv'
<1>1. SameEpisode
  BY DEF SameEpisode
<1>2. Usable("recorder")' => Usable("recorder")
  BY DEF Usable, Unavailable
<1> QED BY <1>1, <1>2, ProtocolFrame

\* A step that only notes something in the rejection.
LEMMA NotedProtocol ==
    ASSUME TypeInv, ProtocolInv, Running, (pc = "retire") <=> (pc' = "retire"), SameWait,
           rejection # None, rejection' \in RejectionType,
           rejection.unavailable \subseteq rejection'.unavailable,
           UNCHANGED <<active, completed, inbox, outbox, child, disk, refused>>
    PROVE  ProtocolInv'
<1>1. SameEpisode
  BY DEF SameEpisode
<1>2. rejection' # None /\ (Usable("recorder")' => Usable("recorder"))
  BY NoneAssumption DEF Usable, Unavailable
<1> QED BY <1>1, <1>2, ProtocolFrame

\* A resolved rejection without an episode waits for nothing.
LEMMA ResolvedProtocol ==
    ASSUME TypeInv, ControlInv, ProtocolInv, Running, pc # "retire", pc' = "key", active = None,
           phase \in {"resolving", "review"}, ResolvedTo("resolving")
    PROVE  ProtocolInv'
<1>1. /\ rejection # None
      /\ UNCHANGED <<active, completed, inbox, outbox, child, disk, refused>>
  BY DEF ResolvedTo, childVars, historyVars, ControlInv, RejectionShape, Unrejected
<1>2. phase' \in {"blocked", "idle", "resolving"}
  BY DEF ResolvedTo
<1>3. Usable("recorder")' => Usable("recorder")
  <2>1. CASE rejection.unavailable # {}
    BY <2>1 DEF ResolvedTo, Usable, Unavailable
  <2>2. CASE rejection.unavailable = {}
    BY <1>1, <2>2 DEF Usable, Unavailable
  <2> QED BY <2>1, <2>2
<1>4. Numbered'
  BY <1>1, KnownKept DEF ProtocolInv, Numbered
<1>5. Drained'
  BY <1>1, <1>3 DEF ProtocolInv, Drained
<1>6. child.state # "dead" => Chain(inbox)'
  BY <1>1 DEF ProtocolInv, Chain, Awaited
<1>7. child.state # "dead" /\ Usable("recorder")' => Link'
  BY <1>1, <1>3 DEF ProtocolInv, Link, Quiet
<1> QED BY <1>1, <1>4, <1>5, <1>6, <1>7 DEF ProtocolInv

\* One more entry.
LEMMA ListGrown ==
    ASSUME TypeInv, NEW entry \in EntryType, completed' = Append(completed, entry)
    PROVE  /\ Len(completed') = Len(completed) + 1 /\ Len(completed) \in Nat
           /\ DOMAIN completed' = 1 .. (Len(completed) + 1)
           /\ \A i \in DOMAIN completed : completed'[i] = completed[i] /\ i \in DOMAIN completed'
           /\ completed'[Len(completed) + 1] = entry
           /\ \A i \in DOMAIN completed' : i \in DOMAIN completed \/ i = Len(completed) + 1
<1>1. /\ completed' \in Seq(EntryType) /\ Len(completed') = Len(completed) + 1 /\ Len(completed) \in Nat
      /\ \A i \in 1 .. Len(completed) : completed'[i] = completed[i]
      /\ completed'[Len(completed) + 1] = entry
      /\ DOMAIN completed = 1 .. Len(completed)
  BY DEF TypeInv, TypeOK
<1>2. DOMAIN completed' = 1 .. (Len(completed) + 1)
  BY <1>1
<1> QED BY <1>1, <1>2

\* _partial lists the episode before it retires it; any other outcome of the
\* second half of _stopping ends the step.
Disposed == pc' = IF completed' = completed THEN "key" ELSE "retire"

\* A cancellation that is sent, that keeps the partial, or that finds the queue
\* full.
LEMMA AbandonProtocol ==
    ASSUME TypeInv, ControlInv, ProtocolInv, pc = "dispose", Disposed, phase = "review", active # None,
           NEW choice \in {None, "save", "abort"}, Cancel(choice)
    PROVE  ProtocolInv'
<1>1. Running /\ rejection # None /\ rejection \in RejectionType
  BY DEF Running, ControlInv, RejectionShape, Unrejected, TypeInv, TypeOK
<1>2. CASE Usable("recorder") /\ Room
  <2>1. pc' = "key"
    BY <1>2 DEF Cancel, Disposed
  <2> QED BY <1>2, <2>1, CancelProtocol
<1>3. CASE ~Usable("recorder")
  <2>1. /\ active' = active /\ completed' = Append(completed, Entry(active, FALSE))
        /\ rejection' = [rejection EXCEPT !.choice = choice]
        /\ UNCHANGED <<inbox, outbox, child, disk, refused>>
    BY <1>3 DEF Cancel, Partial, childVars, historyVars
  <2>2. Entry(active, FALSE) \in EntryType
    BY EntryTyped DEF TypeInv, TypeOK
  <2>3. pc' = "retire" /\ Numbered'
    <3>1. Len(completed') # Len(completed)
      BY <2>1, <2>2, ListGrown
    <3> QED BY <1>1, <2>1, <2>2, <3>1, ListedNumbered DEF ProtocolInv, Disposed
  <2>4. ~Usable("recorder")'
    <3>1. rejection' \in RejectionType /\ rejection'.unavailable = rejection.unavailable
      BY <1>1, <2>1 DEF RejectionType
    <3> QED BY <1>1, <1>3, <3>1, NoneAssumption DEF Usable, Unavailable
  <2>5. child.state # "dead" => Chain(inbox)'
    BY <1>1, <2>1 DEF ProtocolInv, Chain, Awaited
  <2> QED BY <1>1, <2>1, <2>3, <2>4, <2>5 DEF ProtocolInv, Drained
<1>4. CASE Usable("recorder") /\ ~Room
  <2>1. /\ rejection' = [rejection EXCEPT !.choice = choice, !.unavailable = @ \cup {"recorder"}]
        /\ phase' = phase /\ UNCHANGED <<active, completed, inbox, outbox, child, disk, refused>>
    BY <1>4 DEF Cancel, childVars, historyVars
  <2>2. rejection' \in RejectionType /\ rejection.unavailable \subseteq rejection'.unavailable
    BY <1>1, <2>1 DEF RejectionType, Lossy
  <2>3. pc' = "key"
    BY <2>1 DEF Disposed
  <2> QED BY <1>1, <2>1, <2>2, <2>3, NotedProtocol DEF SameWait
<1> QED BY <1>2, <1>3, <1>4

\* An episode the recorder can no longer verify is given up.
LEMMA UnverifiableProtocol ==
    ASSUME TypeInv, ControlInv, ProtocolInv, pc = "dispose", Disposed, phase = "review", active # None,
           Unverifiable
    PROVE  ProtocolInv'
<1>1. Running /\ rejection # None /\ rejection \in RejectionType
  BY DEF Running, ControlInv, RejectionShape, Unrejected, TypeInv, TypeOK
<1>2. CASE quit
  BY <1>2, AbandonProtocol DEF Unverifiable
<1>3. CASE ~quit
  <2>1. /\ rejection' = [rejection EXCEPT !.choice = None]
        /\ UNCHANGED <<phase, active, completed, inbox, outbox, child, disk, refused>>
    BY <1>3 DEF Unverifiable, childVars, historyVars
  <2>2. rejection' \in RejectionType /\ rejection'.unavailable = rejection.unavailable
    BY <1>1, <2>1 DEF RejectionType
  <2>3. pc' = "key"
    BY <2>1 DEF Disposed
  <2> QED BY <1>1, <2>1, <2>2, <2>3, NotedProtocol DEF SameWait
<1> QED BY <1>2, <1>3

\* The hold is reported, or the queue is full.
LEMMA ReportProtocol ==
    ASSUME TypeInv, ControlInv, ProtocolInv, pc = "dispose", Disposed,
           phase \in {"stopping", "review"}, active # None, active.started, active.stopSent,
           Usable("recorder"), Finalize
    PROVE  ProtocolInv'
<1>1. CASE Room
  <2>1. pc' = "key"
    BY <1>1 DEF Finalize, Disposed
  <2> QED BY <1>1, <2>1, FinalizeProtocol
<1>2. CASE ~Room
  <2>1. RejectCall("recorder", active, motion, FALSE, quit) /\ pc' = "key"
    BY <1>2 DEF Finalize, Reject, RejectWith, RejectCall, Disposed
  <2>2. EpisodeOf(active) /\ "recorder" \in Components /\ quit \in BOOLEAN /\ Running
    BY DEF EpisodeOf, TypeInv, TypeOK, Components, Running
  <2> QED BY <2>1, <2>2, RejectProtocol
<1> QED BY <1>1, <1>2

\* Each choice of the operator in review keeps the protocol.
LEMMA ReviewProtocol ==
    ASSUME TypeInv, ControlInv, ProtocolInv, pc = "dispose", Disposed, phase = "review", Review
    PROVE  ProtocolInv'
<1>1. Running /\ rejection # None /\ rejection \in RejectionType /\ rejection.choice \in {"save", "abort"}
  BY DEF Running, ControlInv, RejectionShape, Unrejected, TypeInv, TypeOK, Review, RejectionType
<1>2. active # None /\ active.stopSent => active.started
  BY <1>1 DEF ControlInv, EpisodeShape
<1>3. CASE active = None
  <2>1. ResolvedTo("resolving") /\ pc' = "key"
    BY <1>3 DEF Review, ResolvedTo, Disposed
  <2> QED BY <1>1, <1>3, <2>1, ResolvedProtocol
<1>4. CASE active # None /\ (rejection.choice = "abort" \/ ~active.started)
  <2>1. Cancel(rejection.choice)
    BY <1>4 DEF Review
  <2> QED BY <1>1, <1>4, <2>1, AbandonProtocol
<1>5. CASE active # None /\ active.started /\ rejection.choice = "save"
  <2>1. CASE rejection.unavailable \ {"motion"} # {}
    BY <1>5, <2>1, UnverifiableProtocol DEF Review
  <2>2. CASE rejection.unavailable \subseteq {"motion"} /\ active.stopSent /\ StopConfirmed
    <3>1. Finalize
      BY <1>5, <2>2 DEF Review
    <3>2. Usable("recorder")
      BY <1>1, <2>2 DEF Usable, Unavailable
    <3> QED BY <1>5, <2>2, <3>1, <3>2, ReportProtocol
  <2>3. CASE /\ rejection.unavailable = {"motion"} /\ ~(active.stopSent /\ StopConfirmed)
             /\ rejection.overdue
    BY <1>5, <2>3, UnverifiableProtocol DEF Review
  <2>4. CASE /\ rejection.unavailable \subseteq {"motion"}
             /\ ~(active.stopSent /\ StopConfirmed)
             /\ ~(rejection.unavailable = {"motion"} /\ rejection.overdue)
    <3>1. UNCHANGED <<loopVars, inbox, childVars, outcome, historyVars>>
      BY <1>5, <2>4 DEF Review
    <3> QED BY <1>1, <3>1, IdleProtocol DEF SameWait, Disposed, loopVars, childVars, historyVars
  <2> QED BY <2>1, <2>2, <2>3, <2>4
<1> QED BY <1>1, <1>3, <1>4, <1>5

\* So does each outcome of the second half of _stopping.
LEMMA DisposeProtocol ==
    ASSUME TypeInv, ControlInv, ProtocolInv, Dispose
    PROVE  ProtocolInv'
<1>1. Running /\ pc = "dispose" /\ Disposed /\ phase \in {"stopping", "review"}
  BY DEF Dispose, Disposed, Running, ControlInv, PlaceShape
<1>2. CASE phase = "stopping" /\ motion = "held" /\ active.stopSent
  <2>1. Finalize
    BY <1>2 DEF Dispose
  <2>2. active # None /\ active.started /\ Usable("recorder")
    BY <1>1, <1>2 DEF ControlInv, EpisodeShape, RejectionShape, Unoccupied, Rejected, Usable, Unavailable
  <2> QED BY <1>1, <1>2, <2>1, <2>2, ReportProtocol
<1>3. CASE phase = "review" /\ rejection.choice # None
  BY <1>1, <1>3, ReviewProtocol DEF Dispose
<1>4. CASE /\ ~(phase = "stopping" /\ motion = "held" /\ active.stopSent)
           /\ ~(phase = "review" /\ rejection.choice # None)
  <2>1. UNCHANGED <<loopVars, inbox, childVars, outcome, historyVars>>
    BY <1>4 DEF Dispose
  <2> QED BY <1>1, <2>1, IdleProtocol DEF SameWait, Disposed, loopVars, childVars, historyVars
<1> QED BY <1>2, <1>3, <1>4

\* The steps after which the recorder protocol is as it was.
LEMMA LoopProtocol ==
    ASSUME TypeInv, ControlInv, ProtocolInv,
           \/ Loop \/ PollNothing \/ NoKey \/ RecordIdle \/ MoveOn \/ Observe \/ (Overdue /\ Running)
           \/ TailWaits \/ (\E choice \in {"save", "abort"} : KeyReview(choice))
           \/ KeyEngage \/ KeyHome
    PROVE  ProtocolInv'
<1>1. CASE Loop \/ PollNothing \/ NoKey \/ RecordIdle
  <2>1. Running /\ pc # "retire" /\ pc' # "retire"
    BY <1>1 DEF Loop, PollNothing, NoKey, RecordIdle, Running
  <2>2. UNCHANGED <<phase, active, completed, rejection, inbox, outbox, child, disk, refused>>
    BY <1>1 DEF Loop, PollNothing, NoKey, RecordIdle, loopVars, childVars, historyVars
  <2> QED BY <2>1, <2>2, IdleProtocol DEF SameWait
<1>2. CASE MoveOn \/ KeyEngage \/ KeyHome
  <2>1. Running /\ pc # "retire" /\ pc' # "retire"
    BY <1>2 DEF MoveOn, KeyEngage, KeyHome, Key, Running
  <2>2. UNCHANGED <<phase, active, completed, rejection, inbox, outbox, child, disk, refused>>
    BY <1>2 DEF MoveOn, KeyEngage, KeyHome, childVars, historyVars
  <2> QED BY <2>1, <2>2, IdleProtocol DEF SameWait
<1>3. CASE Observe
  <2>1. Running /\ pc = "move" /\ pc' = "record" /\ rejection # None /\ rejection \in RejectionType
    BY <1>3 DEF Observe, Running, Usable, Unavailable, TypeInv, TypeOK
  <2>2. UNCHANGED <<phase, active, completed, inbox, outbox, child, disk, refused>>
    BY <1>3 DEF Observe, childVars, historyVars
  <2>3. rejection' \in RejectionType /\ rejection'.unavailable = rejection.unavailable
    BY <1>3, <2>1 DEF Observe, RejectionType
  <2> QED BY <2>1, <2>2, <2>3, NotedProtocol DEF SameWait
<1>4. CASE Overdue /\ Running
  <2>1. pc' = pc /\ rejection # None /\ rejection \in RejectionType
    BY <1>4 DEF Overdue, TypeInv, TypeOK
  <2>2. UNCHANGED <<phase, active, completed, inbox, outbox, child, disk, refused>>
    BY <1>4 DEF Overdue, childVars, historyVars
  <2>3. rejection' \in RejectionType /\ rejection'.unavailable = rejection.unavailable
    BY <1>4, <2>1 DEF Overdue, RejectionType
  <2> QED BY <1>4, <2>1, <2>2, <2>3, NotedProtocol DEF SameWait
<1>5. CASE TailWaits
  <2>1. Running /\ pc = "record" /\ pc' = "dispose" /\ active' = Settled
    BY <1>5 DEF TailWaits, Running
  <2>2. UNCHANGED <<phase, completed, rejection, inbox, outbox, child, disk, refused>>
    BY <1>5 DEF TailWaits, childVars, historyVars
  <2>3. SameEpisode
    BY <2>1, SettledKept DEF SameEpisode
  <2> QED BY <2>1, <2>2, <2>3, ProtocolFrame DEF SameWait, Usable, Unavailable
<1>6. CASE \E choice \in {"save", "abort"} : KeyReview(choice)
  <2>1. PICK choice \in {"save", "abort"} : KeyReview(choice)
    BY <1>6
  <2>2. Running /\ pc = "key" /\ pc' = "loop" /\ phase = "review"
    BY <2>1 DEF KeyReview, Key, Running
  <2>3. rejection # None /\ rejection \in RejectionType
    BY <2>2 DEF ControlInv, RejectionShape, Unrejected, TypeInv, TypeOK
  <2>4. UNCHANGED <<phase, active, completed, inbox, outbox, child, disk, refused>>
    BY <2>1 DEF KeyReview, childVars, historyVars
  <2>5. rejection' \in RejectionType /\ rejection'.unavailable = rejection.unavailable
    BY <2>1, <2>3 DEF KeyReview, RejectionType
  <2> QED BY <2>2, <2>3, <2>4, <2>5, NotedProtocol DEF SameWait
<1> QED BY <1>1, <1>2, <1>3, <1>4, <1>5, <1>6

\* Every operation that _guarded catches.
LEMMA FailureProtocol ==
    ASSUME TypeInv, ControlInv, ProtocolInv,
           \/ PollFails \/ ReadFails \/ (\E hard \in BOOLEAN : MoveFails(hard) \/ KeyHomeFails(hard))
           \/ (\E reason \in {"space", "fail", "abort"} : KeyStopFails(reason)) \/ KeyQuitFails
    PROVE  ProtocolInv'
<1>1. EpisodeOf(active) /\ quit \in BOOLEAN
      /\ "recorder" \in Components /\ "readers" \in Components /\ "motion" \in Components /\ "session" \in Components
  BY DEF EpisodeOf, TypeInv, TypeOK, Components
<1>2. CASE PollFails \/ ReadFails \/ \E hard \in BOOLEAN : MoveFails(hard) \/ KeyHomeFails(hard)
  <2>1. Running /\ pc # "retire" /\ pc' # "retire"
    BY <1>2 DEF PollFails, ReadFails, MoveFails, KeyHomeFails, Key, Running
  <2>2. \E component \in Components, hard \in BOOLEAN :
           RejectCall(component, active, motion, hard, quit)
    BY <1>1, <1>2 DEF PollFails, ReadFails, MoveFails, KeyHomeFails, Reject, RejectWith
  <2> QED BY <1>1, <2>1, <2>2, RejectProtocol
<1>3. ASSUME Running, phase = "recording", NEW reason \in {"space", "fail", "abort", "session_end"},
             NEW quitting \in BOOLEAN, pc = "key", pc' = "loop",
             RejectCall("session", [active EXCEPT !.reason = reason], motion, TRUE, quitting)
      PROVE  ProtocolInv'
  <2> DEFINE a == [active EXCEPT !.reason = reason]
  <2>1. active # None /\ active \in EpisodeType
    BY <1>3 DEF ControlInv, EpisodeShape, Unoccupied, TypeInv, TypeOK
  <2>2. /\ EpisodeOf(a) /\ a # None /\ a.started = active.started /\ a.stopSent = active.stopSent
        /\ a.id = active.id
    BY <1>1, <1>3, <2>1, NoneAssumption DEF EpisodeOf, EpisodeType
  <2> HIDE DEF a
  <2>3. RejectCall("session", a, motion, TRUE, quitting)
    BY <1>3 DEF a
  <2> QED BY <1>1, <1>3, <2>1, <2>2, <2>3, RejectProtocol
<1>4. CASE \E reason \in {"space", "fail", "abort"} : KeyStopFails(reason)
  BY <1>1, <1>3, <1>4 DEF KeyStopFails, RejectWith, Key, Running
<1>5. CASE KeyQuitFails
  <2>1. Running /\ pc = "key" /\ pc' = "loop" /\ rejection = None
    BY <1>5 DEF KeyQuitFails, Key, Running
  <2>2. CASE phase = "recording"
    BY <1>3, <1>5, <2>1, <2>2 DEF KeyQuitFails, RejectWith
  <2>3. CASE phase # "recording"
    <3>1. RejectCall("session", active, motion, TRUE, TRUE)
      BY <1>5, <2>3 DEF KeyQuitFails, RejectWith
    <3> QED BY <1>1, <2>1, <3>1, RejectProtocol
  <2> QED BY <2>2, <2>3
<1> QED BY <1>2, <1>4, <1>5

\* A key that stops the arm, or ends the session before recording began.
LEMMA StopProtocol ==
    ASSUME TypeInv, ControlInv, ProtocolInv,
           \/ (\E reason \in {"space", "fail", "abort"} : KeyStop(reason)) \/ KeyQuit
    PROVE  ProtocolInv'
<1>1. ASSUME Running, pc = "key", pc' = "loop", phase = "recording",
             NEW reason \in {"space", "fail", "abort", "session_end"}, NEW quitting \in BOOLEAN, Stop(reason, quitting)
      PROVE  ProtocolInv'
  <2>1. active # None /\ active \in EpisodeType
    BY <1>1 DEF ControlInv, EpisodeShape, Unoccupied, TypeInv, TypeOK
  <2>2. /\ active' = [active EXCEPT !.reason = reason, !.cutoff = TRUE] /\ phase' = "stopping"
        /\ UNCHANGED <<completed, rejection, inbox, outbox, child, disk, refused>>
    BY <1>1 DEF Stop, childVars, historyVars
  <2>3. active' \in EpisodeType /\ active'.id = active.id /\ active'.started = active.started
        /\ active'.stopSent = active.stopSent
    BY <2>1, <2>2 DEF EpisodeType
  <2>4. SameEpisode
    BY <1>1, <2>1, <2>3, NoneAssumption DEF SameEpisode
  <2> QED BY <1>1, <2>2, <2>4, ProtocolFrame DEF SameWait, Usable, Unavailable
<1>2. CASE \E reason \in {"space", "fail", "abort"} : KeyStop(reason)
  <2>1. PICK reason \in {"space", "fail", "abort"} : KeyStop(reason)
    BY <1>2
  <2>2. Running /\ pc = "key" /\ pc' = "loop" /\ phase = "recording" /\ Stop(reason, quit) /\ quit \in BOOLEAN
    BY <2>1 DEF KeyStop, Key, Running, TypeInv, TypeOK
  <2> QED BY <1>1, <2>2
<1>3. CASE KeyQuit
  <2>1. Running /\ pc = "key" /\ pc' = "loop"
    BY <1>3 DEF KeyQuit, Key, Running
  <2>2. CASE rejection # None
    <3>1. UNCHANGED <<phase, active, completed, inbox, outbox, child, disk, refused>>
      BY <1>3, <2>2 DEF KeyQuit, childVars, historyVars
    <3>2. rejection' = (IF phase = "review" THEN [rejection EXCEPT !.choice = "save"] ELSE rejection)
      BY <1>3, <2>2 DEF KeyQuit
    <3>3. rejection' \in RejectionType /\ rejection'.unavailable = rejection.unavailable
      BY <2>2, <3>2 DEF RejectionType, TypeInv, TypeOK
    <3> QED BY <2>1, <2>2, <3>1, <3>3, NotedProtocol DEF SameWait
  <2>3. CASE rejection = None /\ phase = "recording"
    <3>1. Stop("session_end", TRUE)
      BY <1>3, <2>3 DEF KeyQuit, Stop
    <3> QED BY <1>1, <2>1, <2>3, <3>1
  <2>4. CASE rejection = None /\ phase # "recording" /\ motion = "homing"
    <3>1. UNCHANGED <<phase, active, completed, rejection, inbox, outbox, child, disk, refused>>
      BY <1>3, <2>4 DEF KeyQuit, childVars, historyVars
    <3> QED BY <2>1, <3>1, IdleProtocol DEF SameWait
  <2>5. CASE rejection = None /\ motion # "homing" /\ phase \in {"preparing", "engaging"}
    <3>1. /\ active' = [active EXCEPT !.reason = "session_end"] /\ phase' = "closing"
          /\ UNCHANGED <<completed, rejection, inbox, outbox, child, disk, refused>>
      BY <1>3, <2>5 DEF KeyQuit, childVars, historyVars
    <3>2. active # None /\ active \in EpisodeType
      BY <2>1, <2>5 DEF ControlInv, EpisodeShape, Unoccupied, TypeInv, TypeOK
    <3>3. active' \in EpisodeType /\ active'.id = active.id /\ active'.started = active.started
          /\ active'.stopSent = active.stopSent
      BY <3>1, <3>2 DEF EpisodeType
    <3>4. SameEpisode
      BY <2>1, <3>2, <3>3, NoneAssumption DEF SameEpisode
    <3> QED BY <2>1, <2>5, <3>1, <3>4, ProtocolFrame DEF SameWait, Usable, Unavailable
  <2>6. CASE rejection = None /\ motion # "homing" /\ phase \notin {"recording", "preparing", "engaging"}
    <3>1. UNCHANGED <<phase, active, completed, rejection, inbox, outbox, child, disk, refused>>
      BY <1>3, <2>6 DEF KeyQuit, childVars, historyVars
    <3> QED BY <2>1, <3>1, IdleProtocol DEF SameWait
  <2> QED BY <2>2, <2>3, <2>4, <2>5, <2>6
<1> QED BY <1>2, <1>3

\* The receipts of a recording episode reach the queue, or find it full.
LEMMA ReceiptsProtocol ==
    ASSUME TypeInv, ControlInv, ProtocolInv, Record \/ TailCloses
    PROVE  ProtocolInv'
<1>1. EpisodeOf(active) /\ quit \in BOOLEAN /\ "recorder" \in Components
  BY DEF EpisodeOf, TypeInv, TypeOK, Components
<1>2. CASE Record
  <2>1. Running /\ pc = "record" /\ pc' = "key" /\ phase = "recording"
    BY <1>2 DEF Record, Running
  <2>2. CASE UNCHANGED <<loopVars, inbox, childVars, outcome, historyVars>>
    BY <2>1, <2>2, IdleProtocol DEF SameWait, loopVars, childVars, historyVars
  <2>3. CASE Send("samples", active) /\ UNCHANGED <<loopVars, childVars, outcome, historyVars>>
    BY <2>1, <2>3, SamplesProtocol
  <2>4. CASE Reject("recorder")
    BY <1>1, <2>1, <2>4, RejectProtocol DEF Reject, RejectWith
  <2> QED BY <1>2, <2>2, <2>3, <2>4 DEF Record
<1>3. CASE TailCloses
  <2>1. /\ Running /\ pc = "record" /\ pc' = "dispose" /\ phase \in {"stopping", "review"}
        /\ active # None /\ active.started /\ ~active.stopSent /\ Usable("recorder")
    BY <1>3 DEF TailCloses, MayFlush, Running
  <2>2. PICK last \in {<<"stop">>, <<"flush", "stop">>} :
           IF Len(inbox) + Len(last) <= Capacity
           THEN /\ inbox' = Tailed(last, active)
                /\ active' = [Settled EXCEPT !.stopSent = TRUE]
                /\ UNCHANGED <<phase, completed, quit, rejection, motion, childVars,
                               outcome, historyVars>>
           ELSE RejectWith("recorder", Settled, motion, FALSE, quit)
    BY <1>3 DEF TailCloses, Tailed
  <2>3. /\ EpisodeOf(Settled) /\ Settled # None /\ Settled.id = active.id
        /\ Settled.started = active.started /\ Settled.stopSent = active.stopSent
    BY <2>1, SettledKept
  <2>4. CASE Len(inbox) + Len(last) <= Capacity
    <3>1. /\ inbox' = Tailed(last, active) /\ active' = [Settled EXCEPT !.stopSent = TRUE]
          /\ UNCHANGED <<phase, completed, rejection, childVars, historyVars>>
      BY <2>2, <2>4
    <3> QED BY <2>1, <2>3, <3>1, TailProtocol
  <2>5. CASE ~(Len(inbox) + Len(last) <= Capacity)
    <3>1. RejectCall("recorder", Settled, motion, FALSE, quit)
      BY <2>2, <2>5 DEF RejectWith
    <3> QED BY <1>1, <2>1, <2>3, <3>1, RejectProtocol
  <2> QED BY <2>4, <2>5
<1> QED BY <1>2, <1>3

\* The third invariant is kept by every step.
LEMMA ProtocolStep ==
    ASSUME TypeInv, ControlInv, ProtocolInv, [Next]_vars
    PROVE  ProtocolInv'
<1>1. CASE UNCHANGED vars
  <2>1. UNCHANGED <<pc, phase, active, completed, rejection, inbox, outbox, child, disk, refused>>
    BY <1>1 DEF vars, loopVars, childVars, historyVars
  <2>2. CASE Running
    BY <2>1, <2>2, ProtocolFrame DEF SameEpisode, SameWait, Usable, Unavailable
  <2>3. CASE ~Running
    BY <2>1, <2>3 DEF ProtocolInv, Running
  <2> QED BY <2>2, <2>3
<1>2. CASE Running /\ Child
  BY <1>2, TakeProtocol, AckProtocol, FinalizesProtocol, CommitsProtocol, ReportsProtocol, DiesProtocol DEF Child
<1>3. CASE CloseDone \/ Interrupt
  <2>1. pc' = "closed" /\ UNCHANGED refused
    BY <1>3 DEF CloseDone, Interrupt, CloseWith
  <2> QED BY <2>1 DEF ProtocolInv, Running
<1>4. CASE \/ Loop \/ PollNothing \/ NoKey \/ RecordIdle \/ MoveOn \/ Observe \/ (Overdue /\ Running)
           \/ TailWaits \/ (\E choice \in {"save", "abort"} : KeyReview(choice))
           \/ KeyEngage \/ KeyHome
  BY <1>4, LoopProtocol
<1>5. CASE \/ PollFails \/ ReadFails \/ (\E hard \in BOOLEAN : MoveFails(hard) \/ KeyHomeFails(hard))
           \/ (\E reason \in {"space", "fail", "abort"} : KeyStopFails(reason)) \/ KeyQuitFails
  BY <1>5, FailureProtocol
<1>6. CASE (\E reason \in {"space", "fail", "abort"} : KeyStop(reason)) \/ KeyQuit
  BY <1>6, StopProtocol
<1>7. CASE Record \/ TailCloses
  BY <1>7, ReceiptsProtocol
<1>8. CASE ReplyPrepared \/ ReplyPreparedLate \/ ReplyCancelled \/ ReplyComplete \/ ReplyCompleteFails
           \/ Retire \/ RetirePartial
  BY <1>8, RepliesProtocol
<1>9. CASE Begin
  BY <1>9, BeginProtocol
<1>10. CASE KeyPrepare
  BY <1>10, KeyPrepareProtocol
<1>11. CASE Dispose
  BY <1>11, DisposeProtocol
<1>12. CASE Resolve
  <2>1. Running /\ pc = "record" /\ pc' = "key" /\ phase = "resolving" /\ ResolvedTo("resolving")
    BY <1>12 DEF Resolve, Running
  <2>2. active = None
    BY <2>1 DEF ControlInv, EpisodeShape, Occupied, Opening
  <2> QED BY <2>1, <2>2, ResolvedProtocol
<1> QED
  BY <1>1, <1>2, <1>3, <1>4, <1>5, <1>6, <1>7, <1>8, <1>9, <1>10, <1>11, <1>12
  DEF Next, Control, Step, Poll, Move, Phases, Keys

-----------------------------------------------------------------------------
(* The books.                                                               *)

\* What VerifiedSurvives says of one step.
Survives ==
    \A i \in DOMAIN completed : completed[i].verified =>
        LET e == completed[i].id
        IN  /\ completed'[i] = completed[i]
            /\ outcome'[e] = outcome[e]
            /\ disk'[e] = disk[e]

\* An interrupted episode stays interrupted until it is listed.
StillNoted == \A e : active # None /\ e = active.id /\ active.interrupted =>
    e < Len(completed') \/ (active' # None /\ e = active'.id /\ active'.interrupted)

\* The n-th entry is the n-th episode, and the active one has none yet.
LEMMA EntriesPlaced ==
    ASSUME TypeInv, ProtocolInv, BooksInv, Running
    PROVE  /\ DOMAIN completed = 1 .. Len(completed) /\ Len(completed) \in Nat
           /\ \A i \in DOMAIN completed :
                /\ completed[i] \in EntryType
                /\ completed[i].id = i - 1
                /\ completed[i].id \in Episodes /\ completed[i].id < Len(completed)
           /\ active # None /\ pc # "retire" =>
                /\ Len(completed) = active.id
                /\ \A i \in DOMAIN completed : completed[i].id # active.id
<1>1. DOMAIN completed = 1 .. Len(completed) /\ Len(completed) \in Nat
      /\ \A i \in DOMAIN completed : completed[i] \in EntryType
  BY DEF TypeInv, TypeOK
<1>2. Len(completed) <= MaxEpisodes /\ MaxEpisodes \in Nat
  BY BoundsAssumption DEF ProtocolInv, Numbered
<1>3. \A i \in DOMAIN completed : completed[i].id = i - 1
  BY DEF BooksInv, OutcomeTruthful
<1>4. \A i \in DOMAIN completed : completed[i].id \in Episodes /\ completed[i].id < Len(completed)
  BY <1>1, <1>2, <1>3 DEF Episodes
<1>5. active # None /\ pc # "retire" => Len(completed) = active.id
  BY DEF ProtocolInv, Numbered
<1>6. active # None /\ pc # "retire" => \A i \in DOMAIN completed : completed[i].id # active.id
  BY <1>1, <1>4, <1>5
<1> QED BY <1>1, <1>3, <1>4, <1>5, <1>6

\* A step that lists nothing and takes no directory back.
LEMMA BooksKept ==
    ASSUME TypeInv, ProtocolInv, BooksInv, Running, Running',
           UNCHANGED <<completed, outcome, faulted>>,
           \A e \in Episodes : disk[e] = "committed" => disk'[e] = "committed",
           StillNoted
    PROVE  BooksInv' /\ Survives
<1>1. \A i \in DOMAIN completed : completed[i].verified => disk[completed[i].id] = "committed"
  BY DEF BooksInv, OutcomeTruthful
<1>2. \A i \in DOMAIN completed : completed[i].verified => disk'[completed[i].id] = "committed"
  BY <1>1, EntriesPlaced
<1>3. Survives
  BY <1>1, <1>2 DEF Survives
<1>4. OutcomeTruthful'
  BY <1>2 DEF BooksInv, OutcomeTruthful, Running
<1>5. \A e \in faulted : e < Len(completed) \/ (active' # None /\ e = active'.id /\ active'.interrupted)
  BY DEF BooksInv, StillNoted
<1> QED BY <1>3, <1>4, <1>5 DEF BooksInv

\* A rejection; the reply it may belong to has touched only the outcome of the
\* episode that is not listed yet.
LEMMA BooksRejected ==
    ASSUME TypeInv, ProtocolInv, BooksInv, Running, pc # "retire", pc' # "closed",
           NEW component, NEW a, EpisodeOf(a), NEW m, NEW hard, NEW quitting,
           RejectCall(component, a, m, hard, quitting),
           (a = None) <=> (active = None),
           a # None => a.id = active.id /\ a.interrupted = active.interrupted,
           outcome' = outcome \/ (active # None /\ outcome' = WithOutcome(active))
    PROVE  BooksInv' /\ Survives
<1>1. completed' = completed /\ disk' = disk
  BY DEF RejectCall, childVars
<1>2. /\ \A i \in DOMAIN completed : outcome'[completed[i].id] = outcome[completed[i].id]
      /\ \A i \in DOMAIN completed : active # None => completed[i].id # active.id
  <2>1. outcome \in [Episodes -> OutcomeType \cup {None}]
    BY DEF TypeInv, TypeOK
  <2>2. \A i \in DOMAIN completed : completed[i].id \in Episodes /\ (active # None => completed[i].id # active.id)
    BY EntriesPlaced
  <2> QED BY <2>1, <2>2 DEF WithOutcome
<1>3. Survives
  BY <1>1, <1>2 DEF Survives
<1>4. /\ \A e \in faulted' : e \in faulted \/ (active # None /\ e = active.id)
      /\ \A e \in faulted' : e < Len(completed) \/ (active' # None /\ e = active'.id /\ active'.interrupted)
  <2>1. CASE rejection = None
    <3>1. BeginRejection(component, a, m, hard, quitting)
      BY <2>1 DEF RejectCall
    <3>2. /\ faulted' = IF a = None THEN faulted ELSE faulted \cup {a.id}
          /\ active' = IF a = None THEN None
                       ELSE [Interrupted(a) EXCEPT !.cutoff = @ \/ a.started]
      BY <3>1 DEF BeginRejection
    <3>3. a # None => active' \in EpisodeType /\ active'.id = a.id /\ active'.interrupted
      BY <3>2 DEF EpisodeOf, EpisodeType, Interrupted
    <3>4. \A e \in faulted : e < Len(completed) \/ (a # None /\ e = a.id)
      BY DEF BooksInv
    <3> QED BY <3>2, <3>3, <3>4, NoneAssumption
  <2>2. CASE rejection # None
    <3>1. faulted' = faulted /\ active' = a
      BY <2>2 DEF RejectCall, ExtendRejection
    <3> QED BY <3>1 DEF BooksInv
  <2> QED BY <2>1, <2>2
<1>5. OutcomeTruthful'
  <2>1. \A i \in DOMAIN completed : completed[i].disposition # "aborted" =>
          completed[i].verified /\ completed[i].id \notin faulted'
    BY <1>2, <1>4 DEF BooksInv, OutcomeTruthful
  <2> QED BY <1>1, <1>2, <2>1 DEF BooksInv, OutcomeTruthful, Running
<1> QED BY <1>1, <1>3, <1>4, <1>5 DEF BooksInv

\* The active episode is listed, and its outcome written if it is verified.
LEMMA BooksListed ==
    ASSUME TypeInv, ProtocolInv, BooksInv, Running, Running', pc # "retire", active # None,
           NEW verified \in BOOLEAN, completed' = Append(completed, Entry(active, verified)),
           verified => /\ disk[active.id] = "committed" /\ active.settled
                       /\ outcome' = WithOutcome(active),
           ~verified => outcome' = outcome,
           UNCHANGED <<disk, faulted>>, active' \in {active, None}
    PROVE  BooksInv' /\ Survives
<1> DEFINE entry == Entry(active, verified)
<1>1. active \in EpisodeType /\ active.id \in Episodes /\ outcome \in [Episodes -> OutcomeType \cup {None}]
  BY DEF TypeInv, TypeOK
<1>2. /\ entry \in EntryType /\ entry.id = active.id /\ entry.verified = verified
      /\ entry.settled = active.settled
      /\ ~verified => entry.disposition = "aborted"
      /\ verified => entry.disposition = Disposition(active)
  BY <1>1, EntryTyped
<1>3. completed' = Append(completed, entry)
  OBVIOUS
<1> HIDE DEF entry
<1>4. /\ Len(completed') = Len(completed) + 1 /\ Len(completed) \in Nat
      /\ DOMAIN completed' = 1 .. (Len(completed) + 1)
      /\ \A i \in DOMAIN completed : completed'[i] = completed[i] /\ i \in DOMAIN completed'
      /\ completed'[Len(completed) + 1] = entry
      /\ \A i \in DOMAIN completed' : i \in DOMAIN completed \/ i = Len(completed) + 1
  BY <1>2, <1>3, ListGrown
<1>5. /\ Len(completed) = active.id
      /\ \A i \in DOMAIN completed : completed[i].id \in Episodes /\ completed[i].id # active.id
  BY EntriesPlaced
<1>6. \A i \in DOMAIN completed : outcome'[completed[i].id] = outcome[completed[i].id]
  BY <1>1, <1>5 DEF WithOutcome
<1>7. Survives
  BY <1>4, <1>6 DEF Survives
<1>8. /\ verified => outcome'[active.id] = [disposition |-> entry.disposition, verified |-> TRUE]
      /\ entry.disposition # "aborted" => verified /\ active.id \notin faulted
  <2>1. verified => outcome'[active.id] = [disposition |-> entry.disposition, verified |-> TRUE]
    BY <1>1, <1>2 DEF WithOutcome
  <2>2. active.id \in faulted => active.interrupted
    BY <1>4, <1>5 DEF BooksInv
  <2>3. active.interrupted => Disposition(active) = "aborted"
    BY DEF Disposition
  <2> QED BY <1>2, <2>1, <2>2, <2>3
<1>9. OutcomeTruthful'
  <2>1. ASSUME NEW i \in DOMAIN completed'
        PROVE  /\ completed'[i].id = i - 1
               /\ completed'[i].verified => disk'[completed'[i].id] = "committed" /\ completed'[i].settled
               /\ completed'[i].verified => outcome'[completed'[i].id] =
                    [disposition |-> completed'[i].disposition, verified |-> completed'[i].verified]
               /\ completed'[i].disposition # "aborted" =>
                    completed'[i].verified /\ completed'[i].id \notin faulted'
    <3>1. CASE i \in DOMAIN completed
      BY <1>4, <1>6, <3>1 DEF BooksInv, OutcomeTruthful
    <3>2. CASE i = Len(completed) + 1
      <4>1. completed'[i] = entry /\ entry.id = i - 1
        BY <1>2, <1>4, <1>5, <3>2
      <4> QED BY <1>2, <1>8, <4>1
    <3> QED BY <1>4, <2>1, <3>1, <3>2
  <2> QED BY <2>1 DEF OutcomeTruthful, Running
<1>10. \A e \in faulted : e < Len(completed')
  <2> SUFFICES ASSUME NEW e \in faulted PROVE e < Len(completed')
    OBVIOUS
  <2>1. e < Len(completed) \/ e = active.id
    BY DEF BooksInv
  <2>2. e \in Nat
    BY DEF TypeInv, TypeOK
  <2> QED BY <1>4, <1>5, <2>1, <2>2
<1> QED BY <1>7, <1>9, <1>10 DEF BooksInv

\* The session closes, with the active episode listed as unverified.
LEMMA BooksClosed ==
    ASSUME TypeInv, ProtocolInv, BooksInv, Running, pc # "retire",
           NEW a, EpisodeOf(a), (a = None) <=> (active = None), a # None => a.id = active.id,
           CloseWith(a),
           \A e \in faulted' : e \in faulted \/ (active # None /\ e = active.id)
    PROVE  BooksInv' /\ Survives
<1>1. /\ pc' = "closed"
      /\ completed' = IF a = None THEN completed ELSE Append(completed, Entry(a, FALSE))
      /\ outcome' = Sidecars(completed', disk')
      /\ \/ disk' = disk
         \/ child.state = "finalizing" /\ disk' = [disk EXCEPT ![child.id] = "committed"]
  BY DEF CloseWith
<1>2. /\ DOMAIN completed = 1 .. Len(completed) /\ Len(completed) \in Nat
      /\ \A i \in DOMAIN completed : /\ completed[i].id = i - 1 /\ completed[i].id \in Episodes
                                     /\ completed[i].id < Len(completed)
                                     /\ active # None => completed[i].id # active.id
                                     /\ completed[i] \in EntryType
      /\ active # None => Len(completed) = active.id
  BY EntriesPlaced
<1>3. /\ \A i \in DOMAIN completed : i \in DOMAIN completed' /\ completed'[i] = completed[i]
      /\ \A i \in DOMAIN completed' :
           \/ i \in DOMAIN completed
           \/ /\ active # None /\ i = Len(completed) + 1
              /\ completed'[i].id = active.id /\ completed'[i].verified = FALSE
              /\ completed'[i].disposition = "aborted"
      /\ active # None => Len(completed') = Len(completed) + 1
      /\ active = None => completed' = completed
  <2>1. CASE a = None
    BY <1>1, <2>1
  <2>2. CASE a # None
    <3> DEFINE entry == Entry(a, FALSE)
    <3>1. entry \in EntryType /\ entry.id = active.id /\ entry.verified = FALSE /\ entry.disposition = "aborted"
      BY <2>2, EntryTyped DEF EpisodeOf
    <3>2. completed' = Append(completed, entry)
      BY <1>1, <2>2
    <3> HIDE DEF entry
    <3> QED BY <2>2, <3>1, <3>2, ListGrown
  <2> QED BY <2>1, <2>2
<1>4. /\ disk \in [Episodes -> {"none", "partial", "committed"}] /\ child.id \in Episodes
      /\ child.state = "finalizing" => disk[child.id] # "none"
      /\ \A e \in Episodes : disk[e] # "none" => Known(e)
  BY DEF TypeInv, TypeOK, ProtocolInv, Numbered
<1>5. /\ \A e \in Episodes : disk[e] = "committed" => disk'[e] = "committed"
      /\ \A e \in Episodes : disk'[e] # "none" => Known(e)
  BY <1>1, <1>4
<1>6. \A i \in DOMAIN completed' : completed'[i].id = i - 1 /\ completed'[i].id \in Episodes
  <2>1. active # None => active.id \in Episodes
    BY DEF TypeInv
  <2>2. \A i \in DOMAIN completed : completed'[i].id = i - 1 /\ completed'[i].id \in Episodes
    BY <1>2, <1>3
  <2> QED BY <1>2, <1>3, <2>1, <2>2
<1>7. \A i \in DOMAIN completed' : completed'[i].verified =>
         i \in DOMAIN completed /\ completed'[i] = completed[i]
  BY <1>3
<1>8. \A i \in DOMAIN completed' :
         LET e == completed'[i].id
         IN  /\ completed'[i].verified => outcome'[e] = outcome[e]
             /\ ~completed'[i].verified /\ disk'[e] # "none" =>
                  outcome'[e] = [disposition |-> "aborted", verified |-> FALSE]
  <2> SUFFICES ASSUME NEW i \in DOMAIN completed'
               PROVE  LET e == completed'[i].id
                      IN  /\ completed'[i].verified => outcome'[e] = outcome[e]
                          /\ ~completed'[i].verified /\ disk'[e] # "none" =>
                               outcome'[e] = [disposition |-> "aborted", verified |-> FALSE]
    OBVIOUS
  <2> DEFINE e == completed'[i].id
  <2>1. e \in Episodes
    BY <1>6
  <2>2. outcome'[e] = IF /\ disk'[e] # "none"
                         /\ \E j \in DOMAIN completed' : completed'[j].id = e /\ ~completed'[j].verified
                      THEN [disposition |-> "aborted", verified |-> FALSE]
                      ELSE outcome[e]
    BY <1>1, <2>1 DEF Sidecars
  <2>3. \A j \in DOMAIN completed' : completed'[j].id = e => j = i
    <3>1. DOMAIN completed' \subseteq Int
      BY <1>2, <1>3
    <3> QED BY <1>6, <3>1
  <2> HIDE DEF e
  <2> QED BY <2>2, <2>3 DEF e
<1>9. Survives
  <2>1. \A i \in DOMAIN completed : completed[i].verified => disk[completed[i].id] = "committed"
    BY DEF BooksInv, OutcomeTruthful
  <2>2. \A i \in DOMAIN completed : completed[i].verified => disk'[completed[i].id] = "committed"
    BY <1>2, <1>5, <2>1
  <2> QED BY <1>3, <1>8, <2>1, <2>2 DEF Survives
<1>10. OutcomeTruthful'
  <2>1. ASSUME NEW i \in DOMAIN completed'
        PROVE  LET e == completed'[i] IN
               /\ e.id = i - 1
               /\ e.verified => disk'[e.id] = "committed" /\ e.settled
               /\ (e.verified \/ (pc' = "closed" /\ disk'[e.id] # "none")) =>
                     outcome'[e.id] = [disposition |-> e.disposition, verified |-> e.verified]
               /\ e.disposition # "aborted" => e.verified /\ e.id \notin faulted'
    <3>1. CASE completed'[i].verified
      <4>1. i \in DOMAIN completed /\ completed'[i] = completed[i]
        BY <1>7, <3>1
      <4>2. /\ disk[completed[i].id] = "committed" /\ completed[i].settled
            /\ outcome[completed[i].id] =
                 [disposition |-> completed[i].disposition, verified |-> completed[i].verified]
            /\ completed[i].disposition # "aborted" => completed[i].id \notin faulted
        BY <3>1, <4>1 DEF BooksInv, OutcomeTruthful
      <4>3. completed[i].id \in Episodes /\ (active # None => completed[i].id # active.id)
        BY <1>2, <4>1
      <4>4. disk'[completed[i].id] = "committed"
        BY <1>5, <4>2, <4>3
      <4>5. outcome'[completed[i].id] = outcome[completed[i].id]
        BY <1>8, <3>1, <4>1
      <4>6. completed[i].disposition # "aborted" => completed[i].id \notin faulted'
        BY <4>2, <4>3
      <4> QED BY <1>6, <3>1, <4>1, <4>2, <4>4, <4>5, <4>6
    <3>2. CASE ~completed'[i].verified
      <4>1. completed'[i].disposition = "aborted"
        <5>1. CASE i \in DOMAIN completed
          BY <1>3, <3>2, <5>1 DEF BooksInv, OutcomeTruthful
        <5>2. CASE i \notin DOMAIN completed
          BY <1>3, <5>2
        <5> QED BY <5>1, <5>2
      <4>2. completed'[i].verified = FALSE
        <5>1. CASE i \in DOMAIN completed
          BY <1>2, <1>3, <3>2, <5>1 DEF EntryType
        <5>2. CASE i \notin DOMAIN completed
          BY <1>3, <5>2
        <5> QED BY <5>1, <5>2
      <4> QED BY <1>6, <1>8, <3>2, <4>1, <4>2
    <3> QED BY <3>1, <3>2
  <2>2. \A e \in Episodes : disk'[e] # "none" => e < Len(completed')
    <3> SUFFICES ASSUME NEW e \in Episodes, disk'[e] # "none" PROVE e < Len(completed')
      OBVIOUS
    <3>1. e < Len(completed) \/ (active # None /\ e = active.id)
      BY <1>5 DEF Known
    <3>2. e \in Nat
      BY DEF Episodes
    <3> QED BY <1>2, <1>3, <3>1, <3>2
  <2> QED BY <2>1, <2>2 DEF OutcomeTruthful
<1> QED BY <1>1, <1>9, <1>10 DEF BooksInv, Running

\* Steps that leave the episode and the books alone.
LEMMA BooksIdle ==
    ASSUME TypeInv, ControlInv, ProtocolInv, BooksInv, Running,
           \/ Loop \/ PollNothing \/ NoKey \/ RecordIdle \/ MoveOn \/ Observe \/ Overdue
           \/ (\E choice \in {"save", "abort"} : KeyReview(choice)) \/ KeyEngage \/ KeyHome
           \/ ReplyPrepared \/ ReplyPreparedLate \/ Child
    PROVE  BooksInv' /\ Survives
<1>1. CASE \/ Loop \/ PollNothing \/ NoKey \/ RecordIdle \/ MoveOn \/ Observe \/ Overdue
           \/ (\E choice \in {"save", "abort"} : KeyReview(choice)) \/ KeyEngage \/ KeyHome
           \/ ReplyPrepared \/ ReplyPreparedLate
  <2>1. Running' /\ UNCHANGED <<active, completed, outcome, faulted, disk>>
    BY <1>1 DEF Loop, PollNothing, NoKey, RecordIdle, MoveOn, Observe, Overdue, KeyReview, KeyEngage, KeyHome,
                ReplyPrepared, ReplyPreparedLate, Reply, Key, Running, loopVars, childVars, historyVars
  <2> QED BY <2>1, BooksKept DEF StillNoted
<1>2. CASE ChildTakes
  <2>1. Running' /\ UNCHANGED <<active, completed, outcome, faulted>>
    BY <1>2 DEF ChildTakes, Running, loopVars
  <2>2. \A e \in Episodes : disk[e] = "committed" => disk'[e] = "committed"
    <3>1. disk \in [Episodes -> {"none", "partial", "committed"}]
      BY DEF TypeInv, TypeOK
    <3>2. CASE disk' = disk
      BY <3>2
    <3>3. CASE disk' # disk
      <4> DEFINE c == Head(inbox)
      <4>1. c = inbox[1] /\ 1 \in DOMAIN inbox
        BY <1>2, TakenQueue DEF ChildTakes
      <4>2. c.operation = "prepare" /\ disk' = [disk EXCEPT ![c.episode] = "partial"] /\ child.state # "dead"
        BY <1>2, <3>3 DEF ChildTakes
      <4>3. disk[c.episode] = "none"
        BY <4>1, <4>2 DEF ProtocolInv, Chain
      <4> HIDE DEF c
      <4> QED BY <3>1, <4>2, <4>3
    <3> QED BY <3>2, <3>3
  <2> QED BY <2>1, <2>2, BooksKept DEF StillNoted
<1>3. CASE ChildAcks \/ ChildFinalizes \/ ChildReports \/ ChildDies
  <2>1. Running' /\ UNCHANGED <<active, completed, outcome, faulted, disk>>
    BY <1>3 DEF ChildAcks, ChildFinalizes, ChildReports, ChildDies, Running, loopVars, historyVars
  <2> QED BY <2>1, BooksKept DEF StillNoted
<1>4. CASE ChildCommits
  <2>1. Running' /\ UNCHANGED <<active, completed, outcome, faulted>>
    BY <1>4 DEF ChildCommits, Running, loopVars, historyVars
  <2>2. \A e \in Episodes : disk[e] = "committed" => disk'[e] = "committed"
    BY <1>4 DEF ChildCommits, TypeInv, TypeOK
  <2> QED BY <2>1, <2>2, BooksKept DEF StillNoted
<1> QED BY <1>1, <1>2, <1>3, <1>4 DEF Child

\* Steps that change the episode without listing it.
LEMMA BooksChanged ==
    ASSUME TypeInv, ControlInv, ProtocolInv, BooksInv, Running, Running',
           UNCHANGED <<completed, outcome, faulted, disk>>,
           \/ active = None
           \/ /\ active' \in EpisodeType /\ active'.id = active.id
              /\ active'.interrupted = active.interrupted
    PROVE  BooksInv' /\ Survives
BY BooksKept, NoneAssumption DEF StillNoted

\* Preparing, beginning and stopping an episode do not touch the books.
LEMMA BooksProgress ==
    ASSUME TypeInv, ControlInv, ProtocolInv, BooksInv,
           \/ Begin \/ TailWaits \/ KeyPrepare
           \/ (\E reason \in {"space", "fail", "abort"} : KeyStop(reason)) \/ KeyQuit
    PROVE  BooksInv' /\ Survives
<1>1. Running /\ Running' /\ UNCHANGED <<completed, outcome, faulted, disk>>
  BY DEF Begin, TailWaits, KeyPrepare, KeyStop, KeyQuit, Key, Stop, Running, childVars, historyVars
<1>2. active # None => active \in EpisodeType
  BY DEF TypeInv, TypeOK
<1>3. CASE Begin
  <2>1. active # None /\ active' = Started
    BY <1>1, <1>3 DEF Begin, ControlInv, EpisodeShape, Unoccupied
  <2> QED BY <1>1, <1>2, <2>1, BooksChanged DEF Started, EpisodeType
<1>4. CASE TailWaits
  <2>1. active' = Settled
    BY <1>4 DEF TailWaits
  <2>2. active # None => /\ active' \in EpisodeType /\ active'.id = active.id
                         /\ active'.interrupted = active.interrupted
    BY <2>1, SettledKept
  <2> QED BY <1>1, <2>2, BooksChanged
<1>5. CASE KeyPrepare
  <2>1. active = None
    BY <1>1, <1>5 DEF KeyPrepare, ControlInv, EpisodeShape, Occupied, Opening
  <2> QED BY <1>1, <2>1, BooksChanged
<1>6. ASSUME phase = "recording", NEW reason \in {"space", "fail", "abort", "session_end"},
             NEW quitting \in BOOLEAN, Stop(reason, quitting)
      PROVE  BooksInv' /\ Survives
  <2>1. active # None /\ active' = [active EXCEPT !.reason = reason, !.cutoff = TRUE]
    BY <1>1, <1>6 DEF Stop, ControlInv, EpisodeShape, Unoccupied
  <2>2. active' \in EpisodeType /\ active'.id = active.id /\ active'.interrupted = active.interrupted
    BY <1>2, <2>1 DEF EpisodeType
  <2> QED BY <1>1, <2>2, BooksChanged
<1>7. CASE \E reason \in {"space", "fail", "abort"} : KeyStop(reason)
  <2>1. PICK reason \in {"space", "fail", "abort"} : KeyStop(reason)
    BY <1>7
  <2>2. phase = "recording" /\ Stop(reason, quit) /\ quit \in BOOLEAN
    BY <2>1 DEF KeyStop, TypeInv, TypeOK
  <2> QED BY <1>6, <2>2
<1>8. CASE KeyQuit
  <2>1. CASE rejection # None \/ (phase # "recording" /\ motion = "homing")
             \/ phase \notin {"recording", "preparing", "engaging"}
    <3>1. active' = active
      <4>1. CASE rejection # None
        BY <1>8, <4>1 DEF KeyQuit
      <4>2. CASE rejection = None
        BY <1>8, <2>1, <4>2 DEF KeyQuit
      <4> QED BY <4>1, <4>2
    <3> QED BY <1>1, <1>2, <3>1, BooksChanged
  <2>2. CASE rejection = None /\ phase = "recording"
    <3>1. Stop("session_end", TRUE)
      BY <1>8, <2>2 DEF KeyQuit, Stop
    <3> QED BY <1>6, <2>2, <3>1
  <2>3. CASE rejection = None /\ phase \in {"preparing", "engaging"} /\ motion # "homing"
    <3>1. active # None /\ active' = [active EXCEPT !.reason = "session_end"]
      BY <1>1, <1>8, <2>3 DEF KeyQuit, ControlInv, EpisodeShape, Unoccupied
    <3>2. active' \in EpisodeType /\ active'.id = active.id /\ active'.interrupted = active.interrupted
      BY <1>2, <3>1 DEF EpisodeType
    <3> QED BY <1>1, <3>2, BooksChanged
  <2> QED BY <2>1, <2>2, <2>3
<1> QED BY <1>3, <1>4, <1>5, <1>7, <1>8

\* A failure marks the active episode and leaves those listed alone.
LEMMA BooksFailure ==
    ASSUME TypeInv, ControlInv, ProtocolInv, BooksInv,
           \/ PollFails \/ ReadFails \/ (\E hard \in BOOLEAN : MoveFails(hard) \/ KeyHomeFails(hard))
           \/ (\E reason \in {"space", "fail", "abort"} : KeyStopFails(reason)) \/ KeyQuitFails
           \/ ReplyCompleteFails
    PROVE  BooksInv' /\ Survives
<1>1. EpisodeOf(active)
  BY DEF EpisodeOf, TypeInv, TypeOK
<1>2. Running /\ Running' /\ pc # "retire"
  BY DEF PollFails, ReadFails, MoveFails, KeyHomeFails, KeyStopFails, KeyQuitFails, ReplyCompleteFails, Reply,
         Key, Running
<1>3. CASE PollFails \/ ReadFails \/ \E hard \in BOOLEAN : MoveFails(hard) \/ KeyHomeFails(hard)
  <2>1. \E component, hard : RejectCall(component, active, motion, hard, quit)
    BY <1>3 DEF PollFails, ReadFails, MoveFails, KeyHomeFails, Reject, RejectWith
  <2>2. outcome' = outcome
    BY <1>3 DEF PollFails, ReadFails, MoveFails, KeyHomeFails, Reject, RejectWith
  <2> QED BY <1>1, <1>2, <2>1, <2>2, BooksRejected DEF Running
<1>4. ASSUME phase = "recording", NEW reason \in {"space", "fail", "abort", "session_end"}, NEW quitting,
             RejectWith("session", [active EXCEPT !.reason = reason], motion, TRUE, quitting)
      PROVE  BooksInv' /\ Survives
  <2> DEFINE a == [active EXCEPT !.reason = reason]
  <2>1. active # None /\ active \in EpisodeType
    BY <1>2, <1>4 DEF ControlInv, EpisodeShape, Unoccupied, TypeInv, TypeOK
  <2>2. EpisodeOf(a) /\ a # None /\ a.id = active.id /\ a.interrupted = active.interrupted
    BY <1>1, <1>4, <2>1, NoneAssumption DEF EpisodeOf, EpisodeType
  <2> HIDE DEF a
  <2>3. RejectCall("session", a, motion, TRUE, quitting) /\ outcome' = outcome
    BY <1>4 DEF a, RejectWith
  <2> QED BY <1>2, <2>1, <2>2, <2>3, BooksRejected DEF Running
<1>5. CASE \E reason \in {"space", "fail", "abort"} : KeyStopFails(reason)
  BY <1>4, <1>5 DEF KeyStopFails
<1>6. CASE KeyQuitFails
  <2>1. CASE phase = "recording"
    BY <1>4, <1>6, <2>1 DEF KeyQuitFails
  <2>2. CASE phase # "recording"
    <3>1. RejectCall("session", active, motion, TRUE, TRUE) /\ outcome' = outcome
      BY <1>6, <2>2 DEF KeyQuitFails, RejectWith
    <3> QED BY <1>1, <1>2, <3>1, BooksRejected DEF Running
  <2> QED BY <2>1, <2>2
<1>7. CASE ReplyCompleteFails
  <2>1. Reply("complete") /\ RejectCall("recorder", active, motion, FALSE, quit)
    BY <1>7 DEF ReplyCompleteFails
  <2>2. active # None
    BY <2>1, ReplyAwaited
  <2>3. outcome' = outcome \/ (active # None /\ outcome' = WithOutcome(active))
    BY <1>7, <2>2 DEF ReplyCompleteFails
  <2>4. pc' # "closed" /\ ((active = None) <=> (active = None))
        /\ (active # None => active.id = active.id /\ active.interrupted = active.interrupted)
    BY <1>2 DEF Running
  <2> QED BY <1>1, <1>2, <2>1, <2>3, <2>4, BooksRejected
<1> QED BY <1>3, <1>5, <1>6, <1>7

\* Receipts, before and across the cutoff, do not touch the books.
LEMMA BooksReceipts ==
    ASSUME TypeInv, ControlInv, ProtocolInv, BooksInv, Record \/ TailCloses
    PROVE  BooksInv' /\ Survives
<1>1. EpisodeOf(active)
  BY DEF EpisodeOf, TypeInv, TypeOK
<1>2. Running /\ Running' /\ pc # "retire"
  BY DEF Record, TailCloses, Running
<1>3. CASE Record
  <2>1. CASE UNCHANGED <<loopVars, childVars, outcome, historyVars>>
    <3>1. UNCHANGED <<active, completed, outcome, faulted, disk>>
      BY <2>1 DEF loopVars, childVars, historyVars
    <3> QED BY <1>2, <3>1, BooksKept DEF StillNoted
  <2>2. CASE Reject("recorder")
    <3>1. RejectCall("recorder", active, motion, FALSE, quit)
      BY <2>2 DEF Reject, RejectWith
    <3>2. outcome' = outcome
      BY <2>2 DEF Reject, RejectWith
    <3> QED BY <1>1, <1>2, <3>1, <3>2, BooksRejected DEF Running
  <2> QED BY <1>3, <2>1, <2>2 DEF Record
<1>4. CASE TailCloses
  <2>1. /\ active # None /\ active \in EpisodeType
    BY <1>4 DEF TailCloses, MayFlush, TypeInv, TypeOK
  <2>2. /\ Settled \in EpisodeType /\ Settled.id = active.id /\ Settled.interrupted = active.interrupted
        /\ Settled # None /\ EpisodeOf(Settled)
    BY <2>1, SettledKept
  <2>3. \/ /\ active' = [Settled EXCEPT !.stopSent = TRUE]
           /\ UNCHANGED <<completed, outcome, faulted, disk>>
        \/ RejectCall("recorder", Settled, motion, FALSE, quit) /\ outcome' = outcome
    BY <1>4 DEF TailCloses, RejectWith, childVars, historyVars
  <2>4. CASE RejectCall("recorder", Settled, motion, FALSE, quit) /\ outcome' = outcome
    BY <1>2, <2>1, <2>2, <2>4, BooksRejected DEF Running
  <2>5. CASE /\ active' = [Settled EXCEPT !.stopSent = TRUE]
             /\ UNCHANGED <<completed, outcome, faulted, disk>>
    <3>1. active' \in EpisodeType /\ active'.id = active.id /\ active'.interrupted = active.interrupted
      BY <2>2, <2>5 DEF EpisodeType
    <3> QED BY <1>2, <2>5, <3>1, BooksChanged
  <2> QED BY <2>3, <2>4, <2>5
<1> QED BY <1>3, <1>4

\* The second half of _stopping, and _resolved.
LEMMA BooksDisposed ==
    ASSUME TypeInv, ControlInv, ProtocolInv, BooksInv, Dispose \/ Resolve
    PROVE  BooksInv' /\ Survives
<1>1. Running /\ Running' /\ pc # "retire" /\ EpisodeOf(active)
  BY DEF Dispose, Resolve, Running, EpisodeOf, TypeInv, TypeOK
<1>2. ASSUME UNCHANGED <<active, completed, outcome, historyVars, childVars>>
      PROVE  BooksInv' /\ Survives
  BY <1>1, <1>2, BooksKept DEF StillNoted, historyVars, childVars
<1>3. ASSUME Finalize PROVE BooksInv' /\ Survives
  <2>1. CASE Room
    BY <1>2, <1>3, <2>1 DEF Finalize
  <2>2. CASE ~Room
    <3>1. RejectCall("recorder", active, motion, FALSE, quit)
      BY <1>3, <2>2 DEF Finalize, Reject, RejectWith
    <3>2. outcome' = outcome
      BY <1>3, <2>2 DEF Finalize, Reject, RejectWith
    <3> QED BY <1>1, <3>1, <3>2, BooksRejected DEF Running
  <2> QED BY <2>1, <2>2
<1>4. ASSUME NEW choice, Cancel(choice), active # None PROVE BooksInv' /\ Survives
  <2>1. CASE ~Usable("recorder")
    <3>1. /\ completed' = Append(completed, Entry(active, FALSE)) /\ active' = active
          /\ UNCHANGED <<outcome, disk, faulted>>
      BY <1>4, <2>1 DEF Cancel, Partial, childVars, historyVars
    <3> QED BY <1>1, <1>4, <3>1, BooksListed
  <2>2. CASE Usable("recorder")
    <3>1. UNCHANGED <<active, completed, outcome, historyVars, childVars>>
      <4>1. CASE Room
        BY <1>4, <2>2, <4>1 DEF Cancel
      <4>2. CASE ~Room
        BY <1>4, <2>2, <4>2 DEF Cancel
      <4> QED BY <4>1, <4>2
    <3> QED BY <1>2, <3>1
  <2> QED BY <2>1, <2>2
<1>5. ASSUME Unverifiable, active # None PROVE BooksInv' /\ Survives
  BY <1>2, <1>4, <1>5 DEF Unverifiable
<1>6. ASSUME ResolvedTo("resolving") PROVE BooksInv' /\ Survives
  <2>1. UNCHANGED <<active, completed, outcome, historyVars, childVars>>
    BY <1>6 DEF ResolvedTo
  <2> QED BY <1>2, <2>1
<1>7. ASSUME Review, phase = "review" PROVE BooksInv' /\ Survives
  <2>1. rejection # None /\ rejection \in RejectionType /\ rejection.choice \in {"save", "abort"}
    BY <1>1, <1>7 DEF ControlInv, RejectionShape, Unrejected, TypeInv, TypeOK, Review, RejectionType
  <2>2. CASE active = None
    BY <1>6, <1>7, <2>2 DEF Review
  <2>3. CASE active # None /\ (rejection.choice = "abort" \/ ~active.started)
    <3>1. Cancel(rejection.choice)
      BY <1>7, <2>3 DEF Review
    <3> QED BY <1>4, <2>3, <3>1
  <2>4. CASE active # None /\ active.started /\ rejection.choice = "save"
    <3>1. CASE \/ rejection.unavailable \ {"motion"} # {}
               \/ /\ rejection.unavailable = {"motion"} /\ ~(active.stopSent /\ StopConfirmed)
                  /\ rejection.overdue
      <4>1. Unverifiable
        <5>1. CASE rejection.unavailable \ {"motion"} # {}
          BY <1>7, <2>4, <5>1 DEF Review
        <5>2. CASE rejection.unavailable \ {"motion"} = {}
          BY <1>7, <2>4, <3>1, <5>2 DEF Review
        <5> QED BY <5>1, <5>2
      <4> QED BY <1>5, <2>4, <4>1
    <3>2. CASE rejection.unavailable \subseteq {"motion"} /\ active.stopSent /\ StopConfirmed
      <4>1. Finalize
        BY <1>7, <2>4, <3>2 DEF Review
      <4> QED BY <1>3, <4>1
    <3>3. CASE /\ rejection.unavailable \subseteq {"motion"}
               /\ ~(active.stopSent /\ StopConfirmed)
               /\ ~(rejection.unavailable = {"motion"} /\ rejection.overdue)
      <4>1. UNCHANGED <<loopVars, inbox, childVars, outcome, historyVars>>
        BY <1>7, <2>4, <3>3 DEF Review
      <4> QED BY <1>2, <4>1 DEF loopVars
    <3> QED BY <3>1, <3>2, <3>3
  <2> QED BY <2>1, <2>2, <2>3, <2>4
<1>8. CASE Resolve
  BY <1>6, <1>8 DEF Resolve
<1>9. CASE Dispose
  <2>1. CASE phase = "stopping" /\ motion = "held" /\ active.stopSent
    BY <1>3, <1>9, <2>1 DEF Dispose
  <2>2. CASE phase = "review" /\ rejection.choice # None
    BY <1>7, <1>9, <2>2 DEF Dispose
  <2>3. CASE /\ ~(phase = "stopping" /\ motion = "held" /\ active.stopSent)
             /\ ~(phase = "review" /\ rejection.choice # None)
    <3>1. UNCHANGED <<loopVars, inbox, childVars, outcome, historyVars>>
      BY <1>9, <2>3 DEF Dispose
    <3> QED BY <1>2, <3>1 DEF loopVars
  <2> QED BY <2>1, <2>2, <2>3
<1> QED BY <1>8, <1>9

\* The fourth invariant is kept by every step that does not interrupt the
\* recording of a reply, and no step touches what is listed as verified.
LEMMA BooksStep ==
    ASSUME ~InterruptInCompletion, TypeInv, ControlInv, ProtocolInv, BooksInv, Next
    PROVE  BooksInv' /\ Survives
<1>1. CASE ReplyCancelled
  <2>1. /\ Reply("cancelled") /\ Running /\ Running' /\ pc # "retire"
        /\ completed' = Append(completed, Entry(active, FALSE)) /\ active' = active
        /\ UNCHANGED <<outcome, disk, faulted>>
    BY <1>1 DEF ReplyCancelled, Reply, Partial, Running, historyVars
  <2>2. active # None
    BY <2>1, ReplyAwaited
  <2> QED BY <2>1, <2>2, BooksListed
<1>2. CASE ReplyComplete
  <2>1. /\ Reply("complete") /\ Running /\ Running' /\ pc # "retire" /\ active.settled
        /\ completed' = Append(completed, Entry(active, TRUE)) /\ active' = active
        /\ outcome' = WithOutcome(active) /\ UNCHANGED <<disk, faulted>>
    BY <1>2 DEF ReplyComplete, MayComplete, Reply, Running, historyVars
  <2>2. active # None /\ disk[active.id] = "committed"
    BY <2>1, ReplyAwaited
  <2> QED BY <2>1, <2>2, BooksListed
<1>3. CASE Retire \/ RetirePartial
  <2>1. Running /\ Running' /\ pc = "retire" /\ active' = None /\ UNCHANGED <<completed, outcome, faulted, disk>>
    BY <1>3 DEF Retire, RetirePartial, Running, childVars, historyVars
  <2>2. active # None => active.id < Len(completed')
    BY <2>1 DEF ProtocolInv, Numbered, TypeInv, TypeOK, EpisodeType
  <2> QED BY <2>1, <2>2, BooksKept DEF StillNoted
<1>4. CASE CloseDone
  <2>1. Running /\ pc # "retire" /\ CloseWith(active) /\ faulted' = faulted
    BY <1>4 DEF CloseDone, Running
  <2>2. EpisodeOf(active)
    BY DEF EpisodeOf, TypeInv, TypeOK
  <2> QED BY <2>1, <2>2, BooksClosed
<1>5. CASE Interrupt
  <2> DEFINE a == Interrupted(active)
  <2>1. Running /\ pc # "retire" /\ CloseWith(a)
        /\ faulted' = IF active = None THEN faulted ELSE faulted \cup {active.id}
    BY <1>5 DEF Interrupt, Running
  <2>2. EpisodeOf(a) /\ ((a = None) <=> (active = None)) /\ (a # None => a.id = active.id)
    BY NoneAssumption DEF Interrupted, EpisodeOf, EpisodeType, TypeInv, TypeOK
  <2> HIDE DEF a
  <2> QED BY <2>1, <2>2, BooksClosed
<1>6. CASE \/ Loop \/ PollNothing \/ NoKey \/ RecordIdle \/ MoveOn \/ Observe \/ (Running /\ (Child \/ Overdue))
           \/ (\E choice \in {"save", "abort"} : KeyReview(choice)) \/ KeyEngage \/ KeyHome
           \/ ReplyPrepared \/ ReplyPreparedLate
  <2>1. Running
    BY <1>6 DEF Loop, PollNothing, NoKey, RecordIdle, MoveOn, Observe, KeyReview, KeyEngage, KeyHome,
                ReplyPrepared, ReplyPreparedLate, Reply, Key, Running
  <2> QED BY <1>6, <2>1, BooksIdle
<1>7. CASE \/ Begin \/ TailWaits \/ KeyPrepare
           \/ (\E reason \in {"space", "fail", "abort"} : KeyStop(reason)) \/ KeyQuit
  BY <1>7, BooksProgress
<1>8. CASE \/ PollFails \/ ReadFails \/ (\E hard \in BOOLEAN : MoveFails(hard) \/ KeyHomeFails(hard))
           \/ (\E reason \in {"space", "fail", "abort"} : KeyStopFails(reason)) \/ KeyQuitFails
           \/ ReplyCompleteFails
  BY <1>8, BooksFailure
<1>9. CASE Record \/ TailCloses
  BY <1>9, BooksReceipts
<1>10. CASE Dispose \/ Resolve
  BY <1>10, BooksDisposed
<1> QED
  BY <1>1, <1>2, <1>3, <1>4, <1>5, <1>6, <1>7, <1>8, <1>9, <1>10
  DEF Next, Control, Step, Poll, Move, Phases, Keys


-----------------------------------------------------------------------------
(* The invariants hold from the start, and in every step.                   *)

\* Before the first step there is no episode, no command and no file.
LEMMA Starts ==
    ASSUME Init
    PROVE  TypeInv /\ ControlInv /\ ProtocolInv /\ BooksInv
<1>1. TypeInv
  <2>1. NewChild \in ChildType /\ NewChild.id \in Episodes
    BY BoundsAssumption DEF NewChild, ChildType, Episodes
  <2>2. Len(inbox) <= Capacity /\ inbox = <<>>
    BY BoundsAssumption DEF Init
  <2>3. /\ completed \in Seq(EntryType) /\ inbox \in Seq(CommandType)
        /\ outbox \in Seq({"prepare", "cancelled", "complete"})
    BY DEF Init
  <2>4. /\ disk \in [Episodes -> {"none", "partial", "committed"}]
        /\ outcome \in [Episodes -> OutcomeType \cup {None}]
    BY DEF Init
  <2>5. faulted \subseteq Nat /\ refused \in BOOLEAN /\ quit \in BOOLEAN
    BY DEF Init
  <2>6. active = None /\ DOMAIN inbox = {} /\ child = NewChild
    BY DEF Init
  <2>7. /\ active \in EpisodeType \cup {None} /\ rejection \in RejectionType \cup {None}
        /\ pc = "loop" /\ phase = "idle" /\ motion = "needs_home"
    BY DEF Init
  <2> QED BY <2>1, <2>2, <2>3, <2>4, <2>5, <2>6, <2>7 DEF TypeInv, TypeOK
<1>2. ControlInv
  BY DEF Init, ControlInv, EpisodeShape, RejectionShape, Motions, PlaceShape, Usable, Unavailable,
         Unoccupied, Unrejected
<1>3. ProtocolInv
  <2>1. inbox = <<>> /\ completed = <<>> /\ DOMAIN inbox = {} /\ Len(completed) = 0
        /\ child.state = "idle" /\ outbox = <<>> /\ active = None /\ ~refused
        /\ \A e \in Episodes : disk[e] = "none"
    BY DEF Init, NewChild
  <2>2. Numbered
    BY <2>1, BoundsAssumption DEF Numbered
  <2>3. Drained /\ Chain(inbox) /\ Link
    BY <2>1 DEF Drained, Chain, Link, Quiet
  <2> QED BY <2>1, <2>2, <2>3 DEF ProtocolInv
<1>4. BooksInv
  BY DEF Init, BooksInv, OutcomeTruthful
<1> QED BY <1>1, <1>2, <1>3, <1>4

\* The data keep their shape, the phase says what there is, and the two
\* queues hold what their readers can take.
SessionInv == TypeInv /\ ControlInv /\ ProtocolInv

\* The three invariants are inductive together.
LEMMA SessionStep ==
    ASSUME SessionInv, [Next]_vars
    PROVE  SessionInv'
<1>1. TypeInv'
  BY TypeStep DEF SessionInv
<1>2. ControlInv'
  BY <1>1, ControlStep DEF SessionInv
<1>3. ProtocolInv'
  BY ProtocolStep DEF SessionInv
<1> QED BY <1>1, <1>2, <1>3 DEF SessionInv

\* Every reachable state of the session, of its recorder and of the queues
\* between them is one in which they agree on what the other is doing.
THEOREM SessionSafe == Spec => []SessionInv
<1>1. Init => SessionInv
  BY Starts DEF SessionInv
<1>2. SessionInv /\ [Next]_vars => SessionInv'
  BY SessionStep
<1> QED BY <1>1, <1>2, PTL DEF Spec

\* The variables of the session keep their types; the queue of commands never
\* holds more than its capacity.
THEOREM TypeCorrect == Spec => []TypeOK
<1>1. SessionInv => TypeOK
  BY DEF SessionInv, TypeInv
<1> QED BY <1>1, SessionSafe, PTL

\* The arm follows, homes and engages only where the session authorised it:
\* following belongs to a recorded episode, HOME to the time between two.
THEOREM MotionIsAuthorized == Spec => []MotionAuthorized
<1>1. SessionInv => MotionAuthorized
  <2> SUFFICES ASSUME SessionInv, Usable("motion"), Running PROVE
        /\ motion = "following" =>
              /\ rejection = None /\ active # None
              /\ phase = "recording" \/ (phase = "engaging" /\ pc = "record")
        /\ motion = "homing" => rejection = None /\ phase = "idle" /\ active = None
        /\ motion = "engaging" => rejection = None /\ phase \in {"engaging", "closing"}
    BY DEF MotionAuthorized
  <2>1. EpisodeShape /\ RejectionShape /\ motion \in Motions
    BY DEF SessionInv, ControlInv
  <2>2. motion = "following" => phase = "recording" \/ (phase = "engaging" /\ pc = "record")
    BY <2>1 DEF Motions
  <2>3. motion = "homing" => phase = "idle"
    BY <2>1 DEF Motions
  <2>4. motion = "engaging" => phase \in {"engaging", "closing"}
    BY <2>1 DEF Motions
  <2>5. phase \in {"recording", "engaging", "idle", "closing"} => rejection = None
    BY <2>1 DEF RejectionShape, Rejected
  <2>6. phase \in {"recording", "engaging"} => active # None
    BY <2>1 DEF EpisodeShape, Unoccupied
  <2>7. phase = "idle" => active = None
    BY <2>1 DEF EpisodeShape, Occupied, Opening
  <2> QED BY <2>2, <2>3, <2>4, <2>5, <2>6, <2>7
<1> QED BY <1>1, SessionSafe, PTL

\* The recorder process is never sent a command its state forbids, and every
\* reply reaches Session._replies in the phase that awaits it.
THEOREM ProtocolIsRespected == Spec => []ProtocolRespected
<1>1. SessionInv => ProtocolRespected
  <2> SUFFICES ASSUME SessionInv PROVE ~refused /\ ~ReplyUnexpected
    BY DEF ProtocolRespected
  <2>1. TypeInv /\ ControlInv /\ ProtocolInv /\ ~refused
    BY DEF SessionInv, ProtocolInv
  <2>2. ASSUME Reply("prepare"), phase # "preparing", ~quit, rejection = None PROVE FALSE
    <3>1. EpisodeShape /\ RejectionShape /\ PlaceShape
      BY <2>1, <2>2 DEF ControlInv, Reply, Running
    <3>2. phase \in Unrejected
      BY <3>1, <2>2 DEF RejectionShape
    <3>3. phase # "cancelling" /\ phase # "closing"
      BY <3>1, <3>2, <2>2 DEF Unrejected, PlaceShape
    <3>4. active # None /\ phase \notin {"finalizing", "engaging"} /\ ~active.started
      BY <2>1, <2>2, <3>3, ReplyAwaited
    <3>5. phase \in Occupied /\ phase \notin {"recording", "stopping", "finalizing"}
      BY <3>1, <3>4 DEF EpisodeShape
    <3> QED BY <2>2, <3>2, <3>3, <3>4, <3>5 DEF Unrejected, Occupied, Opening
  <2>3. ASSUME Reply("cancelled"), phase # "cancelling" PROVE FALSE
    BY <2>1, <2>3, ReplyAwaited
  <2>4. ASSUME Reply("complete"), phase # "finalizing" \/ ~MayComplete PROVE FALSE
    <3>1. active # None /\ phase = "finalizing"
      BY <2>1, <2>4, ReplyAwaited
    <3>2. active.settled
      BY <2>1, <2>4, <3>1 DEF ControlInv, EpisodeShape, Reply, Running
    <3> QED BY <2>4, <3>1, <3>2 DEF MayComplete
  <2> QED BY <2>1, <2>2, <2>3, <2>4 DEF ReplyUnexpected
<1> QED BY <1>1, SessionSafe, PTL

\* While the recorder seals an episode the arm it recorded is held, or its
\* motion is lost and a standstill was observed.
THEOREM StillIsSealed == Spec => []StillWhileSealing
<1>1. SessionInv => StillWhileSealing
  <2> SUFFICES ASSUME SessionInv, child.state \in {"finalizing", "committed"}, Running, Usable("recorder")
               PROVE  /\ phase = "finalizing" /\ active.settled
                      /\ motion = "held" \/ ~Usable("motion")
    BY DEF StillWhileSealing
  <2>1. Link /\ EpisodeShape /\ (Usable("motion") => motion \in Motions)
    BY DEF SessionInv, ProtocolInv, ControlInv
  <2>2. active # None /\ pc # "retire"
    BY <2>1 DEF Link, Quiet
  <2>3. CASE phase = "cancelling"
    BY <2>1, <2>2, <2>3 DEF Link, Cancelling
  <2>4. CASE phase \notin {"cancelling", "finalizing"}
    BY <2>1, <2>2, <2>4 DEF Link, Open, Capturing, Opened
  <2>5. CASE phase = "finalizing"
    BY <2>1, <2>2, <2>5 DEF EpisodeShape, Motions
  <2> QED BY <2>3, <2>4, <2>5
<1> QED BY <1>1, SessionSafe, PTL

(***************************************************************************)
(* What is listed, what is in outcome.json and what is on disk agree, and  *)
(* an episode listed as verified stays as it is: for every session that no *)
(* signal interrupts between listing an episode, verified or partial, and  *)
(* retiring it.  With such a signal both are false: collection_signal.     *)
(***************************************************************************)
THEOREM BooksSafe == ~InterruptInCompletion /\ Spec => [](SessionInv /\ BooksInv)
<1> DEFINE Inv == SessionInv /\ BooksInv
<1>1. Init => Inv
  BY Starts DEF SessionInv
<1>2. ~InterruptInCompletion /\ Inv /\ [Next]_vars => Inv'
  <2> SUFFICES ASSUME ~InterruptInCompletion, Inv, [Next]_vars PROVE Inv'
    OBVIOUS
  <2>1. SessionInv'
    BY SessionStep
  <2>2. CASE Next
    BY <2>1, <2>2, BooksStep DEF SessionInv
  <2>3. CASE UNCHANGED vars
    <3>1. UNCHANGED <<pc, active, completed, disk, outcome, faulted>>
      BY <2>3 DEF vars, loopVars, childVars, historyVars
    <3>2. BooksInv'
      BY <3>1 DEF BooksInv, OutcomeTruthful, Running
    <3> QED BY <2>1, <3>2
  <2> QED BY <2>2, <2>3
<1>3. ASSUME ~InterruptInCompletion PROVE Spec => []Inv
  <2>1. Inv /\ [Next]_vars => Inv'
    BY <1>2, <1>3
  <2> QED BY <1>1, <2>1, PTL DEF Spec
<1> QED BY <1>3

\* Unless a signal falls between listing and retiring an episode, session.json,
\* the outcome files and the directories tell one story.
THEOREM OutcomesAreTruthful == ~InterruptInCompletion /\ Spec => []OutcomeTruthful
<1>1. SessionInv /\ BooksInv => OutcomeTruthful
  BY DEF BooksInv
<1> QED BY <1>1, BooksSafe, PTL

\* Nothing that comes after it changes the entry, the outcome or the directory
\* of an episode listed as verified.
THEOREM VerifiedStays == ~InterruptInCompletion /\ Spec => VerifiedSurvives
<1>1. ~InterruptInCompletion /\ SessionInv /\ BooksInv /\ [Next]_vars => [Survives]_vars
  BY BooksStep DEF SessionInv
<1>2. ASSUME ~InterruptInCompletion PROVE Spec => VerifiedSurvives
  <2>1. SessionInv /\ BooksInv /\ [Next]_vars => [Survives]_vars
    BY <1>1, <1>2
  <2>2. Spec => [](SessionInv /\ BooksInv)
    BY <1>2, BooksSafe, PTL
  <2>3. Spec => [][Survives]_vars
    BY <2>1, <2>2, PTL DEF Spec
  <2> QED BY <2>3 DEF VerifiedSurvives, Survives
<1> QED BY <1>2
=============================================================================
