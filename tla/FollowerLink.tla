----------------------------- MODULE FollowerLink -----------------------------
(***************************************************************************)
(* A native follower (followers/local.Service around kinematic.Engine, in  *)
(* the render thread) and the control processes that want to own it (one   *)
(* local.Transport under a Controller each), over a Unix stream socket.    *)
(*                                                                         *)
(* The render thread loops over receive, update and publish and may stall  *)
(* anywhere.  A transport sends a claim, then commands and heartbeats; the *)
(* service drops what is too old without an answer, and a process may die  *)
(* or its socket may be full at any time.                                  *)
(*                                                                         *)
(* Time is kept as ages that grow together and are cut off above the limit *)
(* they are compared with.  A transport is used once, so it is its own     *)
(* epoch; within one stream sequences grow with every message, so the      *)
(* sequence checks of both sides never act and are not kept.  Poses are    *)
(* left out: a motion is where it comes from, a sample whether it is slow, *)
(* and the gripper target shares the fate of the joint target.  A receive  *)
(* buffer holds many snapshots and a read keeps the last, so "down" is the *)
(* last one published and not yet read.                                    *)
(***************************************************************************)
EXTENDS Integers, Sequences, SequencesExt

CONSTANTS
    Epochs,         \* the transports, each with an epoch of its own
    None,           \* no peer, no epoch, no sample
    ServoAge,       \* age at which a servo target is dropped (100 ms)
    CommandAge,     \* age at which any other command is dropped (500 ms)
    Watchdog,       \* silence at which the engine faults (0.5 s)
    Fresh,          \* Limits.freshness_ns of the owner (500 ms)
    StopTimeout,    \* settling.STOP_TIMEOUT_NS
    SendCapacity    \* bound: messages in the send buffer (SO_SNDBUF)

Silence == CommandAge + Watchdog
Unheard == StopTimeout + Silence

ASSUME LinkAssumption ==
    /\ {ServoAge, CommandAge, Watchdog, Fresh, StopTimeout} \subseteq Nat
    /\ ServoAge <= CommandAge
    /\ SendCapacity \in Nat \ {0}
    /\ None \notin Epochs \cup Nat

VARIABLES
    owner,      \* per epoch: the Controller and the Transport under it
    up,         \* per epoch: commands on their way to the service
    down,       \* per epoch: the snapshot on its way to the transport
    hung,       \* per epoch: the transport's end is closed or shut down
    cut,        \* per epoch: the service's end is closed
    backlog,    \* connections not yet accepted
    pc,         \* where the render thread is
    service,    \* Service.peer, .epoch, and an update not yet published
    batch,      \* the messages of this receive not yet executed
    engine,     \* kinematic.Engine
    silence,    \* history, per epoch: age of the last message sent
    revoked     \* history, per epoch: age of the stop of its last motion

ownerVars == <<owner, silence, revoked>>
socketVars == <<up, down, hung, cut, backlog>>
serviceVars == <<pc, service, batch, engine>>
vars == <<ownerVars, socketVars, serviceVars>>

-----------------------------------------------------------------------------
(* Types.                                                                  *)

Operations == {"claim", "move", "servo", "stop", "release", "heartbeat"}
Message == [operation : Operations, age : 0 .. (CommandAge + 1)]
Sample == [ok : BOOLEAN, slow : BOOLEAN, age : 0 .. (Fresh + 1)]
ASSUME NoneAssumption == None \notin Sample

Live == {"hold", "moving", "following", "stopping"}

Owner == [state  : Live \cup {"idle", "opening", "fault", "releasing", "gone"},
          seen   : Sample \cup {None},
          beaten : BOOLEAN]

Service == [peer : Epochs \cup {None}, epoch : Epochs \cup {None},
            applied : Sample \cup {None}]

Engine == [active : BOOLEAN, fault : BOOLEAN,
           motion : {"rest", "starting", "route", "target"},
           by     : Epochs \cup {None},
           beat   : 0 .. (Watchdog + 1)]

TypeOK ==
    /\ owner \in [Epochs -> Owner]
    /\ up \in [Epochs -> Seq(Message)]
    /\ down \in [Epochs -> Sample \cup {None}]
    /\ hung \in [Epochs -> BOOLEAN] /\ cut \in [Epochs -> BOOLEAN]
    /\ backlog \in Seq(Epochs)
    /\ pc \in {"receive", "execute", "update", "publish", "closed"}
    /\ service \in Service
    /\ batch \in Seq(Message)
    /\ engine \in Engine
    /\ silence \in [Epochs -> 0 .. (Silence + 1)]
    /\ revoked \in [Epochs -> 0 .. (Unheard + 1) \cup {None}]
    /\ \A e \in Epochs : owner[e].state \in Live => owner[e].seen # None
    /\ \A e \in Epochs :
          owner[e].state \in {"stopping", "fault"} <=> revoked[e] # None

NoPeer == [peer |-> None, epoch |-> None, applied |-> None]
NewOwner == [state |-> "idle", seen |-> None, beaten |-> FALSE]

Init ==
    /\ owner = [e \in Epochs |-> NewOwner]
    /\ up = [e \in Epochs |-> <<>>]
    /\ down = [e \in Epochs |-> None]
    /\ hung = [e \in Epochs |-> FALSE] /\ cut = [e \in Epochs |-> FALSE]
    /\ backlog = <<>>
    /\ pc = "receive"
    /\ service = NoPeer
    /\ batch = <<>>
    /\ engine = [active |-> FALSE, fault |-> FALSE, motion |-> "rest",
                 by |-> None, beat |-> 0]
    /\ silence = [e \in Epochs |-> 0]
    /\ revoked = [e \in Epochs |-> None]

-----------------------------------------------------------------------------
(* Time.                                                                   *)

Older(age, most) == IF age < most THEN age + 1 ELSE most
SampleAged(s) ==
    IF s = None THEN None ELSE [s EXCEPT !.age = Older(@, Fresh + 1)]
MessagesAged(s) ==
    [i \in DOMAIN s |-> [s[i] EXCEPT !.age = Older(@, CommandAge + 1)]]

\* The renderer stalls in a scene change or in a frame; between a receive and
\* the update after it nothing blocks.
TimePasses ==
    /\ pc \notin {"execute", "update"}
    /\ owner' = [e \in Epochs |->
          [owner[e] EXCEPT !.beaten = FALSE, !.seen = SampleAged(@)]]
    /\ up' = [e \in Epochs |-> MessagesAged(up[e])]
    /\ down' = [e \in Epochs |-> SampleAged(down[e])]
    /\ service' = [service EXCEPT !.applied = SampleAged(@)]
    /\ engine' = [engine EXCEPT
          !.beat = Older(@, Watchdog + 1),
          !.motion = IF @ = "starting" THEN "route" ELSE @]
    /\ silence' = [e \in Epochs |->
          IF owner[e].state = "idle" \/ cut[e] THEN 0
          ELSE Older(silence[e], Silence + 1)]
    /\ revoked' = [e \in Epochs |->
          IF revoked[e] = None THEN None ELSE Older(revoked[e], Unheard + 1)]
    /\ UNCHANGED <<hung, cut, backlog, pc, batch>>

-----------------------------------------------------------------------------
(* Transport: sending.                                                     *)

Open(e) == ~hung[e] /\ ~cut[e]
Room(e) == Open(e) /\ Len(up[e]) < SendCapacity

\* Transport.send: the message is in the buffer, stamped now.
Sends(e, operation) ==
    /\ Room(e)
    /\ up' = [up EXCEPT ![e] = Append(@, [operation |-> operation, age |-> 0])]
    /\ silence' = [silence EXCEPT ![e] = 0]
    /\ UNCHANGED hung

\* Transport.send raises: nothing was sent, or a part, and the channel is
\* shut down.
SendFails(e) ==
    /\ ~Room(e)
    /\ \E shut \in {hung[e], TRUE} : hung' = [hung EXCEPT ![e] = shut]
    /\ UNCHANGED <<up, silence>>

Becomes(e, state) == owner' = [owner EXCEPT ![e].state = state]

\* The controller of e will not read again.
Ends(e, state) ==
    owner' = [owner EXCEPT ![e] = [NewOwner EXCEPT !.state = state]]

\* The age of a stop starts with the first attempt to revoke a motion.
Revokes(e) ==
    revoked' = [revoked EXCEPT ![e] =
        IF owner[e].state = "stopping" THEN @ ELSE 0]

\* Transport.__init__: connect and claim.
Connects(e) ==
    /\ owner[e].state = "idle"
    /\ pc # "closed"
    /\ backlog' = Append(backlog, e)
    /\ Becomes(e, "opening")
    /\ Sends(e, "claim")
    /\ UNCHANGED <<down, cut, revoked, serviceVars>>

\* The first snapshot ends the wait of __init__.
Opens(e) ==
    /\ owner[e].state = "opening"
    /\ Open(e) /\ down[e] # None /\ down[e].ok
    /\ owner' = [owner EXCEPT ![e].state = "hold", ![e].seen = down[e]]
    /\ down' = [down EXCEPT ![e] = None]
    /\ UNCHANGED <<up, hung, cut, backlog, silence, revoked, serviceVars>>

-----------------------------------------------------------------------------
(* Controller over this transport.                                         *)

\* Transport.read: the latest snapshot, or the cached one.
Seen(e) == IF down[e] = None THEN owner[e].seen ELSE down[e]

\* Mutant of Healthy: a stop has no deadline.
HealthyWhileStopping(e) ==
    /\ Open(e)
    /\ Seen(e).ok
    /\ Seen(e).age <= Fresh

\* Controller.tick raises nothing for these.
Healthy(e) ==
    /\ Open(e)
    /\ Seen(e).ok
    /\ Seen(e).age <= Fresh
    /\ owner[e].state = "stopping" => revoked[e] <= StopTimeout

\* Controller.fail: latch, and try to stop.  Besides an unhealthy tick, a
\* timeout, a limit or the leader may raise in every state.
Fails(e) ==
    /\ owner[e].state \in Live
    /\ Ends(e, "fault")
    /\ Revokes(e)
    /\ Sends(e, "stop") \/ SendFails(e)
    /\ UNCHANGED <<down, cut, backlog, serviceVars>>

\* Controller._settle: slow samples end a stop, and a move near its end; how
\* many and for how long is the matter of Standstill.
Settled(e) ==
    IF owner[e].state \in {"moving", "stopping"} /\ Seen(e).slow
    THEN {owner[e].state, "hold"} ELSE {owner[e].state}

\* Transport.heartbeat: at most ten in a second.
Heartbeat(e) ==
    \/ owner[e].beaten /\ UNCHANGED <<up, hung, silence>>
    \/ ~owner[e].beaten /\ Sends(e, "heartbeat")

\* Controller.tick.
Ticks(e) ==
    /\ owner[e].state \in Live
    /\ Healthy(e)
    /\ Heartbeat(e)
    /\ \E state \in Settled(e) :
          owner' = [owner EXCEPT ![e] =
              [state |-> state, seen |-> Seen(e), beaten |-> TRUE]]
    /\ down' = [down EXCEPT ![e] = None]
    /\ revoked' = [revoked EXCEPT ![e] =
          IF owner'[e].state = "stopping" THEN @ ELSE None]
    /\ UNCHANGED <<cut, backlog, serviceVars>>

\* Controller.route, Controller.engage: from a fresh sample at rest.
AtRest(e) ==
    owner[e].state = "hold" /\ owner[e].seen.slow /\ owner[e].seen.age <= Fresh

Moves(e) ==
    /\ AtRest(e)
    /\ Becomes(e, "moving")
    /\ Sends(e, "move")
    /\ UNCHANGED <<down, cut, backlog, revoked, serviceVars>>

Engages(e) ==
    /\ AtRest(e)
    /\ Becomes(e, "following")
    /\ UNCHANGED <<silence, revoked, socketVars, serviceVars>>

\* Controller.follow.
Servos(e) ==
    /\ owner[e].state = "following"
    /\ Sends(e, "servo")
    /\ UNCHANGED <<owner, down, cut, backlog, revoked, serviceVars>>

\* Controller.halt: a stop that cannot be sent is a failure.
Halts(e) ==
    /\ owner[e].state \in {"hold", "moving", "following"}
    /\ Becomes(e, "stopping")
    /\ revoked' = [revoked EXCEPT ![e] = 0]
    /\ Sends(e, "stop")
    /\ UNCHANGED <<down, cut, backlog, serviceVars>>

-----------------------------------------------------------------------------
(* The end of a transport.                                                 *)

\* Transport.close, also from a failed __init__: release if it can be sent.
Releases(e) ==
    /\ owner[e].state \in {"opening", "hold", "fault"}
    /\ Ends(e, "releasing")
    /\ revoked' = [revoked EXCEPT ![e] = None]
    /\ Sends(e, "release") \/ SendFails(e)
    /\ UNCHANGED <<down, cut, backlog, serviceVars>>

\* The socket is closed, by the transport or because its process was killed;
\* what was not drained yet is lost with it.
HangsUp(e) ==
    /\ owner[e].state \notin {"idle", "gone"}
    /\ Ends(e, "gone")
    /\ hung' = [hung EXCEPT ![e] = TRUE]
    /\ up' = [up EXCEPT ![e] = <<>>]
    /\ down' = [down EXCEPT ![e] = None]
    /\ revoked' = [revoked EXCEPT ![e] = None]
    /\ UNCHANGED <<cut, backlog, silence, serviceVars>>

-----------------------------------------------------------------------------
(* Engine.                                                                 *)

\* Engine.hold.
Held(g) == [g EXCEPT !.motion = "rest"]

Claimed(g) == [g EXCEPT !.active = TRUE, !.fault = FALSE, !.beat = 0]
Faulted(g) == [Held(g) EXCEPT !.fault = TRUE]
Working(g) == g.active /\ ~g.fault
Expired(g) == g.active /\ g.beat > Watchdog

\* Engine.advance_targets: what an update makes of a motion, and whether the
\* pose it applies is a slow sample.  A route is slow where it starts and ends.
Advanced(g) ==
    CASE ~Working(g) \/ g.motion = "rest" -> {<<"rest", TRUE>>}
      [] Working(g) /\ g.motion = "target" -> {"rest"} \X BOOLEAN
      [] Working(g) /\ g.motion = "starting" -> {"starting"} \X BOOLEAN
      [] Working(g) /\ g.motion = "route" ->
            {<<"route", FALSE>>, <<"rest", TRUE>>, <<"rest", FALSE>>}

-----------------------------------------------------------------------------
(* Service.                                                                *)

\* Mutant of ReleasedEngine: the pose is kept but not the motion's end.
ReleasedEngineMoving == [engine EXCEPT !.active = FALSE]

ReleasedEngine == [Held(engine) EXCEPT !.active = FALSE]

\* Service.release: close the peer and forget it.
ReleasesPeer(e) ==
    /\ engine' = ReleasedEngine
    /\ service' = NoPeer
    /\ cut' = [cut EXCEPT ![e] = TRUE]
    /\ batch' = <<>>

\* Service.receive: accept, then drain the socket; an end of file in the same
\* drain discards what came with it.
Receives(e) ==
    /\ pc = "receive"
    /\ IF service.peer = None THEN backlog # <<>> /\ Head(backlog) = e
       ELSE service.peer = e
    /\ backlog' = IF service.peer = None THEN Tail(backlog) ELSE backlog
    /\ up' = [up EXCEPT ![e] = <<>>]
    /\ \/ /\ hung[e]
          /\ ReleasesPeer(e)
          /\ pc' = "update"
       \/ /\ ~hung[e]
          /\ service' = [service EXCEPT !.peer = e]
          /\ batch' = up[e]
          /\ pc' = "execute"
          /\ UNCHANGED <<cut, engine>>
    /\ UNCHANGED <<ownerVars, down, hung>>

ReceivesNothing ==
    /\ pc = "receive"
    /\ service.peer = None /\ backlog = <<>>
    /\ pc' = "update"
    /\ UNCHANGED <<ownerVars, socketVars, service, batch, engine>>

\* Mutant of TooOld: commands are accepted at any age.
TooOldServo(m) == m.operation = "servo" /\ m.age > ServoAge

TooOld(m) == m.age > (IF m.operation = "servo" THEN ServoAge ELSE CommandAge)

\* Too old, a second claim, or not of the current epoch: no answer.
Ignored(m) ==
    \/ TooOld(m)
    \/ m.operation = "claim" /\ service.epoch # None
    \/ m.operation # "claim" /\ service.epoch = None

Executing ==
    /\ pc = "execute"
    /\ batch # <<>>
    /\ UNCHANGED <<ownerVars, up, down, hung, backlog>>

Ignores ==
    /\ Executing
    /\ Ignored(Head(batch))
    /\ batch' = Tail(batch)
    /\ UNCHANGED <<cut, pc, service, engine>>

Claims ==
    /\ Executing
    /\ ~Ignored(Head(batch)) /\ Head(batch).operation = "claim"
    /\ service' = [service EXCEPT !.epoch = service.peer]
    /\ engine' = Claimed(engine)
    /\ batch' = Tail(batch)
    /\ UNCHANGED <<cut, pc>>

\* Engine.command raises: without a healthy owner, or for a target outside of
\* the limits.  The rest of the batch is lost.
Rejects ==
    /\ Executing
    /\ ~Ignored(Head(batch)) /\ Head(batch).operation # "claim"
    /\ ~Working(engine) \/ Head(batch).operation \in {"move", "servo"}
    /\ engine' = Faulted(engine)
    /\ batch' = <<>>
    /\ UNCHANGED <<cut, pc, service>>

Driven(g, motion) == [g EXCEPT !.motion = motion, !.by = service.epoch]

Commanded(g, operation) ==
    [ CASE operation = "move" -> Driven(g, "starting")
        [] operation = "servo" -> Driven(g, "target")
        [] operation = "stop" -> Held(g)
        [] OTHER -> g  EXCEPT !.beat = 0]

\* Engine.command for an owner in good health.
Executes ==
    /\ Executing
    /\ ~Ignored(Head(batch))
    /\ Head(batch).operation \notin {"claim", "release"}
    /\ Working(engine)
    /\ engine' = Commanded(engine, Head(batch).operation)
    /\ batch' = Tail(batch)
    /\ UNCHANGED <<cut, pc, service>>

ExecutesRelease ==
    /\ Executing
    /\ ~Ignored(Head(batch)) /\ Head(batch).operation = "release"
    /\ Working(engine)
    /\ ReleasesPeer(service.peer)
    /\ UNCHANGED pc

Received ==
    /\ pc = "execute" /\ batch = <<>>
    /\ pc' = "update"
    /\ UNCHANGED <<ownerVars, socketVars, service, batch, engine>>

\* The watchdog: Engine.update begins with it.
Watched == IF Expired(engine) THEN Faulted(engine) ELSE engine

\* Engine.update.
Updates ==
    /\ pc = "update"
    /\ \E r \in Advanced(Watched) :
          /\ engine' = [Watched EXCEPT !.motion = r[1]]
          /\ service' = [service EXCEPT
                !.applied = [ok |-> Working(Watched), slow |-> r[2], age |-> 0]]
    /\ pc' = "publish"
    /\ UNCHANGED <<ownerVars, socketVars, batch>>

\* Service.publish.
PublishesNothing ==
    /\ pc = "publish"
    /\ service.epoch = None
    /\ pc' = "receive"
    /\ service' = [service EXCEPT !.applied = None]
    /\ UNCHANGED <<ownerVars, socketVars, batch, engine>>

Publishes(e) ==
    /\ pc = "publish"
    /\ service.epoch = e /\ ~hung[e]
    /\ down' = [down EXCEPT ![e] = service.applied]
    /\ service' = [service EXCEPT !.applied = None]
    /\ pc' = "receive"
    /\ UNCHANGED <<ownerVars, up, hung, cut, backlog, batch, engine>>

\* The transport's end is closed: ConnectionError.
PublishFails(e) ==
    /\ pc = "publish"
    /\ service.epoch = e /\ hung[e]
    /\ ReleasesPeer(e)
    /\ pc' = "receive"
    /\ UNCHANGED <<ownerVars, up, down, hung, backlog>>

\* Service.close, when the application ends; nothing gets through any more.
Shuts ==
    /\ pc = "receive"
    /\ engine' = ReleasedEngine
    /\ service' = NoPeer
    /\ cut' = [e \in Epochs |-> TRUE]
    /\ up' = [e \in Epochs |-> <<>>]
    /\ down' = [e \in Epochs |-> None]
    /\ backlog' = <<>>
    /\ pc' = "closed"
    /\ UNCHANGED <<ownerVars, hung, batch>>

-----------------------------------------------------------------------------
\* Nothing that a batch or an update touches is read by a transport, so its
\* steps need not be taken between them.
Control(e) ==
    /\ pc \notin {"execute", "update"}
    /\ \/ Connects(e) \/ Opens(e) \/ Ticks(e) \/ Fails(e)
       \/ Moves(e) \/ Engages(e) \/ Servos(e) \/ Halts(e)
       \/ Releases(e) \/ HangsUp(e)

Execution ==
    Ignores \/ Claims \/ Rejects \/ Executes \/ ExecutesRelease \/ Received

Render ==
    \/ ReceivesNothing \/ Execution \/ Updates \/ PublishesNothing \/ Shuts
    \/ \E e \in Epochs : Receives(e) \/ Publishes(e) \/ PublishFails(e)

Next == TimePasses \/ Render \/ \E e \in Epochs : Control(e)

Spec == Init /\ [][Next]_vars

-----------------------------------------------------------------------------
(* Properties.                                                             *)

\* The update that is about to be made executes a motion of e.
Moving(e) ==
    /\ pc = "update" /\ Working(Watched)
    /\ Watched.motion # "rest" /\ Watched.by = e

\* "Commands expire ... producer loss stops execution": however long the
\* renderer stalled and whatever was buffered, no motion is executed for an
\* owner that has sent nothing for longer than a command lives and the watchdog
\* waits.
MotionExpires == \A e \in Epochs : Moving(e) => silence[e] <= Silence

\* A stop may be dropped for its age while younger heartbeats are accepted; even
\* so a motion ends within the deadline of the stop and the silence after it.
StopBounded == \A e \in Epochs :
    Moving(e) /\ owner[e].state \in {"stopping", "fault"} =>
        revoked[e] <= Unheard

\* "Old ownership epochs cannot resume motion": what is executed was commanded
\* under the epoch that owns the follower now, and a new owner finds it at rest.
MotionOwned == engine.motion # "rest" =>
    /\ engine.active
    /\ engine.by = service.epoch
===============================================================================
