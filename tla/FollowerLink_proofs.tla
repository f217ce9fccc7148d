------------------------- MODULE FollowerLink_proofs -------------------------
(***************************************************************************)
(* A follower moves only for its present owner, not for long when that     *)
(* falls silent, and not long after a stop: MotionOwned, MotionExpires and *)
(* StopBounded of FollowerLink, for every number of transports, all ages   *)
(* and any buffer.                                                         *)
(*                                                                         *)
(* Besides types, the first induction needs that a motion has an owner at  *)
(* all: then the claim of a follower without one finds it at rest.         *)
(***************************************************************************)
EXTENDS FollowerLink, SequenceTheorems, TLAPS

ServiceTyped ==
    /\ service \in Service
    /\ engine \in Engine

MotionHasOwner == engine.motion # "rest" => service.epoch # None

LinkInv == ServiceTyped /\ MotionHasOwner /\ MotionOwned

-----------------------------------------------------------------------------
(* What the operators of the engine and the service keep.                  *)

\* Older counts up to its limit.
LEMMA OlderBounded ==
    ASSUME NEW most \in Nat, NEW age \in 0 .. most
    PROVE  Older(age, most) \in 0 .. most
BY DEF Older

\* A sample that ages is a sample, with the engine's answer unchanged.
LEMMA SampleAgedTyped ==
    ASSUME NEW s \in Sample \cup {None}
    PROVE  SampleAged(s) \in Sample \cup {None}
<1>1. CASE s = None
  BY <1>1 DEF SampleAged
<1>2. CASE s # None
  <2>1. s \in Sample
    BY <1>2
  <2>2. Fresh + 1 \in Nat
    BY LinkAssumption
  <2>3. Older(s.age, Fresh + 1) \in 0 .. (Fresh + 1)
    BY <2>1, <2>2, OlderBounded DEF Sample
  <2>. QED
    BY <1>2, <2>1, <2>3 DEF SampleAged, Sample
<1>. QED
  BY <1>1, <1>2

\* Releasing a peer takes owner and motion away together.
LEMMA ReleaseRests ==
    ASSUME ServiceTyped, NEW e, ReleasesPeer(e)
    PROVE  LinkInv'
<1>1. engine' \in Engine /\ engine'.motion = "rest"
  BY DEF ServiceTyped, ReleasesPeer, ReleasedEngine, Held, Engine
<1>2. service' \in Service
  BY DEF ReleasesPeer, NoPeer, Service
<1>. QED
  BY <1>1, <1>2 DEF LinkInv, ServiceTyped, MotionHasOwner, MotionOwned

\* A fault holds the engine.
LEMMA FaultRests ==
    ASSUME ServiceTyped
    PROVE  /\ Faulted(engine) \in Engine
           /\ Faulted(engine).motion = "rest"
BY DEF ServiceTyped, Faulted, Held, Engine

\* The watchdog leaves a motion alone or ends it.
LEMMA WatchedKeeps ==
    ASSUME ServiceTyped
    PROVE  /\ Watched \in Engine
           /\ Watched.motion # "rest" => Watched = engine
<1>1. CASE Expired(engine)
  BY <1>1, FaultRests DEF Watched
<1>2. CASE ~Expired(engine)
  BY <1>2 DEF Watched, ServiceTyped
<1>. QED
  BY <1>1, <1>2

-----------------------------------------------------------------------------
(* The invariant.                                                          *)

LEMMA InitLink == Init => LinkInv
<1>1. ASSUME Init PROVE engine \in Engine /\ engine.motion = "rest"
  BY <1>1, LinkAssumption DEF Init, Engine
<1>2. ASSUME Init PROVE service \in Service
  BY <1>2 DEF Init, NoPeer, Service
<1>. QED
  BY <1>1, <1>2 DEF LinkInv, ServiceTyped, MotionHasOwner, MotionOwned

LEMMA TimeLink ==
    ASSUME LinkInv, TimePasses
    PROVE  LinkInv'
<1>. USE DEF LinkInv
<1>1. SampleAged(service.applied) \in Sample \cup {None}
  BY SampleAgedTyped DEF ServiceTyped, Service
<1>2. /\ service' \in Service
      /\ service'.epoch = service.epoch
  BY <1>1 DEF TimePasses, ServiceTyped, Service
<1>3. Older(engine.beat, Watchdog + 1) \in 0 .. (Watchdog + 1)
  <2>1. Watchdog + 1 \in Nat
    BY LinkAssumption
  <2>. QED
    BY <2>1, OlderBounded DEF ServiceTyped, Engine
<1>4. /\ engine' \in Engine
      /\ engine'.active = engine.active
      /\ engine'.by = engine.by
      /\ engine'.motion = "rest" <=> engine.motion = "rest"
  BY <1>3 DEF TimePasses, ServiceTyped, Engine
<1>. QED
  BY <1>2, <1>4 DEF ServiceTyped, MotionHasOwner, MotionOwned

\* The steps of a transport are its own.
LEMMA ControlLink ==
    ASSUME LinkInv, NEW e \in Epochs, Control(e)
    PROVE  LinkInv'
<1>1. UNCHANGED serviceVars
  BY DEF Control, Connects, Opens, Ticks, Fails, Moves, Engages, Servos, Halts,
         Releases, HangsUp
<1>. QED
  BY <1>1 DEF serviceVars, LinkInv, ServiceTyped, MotionHasOwner, MotionOwned

LEMMA ReceivesLink ==
    ASSUME LinkInv, NEW e \in Epochs, Receives(e)
    PROVE  LinkInv'
<1>. USE DEF LinkInv
<1>1. CASE ReleasesPeer(e)
  BY <1>1, ReleaseRests
<1>2. CASE service' = [service EXCEPT !.peer = e] /\ UNCHANGED engine
  <2>1. service' \in Service /\ service'.epoch = service.epoch
    BY <1>2 DEF ServiceTyped, Service
  <2>. QED
    BY <1>2, <2>1 DEF ServiceTyped, MotionHasOwner, MotionOwned
<1>. QED
  BY <1>1, <1>2 DEF Receives

\* A claim is taken only from a follower without an owner.
LEMMA ClaimsLink ==
    ASSUME LinkInv, Claims
    PROVE  LinkInv'
<1>. USE DEF LinkInv
<1>1. service.epoch = None
  BY DEF Claims, Ignored
<1>2. engine.motion = "rest"
  BY <1>1 DEF MotionHasOwner
<1>3. service' \in Service
  BY DEF Claims, ServiceTyped, Service
<1>4. engine' \in Engine /\ engine'.motion = "rest"
  <2>1. 0 \in 0 .. (Watchdog + 1)
    BY LinkAssumption
  <2>2. engine' = [engine EXCEPT !.active = TRUE, !.fault = FALSE, !.beat = 0]
    BY DEF Claims, Claimed
  <2>. QED
    BY <1>2, <2>1, <2>2 DEF ServiceTyped, Engine
<1>. QED
  BY <1>3, <1>4 DEF ServiceTyped, MotionHasOwner, MotionOwned

\* A command is executed only for the owner that the epoch names.
LEMMA ExecutesLink ==
    ASSUME LinkInv, Executes
    PROVE  LinkInv'
<1>. USE DEF LinkInv
<1>. DEFINE operation == Head(batch).operation
<1>1. /\ service.epoch # None
      /\ engine.active
      /\ engine' = Commanded(engine, operation)
      /\ service' = service
  BY DEF Executes, Executing, Ignored, Working
<1>2. 0 \in 0 .. (Watchdog + 1)
  BY LinkAssumption
<1>3. CASE operation \in {"move", "servo"}
  <2>1. /\ engine' \in Engine
        /\ engine'.active
        /\ engine'.by = service.epoch
    BY <1>1, <1>2, <1>3 DEF Commanded, Driven, ServiceTyped, Service, Engine
  <2>. QED
    BY <1>1, <2>1 DEF ServiceTyped, MotionHasOwner, MotionOwned
<1>4. CASE operation \notin {"move", "servo"}
  <2>1. /\ engine' \in Engine
        /\ engine'.active = engine.active
        /\ engine'.by = engine.by
        /\ engine'.motion \in {"rest", engine.motion}
    BY <1>1, <1>2, <1>4 DEF Commanded, Held, ServiceTyped, Engine
  <2>. QED
    BY <1>1, <2>1 DEF ServiceTyped, MotionHasOwner, MotionOwned
<1>. QED
  BY <1>3, <1>4

\* An update goes on with a motion, ends it, or leaves the follower at rest.
LEMMA UpdatesLink ==
    ASSUME LinkInv, Updates
    PROVE  LinkInv'
<1>. USE DEF LinkInv
<1>1. PICK r \in Advanced(Watched) :
          /\ engine' = [Watched EXCEPT !.motion = r[1]]
          /\ service' = [service EXCEPT
                !.applied = [ok |-> Working(Watched), slow |-> r[2], age |-> 0]]
  BY DEF Updates
<1>2. /\ r[1] \in {"rest", "starting", "route"}
      /\ r[1] # "rest" => Watched.motion # "rest"
      /\ r[2] \in BOOLEAN
  <2>1. CASE ~Working(Watched) \/ Watched.motion = "rest"
    <3>1. r = <<"rest", TRUE>>
      BY <2>1 DEF Advanced
    <3>. QED
      BY <3>1
  <2>2. CASE Working(Watched) /\ Watched.motion # "rest"
    <3>1. \E motion \in {"rest", "starting", "route"}, slow \in BOOLEAN :
              r = <<motion, slow>>
      <4>1. CASE Watched.motion = "target"
        BY <2>2, <4>1 DEF Advanced
      <4>2. CASE Watched.motion = "starting"
        BY <2>2, <4>2 DEF Advanced
      <4>3. CASE Watched.motion = "route"
        BY <2>2, <4>3 DEF Advanced
      <4>4. Watched.motion \in {"target", "starting", "route"}
        BY <2>2, WatchedKeeps DEF Engine
      <4>. QED
        BY <4>1, <4>2, <4>3, <4>4
    <3>2. PICK motion \in {"rest", "starting", "route"}, slow \in BOOLEAN :
              r = <<motion, slow>>
      BY <3>1
    <3>. QED
      BY <2>2, <3>2
  <2>. QED
    BY <2>1, <2>2
<1>3. /\ engine' \in Engine
      /\ engine'.motion # "rest" =>
            /\ engine.motion # "rest"
            /\ engine'.active = engine.active /\ engine'.by = engine.by
  BY <1>1, <1>2, WatchedKeeps DEF Engine
<1>4. Working(Watched) \in BOOLEAN
  BY WatchedKeeps DEF Working, Engine
<1>5. service' \in Service /\ service'.epoch = service.epoch
  BY <1>1, <1>2, <1>4, LinkAssumption DEF ServiceTyped, Service, Sample
<1>. QED
  BY <1>3, <1>5 DEF ServiceTyped, MotionHasOwner, MotionOwned

\* Publishing only forgets the sample.
LEMMA PublishedLink ==
    ASSUME LinkInv,
           service' = [service EXCEPT !.applied = None],
           UNCHANGED engine
    PROVE  LinkInv'
<1>. USE DEF LinkInv
<1>1. service' \in Service /\ service'.epoch = service.epoch
  BY DEF ServiceTyped, Service
<1>. QED
  BY <1>1 DEF ServiceTyped, MotionHasOwner, MotionOwned

LEMMA ShutsLink ==
    ASSUME LinkInv, Shuts
    PROVE  LinkInv'
<1>1. engine' \in Engine /\ engine'.motion = "rest"
  BY DEF LinkInv, ServiceTyped, Shuts, ReleasedEngine, Held, Engine
<1>2. service' \in Service
  BY DEF Shuts, NoPeer, Service
<1>. QED
  BY <1>1, <1>2 DEF LinkInv, ServiceTyped, MotionHasOwner, MotionOwned

LEMMA NextLink ==
    ASSUME LinkInv, [Next]_vars
    PROVE  LinkInv'
<1>. DEFINE Same == UNCHANGED <<service, engine>>
<1>0. ASSUME Same PROVE LinkInv'
  BY <1>0 DEF LinkInv, ServiceTyped, MotionHasOwner, MotionOwned
<1>1. CASE TimePasses
  BY <1>1, TimeLink
<1>2. CASE ReceivesNothing \/ Ignores \/ Received
  BY <1>0, <1>2 DEF ReceivesNothing, Ignores, Received
<1>3. CASE Claims
  BY <1>3, ClaimsLink
<1>4. CASE Rejects
  <2>1. engine' = Faulted(engine) /\ service' = service
    BY <1>4 DEF Rejects
  <2>. QED
    BY <2>1, FaultRests DEF LinkInv, ServiceTyped, MotionHasOwner, MotionOwned
<1>5. CASE Executes
  BY <1>5, ExecutesLink
<1>6. CASE ExecutesRelease
  BY <1>6, ReleaseRests DEF ExecutesRelease, LinkInv
<1>7. CASE Updates
  BY <1>7, UpdatesLink
<1>8. CASE PublishesNothing
  BY <1>8, PublishedLink DEF PublishesNothing
<1>9. CASE Shuts
  BY <1>9, ShutsLink
<1>10. CASE \E e \in Epochs : Receives(e)
  BY <1>10, ReceivesLink
<1>11. CASE \E e \in Epochs : Publishes(e)
  BY <1>11, PublishedLink DEF Publishes
<1>12. CASE \E e \in Epochs : PublishFails(e)
  BY <1>12, ReleaseRests DEF PublishFails, LinkInv
<1>13. CASE \E e \in Epochs : Control(e)
  BY <1>13, ControlLink
<1>14. CASE UNCHANGED vars
  BY <1>0, <1>14 DEF vars, serviceVars
<1>. QED
  BY <1>1, <1>2, <1>3, <1>4, <1>5, <1>6, <1>7, <1>8, <1>9, <1>10, <1>11, <1>12,
     <1>13, <1>14 DEF Next, Render, Execution

-----------------------------------------------------------------------------
\* "Old ownership epochs cannot resume motion": whatever is buffered, dropped
\* or interrupted, the native follower moves only by a command of the epoch
\* that owns it now.
THEOREM MotionIsOwned == Spec => []MotionOwned
<1>1. LinkInv => MotionOwned
  BY DEF LinkInv
<1>. QED
  BY <1>1, InitLink, NextLink, PTL DEF Spec

-----------------------------------------------------------------------------
(* MotionExpires.  What bounds a motion after its owner fell silent is a   *)
(* chain: nothing buffered is younger than the owner's last message, what  *)
(* is executed was young enough, and the watchdog starts there.            *)

Spoken(e, s) ==
    \A i \in DOMAIN s : s[i].age <= CommandAge => silence[e] <= s[i].age

LinkTyped ==
    /\ up \in [Epochs -> Seq(Message)]
    /\ batch \in Seq(Message)
    /\ silence \in [Epochs -> Nat]

Heard ==
    /\ \A e \in Epochs : Spoken(e, up[e])
    /\ batch # <<>> => Spoken(service.peer, batch)
    /\ pc # "execute" => batch = <<>>
    /\ service.epoch # None => service.epoch = service.peer
    /\ engine.motion # "rest" /\ engine.beat <= Watchdog =>
          silence[engine.by] <= CommandAge + engine.beat

SilenceInv == LinkInv /\ LinkTyped /\ Heard

\* The numbers are natural.
LEMMA Ages == /\ ServoAge \in Nat /\ CommandAge \in Nat /\ Watchdog \in Nat
              /\ ServoAge <= CommandAge
              /\ Silence \in Nat /\ Silence = CommandAge + Watchdog
BY LinkAssumption DEF Silence

\* Who moves is an owner.
LEMMA MoverIsEpoch ==
    ASSUME LinkInv, engine.motion # "rest"
    PROVE  engine.by \in Epochs /\ engine.by = service.epoch
BY DEF LinkInv, ServiceTyped, MotionHasOwner, MotionOwned, Service

\* Buffers that age keep their messages.
LEMMA MessagesAgedTyped ==
    ASSUME NEW s \in Seq(Message)
    PROVE  /\ MessagesAged(s) \in Seq(Message)
           /\ DOMAIN MessagesAged(s) = DOMAIN s
           /\ \A i \in DOMAIN s :
                 MessagesAged(s)[i].age <= CommandAge =>
                    MessagesAged(s)[i].age = s[i].age + 1
<1>1. CommandAge + 1 \in Nat
  BY Ages
<1>2. ASSUME NEW i \in DOMAIN s
      PROVE  /\ MessagesAged(s)[i] = [s[i] EXCEPT !.age = Older(@, CommandAge + 1)]
             /\ MessagesAged(s)[i] \in Message
             /\ MessagesAged(s)[i].age <= CommandAge =>
                   MessagesAged(s)[i].age = s[i].age + 1
  <2>1. s[i] \in Message
    BY <1>2
  <2>2. Older(s[i].age, CommandAge + 1) \in 0 .. (CommandAge + 1)
    BY <1>1, <2>1, OlderBounded DEF Message
  <2>3. MessagesAged(s)[i] = [s[i] EXCEPT !.age = Older(@, CommandAge + 1)]
    BY <1>2 DEF MessagesAged
  <2>4. MessagesAged(s)[i] \in Message
    BY <2>1, <2>2, <2>3 DEF Message
  <2>5. MessagesAged(s)[i].age = Older(s[i].age, CommandAge + 1)
    BY <2>1, <2>3 DEF Message
  <2>6. s[i].age \in Nat
    BY <2>1, Ages DEF Message
  <2>. QED
    BY <2>3, <2>4, <2>5, <2>6, Ages DEF Older
<1>3. DOMAIN MessagesAged(s) = DOMAIN s
  BY DEF MessagesAged
<1>4. MessagesAged(s) \in Seq(Message)
  <2>1. DOMAIN s = 1 .. Len(s) /\ Len(s) \in Nat
    BY LenProperties
  <2>2. MessagesAged(s) \in [1 .. Len(s) -> Message]
    BY <1>2, <2>1 DEF MessagesAged
  <2>. QED
    BY <2>1, <2>2, SeqDef
<1>. QED
  BY <1>2, <1>3, <1>4

LEMMA InitHeard == Init => SilenceInv
<1>1. ASSUME Init PROVE LinkTyped
  BY <1>1 DEF Init, LinkTyped
<1>2. ASSUME Init PROVE Heard
  <2>1. \A e \in Epochs : Spoken(e, up[e])
    BY <1>2 DEF Init, Spoken
  <2>. QED
    BY <1>2, <2>1 DEF Init, NoPeer, Heard
<1>. QED
  BY <1>1, <1>2, InitLink DEF SilenceInv

LEMMA TimeHeard ==
    ASSUME SilenceInv, TimePasses
    PROVE  LinkTyped' /\ Heard'
<1>. USE DEF SilenceInv
<1>1. /\ pc # "execute" /\ pc' = pc
      /\ batch = <<>> /\ batch' = <<>>
  BY DEF TimePasses, Heard
<1>2. up' = [e \in Epochs |-> MessagesAged(up[e])]
  BY DEF TimePasses
<1>3. \A e \in Epochs : /\ silence'[e] \in Nat
                        /\ silence'[e] <= silence[e] + 1
  <2>. TAKE e \in Epochs
  <2>1. silence'[e] \in {0, Older(silence[e], Silence + 1)}
    BY DEF TimePasses
  <2>2. silence[e] \in Nat
    BY DEF LinkTyped
  <2>. QED
    BY <2>1, <2>2, Ages DEF Older
<1>4. silence' \in [Epochs -> Nat]
  BY <1>3 DEF TimePasses
<1>5. LinkTyped'
  BY <1>1, <1>2, <1>4, MessagesAgedTyped DEF LinkTyped
<1>6. ASSUME NEW e \in Epochs PROVE Spoken(e, up[e])'
  <2>. SUFFICES ASSUME NEW i \in DOMAIN up'[e], up'[e][i].age <= CommandAge
                PROVE  silence'[e] <= up'[e][i].age
    BY DEF Spoken
  <2>1. /\ i \in DOMAIN up[e]
        /\ up'[e][i].age = up[e][i].age + 1
    BY <1>2, MessagesAgedTyped DEF LinkTyped
  <2>2. up[e][i].age \in Nat
    <3>1. up[e] \in Seq(Message)
      BY DEF LinkTyped
    <3>2. up[e][i] \in Message
      BY <2>1, <3>1
    <3>. QED
      BY <3>2, Ages DEF Message
  <2>3. silence[e] <= up[e][i].age
    BY <2>1, <2>2, Ages DEF Heard, Spoken
  <2>. QED
    BY <1>3, <2>1, <2>2, <2>3 DEF LinkTyped
<1>7. /\ service'.epoch = service.epoch
      /\ service'.peer = service.peer
  BY DEF TimePasses, LinkInv, ServiceTyped, Service
<1>8. ASSUME engine'.motion # "rest", engine'.beat <= Watchdog
      PROVE  silence'[engine'.by] <= CommandAge + engine'.beat
  <2>1. /\ engine.motion # "rest"
        /\ engine'.by = engine.by
        /\ engine'.beat = Older(engine.beat, Watchdog + 1)
    BY <1>8 DEF TimePasses, LinkInv, ServiceTyped, Engine
  <2>2. engine.by \in Epochs
    BY <2>1, MoverIsEpoch
  <2>3. engine.beat \in Nat
    BY Ages DEF LinkInv, ServiceTyped, Engine
  <2>4. engine'.beat = engine.beat + 1 /\ engine.beat <= Watchdog
    BY <1>8, <2>1, <2>3, Ages DEF Older
  <2>5. silence[engine.by] <= CommandAge + engine.beat
    BY <2>1, <2>4 DEF Heard
  <2>. QED
    BY <1>3, <2>1, <2>2, <2>3, <2>4, <2>5, Ages DEF LinkTyped
<1>. QED
  BY <1>1, <1>5, <1>6, <1>7, <1>8 DEF Heard

\* What a transport's step does to its buffer and to its silence.
LEMMA ControlSpeaks ==
    ASSUME NEW e \in Epochs, Control(e)
    PROVE  \/ UNCHANGED <<up, silence>>
           \/ up' = [up EXCEPT ![e] = <<>>] /\ UNCHANGED silence
           \/ \E operation \in Operations : Sends(e, operation)
<1>. USE DEF Operations
<1>1. CASE Connects(e)
  BY <1>1 DEF Connects
<1>2. CASE Opens(e) \/ Engages(e)
  BY <1>2 DEF Opens, Engages, socketVars
<1>3. CASE Ticks(e)
  BY <1>3 DEF Ticks, Heartbeat
<1>4. CASE Fails(e)
  BY <1>4 DEF Fails, SendFails
<1>5. CASE Moves(e) \/ Servos(e) \/ Halts(e)
  BY <1>5 DEF Moves, Servos, Halts
<1>6. CASE Releases(e)
  BY <1>6 DEF Releases, SendFails
<1>7. CASE HangsUp(e)
  BY <1>7 DEF HangsUp
<1>. QED
  BY <1>1, <1>2, <1>3, <1>4, <1>5, <1>6, <1>7 DEF Control

\* A message that is sent is the last one, and silence is over.
LEMMA ControlHeard ==
    ASSUME SilenceInv, NEW e \in Epochs, Control(e)
    PROVE  LinkTyped' /\ Heard'
<1>. USE DEF SilenceInv
<1>1. /\ UNCHANGED serviceVars
      /\ pc # "execute" /\ batch = <<>>
  BY DEF Control, Connects, Opens, Ticks, Fails, Moves, Engages, Servos, Halts,
         Releases, HangsUp, Heard
<1>2. UNCHANGED <<pc, service, batch, engine>>
  BY <1>1 DEF serviceVars
<1>3. /\ LinkTyped'
      /\ \A f \in Epochs : Spoken(f, up[f])'
      /\ \A f \in Epochs : silence'[f] <= silence[f]
  <2>1. CASE UNCHANGED <<up, silence>>
    BY <1>2, <2>1 DEF LinkTyped, Heard, Spoken
  <2>2. CASE up' = [up EXCEPT ![e] = <<>>] /\ UNCHANGED silence
    BY <1>2, <2>2 DEF LinkTyped, Heard, Spoken
  <2>3. ASSUME NEW operation \in Operations, Sends(e, operation)
        PROVE  /\ LinkTyped'
               /\ \A f \in Epochs : Spoken(f, up[f])'
               /\ \A f \in Epochs : silence'[f] <= silence[f]
    <3>. DEFINE message == [operation |-> operation, age |-> 0]
    <3>1. message \in Message
      BY Ages DEF Message
    <3>2. /\ up' = [up EXCEPT ![e] = Append(@, message)]
          /\ silence' = [silence EXCEPT ![e] = 0]
      BY <2>3 DEF Sends
    <3>. HIDE DEF message
    <3>3. up[e] \in Seq(Message)
      BY DEF LinkTyped
    <3>4. Append(up[e], message) \in Seq(Message)
      BY <3>1, <3>3
    <3>5. LinkTyped'
      BY <1>2, <3>2, <3>4 DEF LinkTyped
    <3>6. Spoken(e, up[e])'
      <4>1. up'[e] \in Seq(Message) /\ silence'[e] = 0
        BY <3>2, <3>4 DEF LinkTyped
      <4>2. \A i \in DOMAIN up'[e] : up'[e][i] \in Message
        BY <4>1
      <4>. QED
        BY <4>1, <4>2, Ages DEF Spoken, Message
    <3>7. ASSUME NEW f \in Epochs, f # e PROVE Spoken(f, up[f])'
      BY <3>2, <3>7 DEF Spoken, Heard, LinkTyped
    <3>. QED
      BY <3>2, <3>5, <3>6, <3>7 DEF LinkTyped
  <2>. QED
    BY <2>1, <2>2, <2>3, ControlSpeaks
<1>4. ASSUME engine.motion # "rest", engine.beat <= Watchdog
      PROVE  silence'[engine.by] <= CommandAge + engine.beat
  <2>1. engine.by \in Epochs
    BY <1>4, MoverIsEpoch
  <2>2. silence[engine.by] <= CommandAge + engine.beat
    BY <1>4 DEF Heard
  <2>3. engine.beat \in Nat
    BY Ages DEF LinkInv, ServiceTyped, Engine
  <2>. QED
    BY <1>3, <2>1, <2>2, <2>3, Ages DEF LinkTyped
<1>. QED
  BY <1>1, <1>2, <1>3, <1>4 DEF Heard

\* The steps of the service that drop what they read and end at rest.
LEMMA ReleaseHeard ==
    ASSUME SilenceInv, NEW e, ReleasesPeer(e), UNCHANGED silence,
           up' \in [Epochs -> Seq(Message)],
           \A f \in Epochs : up'[f] \in {up[f], <<>>}
    PROVE  LinkTyped' /\ Heard'
<1>1. /\ batch' = <<>>
      /\ service'.epoch = None
      /\ engine'.motion = "rest"
  BY DEF SilenceInv, LinkInv, ServiceTyped, Engine, ReleasesPeer, ReleasedEngine,
         Held, NoPeer
<1>2. \A f \in Epochs : Spoken(f, up[f])'
  BY DEF SilenceInv, Heard, Spoken
<1>. QED
  BY <1>1, <1>2 DEF SilenceInv, LinkTyped, Heard

LEMMA ReceivesHeard ==
    ASSUME SilenceInv, NEW e \in Epochs, Receives(e)
    PROVE  LinkTyped' /\ Heard'
<1>1. /\ up' = [up EXCEPT ![e] = <<>>]
      /\ UNCHANGED silence
  BY DEF Receives, ownerVars
<1>2. /\ up' \in [Epochs -> Seq(Message)]
      /\ \A f \in Epochs : up'[f] \in {up[f], <<>>}
  BY <1>1 DEF SilenceInv, LinkTyped
<1>3. CASE ReleasesPeer(e)
  BY <1>1, <1>2, <1>3, ReleaseHeard
<1>4. CASE /\ service' = [service EXCEPT !.peer = e]
           /\ batch' = up[e]
           /\ pc' = "execute"
           /\ UNCHANGED engine
  <2>1. /\ service'.peer = e
        /\ service'.epoch = service.epoch
        /\ service.peer # e => service.peer = None
    BY <1>4 DEF SilenceInv, LinkInv, ServiceTyped, Service, Receives
  <2>2. LinkTyped'
    BY <1>1, <1>2, <1>4 DEF SilenceInv, LinkTyped
  <2>3. \A f \in Epochs : Spoken(f, up[f])'
    BY <1>1, <1>2 DEF SilenceInv, Heard, Spoken
  <2>4. Spoken(service.peer, batch)'
    BY <1>1, <1>4, <2>1 DEF SilenceInv, Heard, Spoken
  <2>. QED
    BY <1>1, <1>4, <2>1, <2>2, <2>3, <2>4 DEF SilenceInv, Heard
<1>. QED
  BY <1>3, <1>4 DEF Receives

\* The rest of a batch is as old as it was.
LEMMA TailSpoken ==
    ASSUME NEW e, NEW s \in Seq(Message), s # <<>>, Spoken(e, s)
    PROVE  Tail(s) \in Seq(Message) /\ Spoken(e, Tail(s))
<1>1. /\ Tail(s) \in Seq(Message)
      /\ Len(s) \in Nat
      /\ Len(Tail(s)) = Len(s) - 1
      /\ \A i \in 1 .. Len(Tail(s)) : Tail(s)[i] = s[i + 1]
  BY HeadTailProperties, LenProperties
<1>2. DOMAIN s = 1 .. Len(s) /\ DOMAIN Tail(s) = 1 .. Len(Tail(s))
  BY <1>1, LenProperties
<1>3. \A i \in DOMAIN Tail(s) : i + 1 \in DOMAIN s /\ Tail(s)[i] = s[i + 1]
  BY <1>1, <1>2
<1>. QED
  BY <1>1, <1>3 DEF Spoken

\* A command that is not ignored is no older than a command may be.
LEMMA HeadSpoken ==
    ASSUME SilenceInv, Executing, ~Ignored(Head(batch))
    PROVE  /\ Head(batch).age \in Nat
           /\ Head(batch).age <= CommandAge
           /\ silence[service.peer] <= Head(batch).age
<1>1. batch # <<>> /\ batch \in Seq(Message)
  BY DEF Executing, SilenceInv, LinkTyped
<1>2. Head(batch) = batch[1] /\ 1 \in DOMAIN batch
  BY <1>1, LenProperties, EmptySeq
<1>3. Head(batch) \in Message
  BY <1>1, <1>2
<1>4. Head(batch).age \in Nat
  BY <1>3, Ages DEF Message
<1>5. Head(batch).age <= CommandAge
  <2>1. Head(batch).age <= ServoAge \/ Head(batch).age <= CommandAge
    BY <1>4, Ages DEF Ignored, TooOld
  <2>. QED
    BY <1>4, <2>1, Ages
<1>. QED
  BY <1>1, <1>2, <1>4, <1>5 DEF SilenceInv, Heard, Spoken

\* The steps through a batch.
LEMMA ExecutionHeard ==
    ASSUME SilenceInv, Executing, pc' = pc,
           batch' \in {Tail(batch), <<>>},
           service'.peer = service.peer,
           service'.epoch \in {service.epoch, service.peer},
           engine'.motion # "rest" /\ engine'.beat <= Watchdog =>
              silence[engine'.by] <= CommandAge + engine'.beat
    PROVE  LinkTyped' /\ Heard'
<1>. USE DEF SilenceInv
<1>1. batch # <<>> /\ UNCHANGED <<up, silence>> /\ pc = "execute"
  BY DEF Executing, ownerVars
<1>2. batch \in Seq(Message) /\ Spoken(service.peer, batch)
  BY <1>1 DEF LinkTyped, Heard
<1>3. Tail(batch) \in Seq(Message) /\ Spoken(service.peer, Tail(batch))
  BY <1>1, <1>2, TailSpoken
<1>4. LinkTyped'
  <2>1. <<>> \in Seq(Message)
    OBVIOUS
  <2>2. batch' \in Seq(Message)
    BY <1>3, <2>1
  <2>. QED
    BY <1>1, <2>2 DEF LinkTyped
<1>5. \A f \in Epochs : Spoken(f, up[f])'
  BY <1>1 DEF Heard, Spoken
<1>6. batch' # <<>> => Spoken(service.peer, batch)'
  BY <1>1, <1>3 DEF Spoken
<1>. QED
  BY <1>1, <1>4, <1>5, <1>6 DEF Heard

LEMMA ExecutesHeard ==
    ASSUME SilenceInv, Executes
    PROVE  LinkTyped' /\ Heard'
<1>. USE DEF SilenceInv
<1>. DEFINE operation == Head(batch).operation
<1>1. /\ Executing /\ ~Ignored(Head(batch))
      /\ service.epoch # None
      /\ engine' = Commanded(engine, operation)
      /\ UNCHANGED <<pc, service>>
      /\ batch' = Tail(batch)
  BY DEF Executes, Executing, Ignored
<1>2. service.epoch = service.peer
  BY <1>1 DEF Heard
<1>3. engine.motion # "rest" => engine.by = service.epoch
  BY MoverIsEpoch
<1>4. /\ engine'.beat = 0
      /\ engine'.motion # "rest" => engine'.by = service.epoch
  <2>1. CASE operation \in {"move", "servo"}
    BY <1>1, <2>1 DEF Commanded, Driven, LinkInv, ServiceTyped, Engine
  <2>2. CASE operation \notin {"move", "servo"}
    BY <1>1, <1>3, <2>2 DEF Commanded, Held, LinkInv, ServiceTyped, Engine
  <2>. QED
    BY <2>1, <2>2
<1>5. silence[service.peer] <= CommandAge
  <2>1. /\ Head(batch).age \in Nat
        /\ Head(batch).age <= CommandAge
        /\ silence[service.peer] <= Head(batch).age
    BY <1>1, HeadSpoken
  <2>2. silence[service.peer] \in Nat
    BY <1>1, <1>2 DEF LinkTyped, LinkInv, ServiceTyped, Service
  <2>. QED
    BY <2>1, <2>2, Ages
<1>6. engine'.motion # "rest" => silence[engine'.by] <= CommandAge + engine'.beat
  BY <1>2, <1>4, <1>5, Ages
<1>. QED
  BY <1>1, <1>6, ExecutionHeard

\* An update starts no motion, and does not count as a command.
LEMMA UpdateKeeps ==
    ASSUME LinkInv, Updates
    PROVE  engine'.motion # "rest" =>
              /\ engine.motion # "rest"
              /\ engine'.beat = engine.beat /\ engine'.by = engine.by
<1>1. PICK r \in Advanced(Watched) : engine' = [Watched EXCEPT !.motion = r[1]]
  BY DEF Updates
<1>2. CASE Watched.motion = "rest"
  <2>1. r = <<"rest", TRUE>>
    BY <1>2 DEF Advanced
  <2>. QED
    BY <1>1, <2>1, WatchedKeeps DEF LinkInv, Engine
<1>3. CASE Watched.motion # "rest"
  <2>1. Watched = engine
    BY <1>3, WatchedKeeps DEF LinkInv
  <2>. QED
    BY <1>1, <1>3, <2>1 DEF LinkInv, ServiceTyped, Engine
<1>. QED
  BY <1>2, <1>3

\* What an update is about to execute is a motion that has not expired.
LEMMA MovesUnexpired ==
    ASSUME LinkInv, NEW e, Moving(e)
    PROVE  engine.motion # "rest" /\ engine.by = e /\ engine.beat \in 0 .. Watchdog
<1>1. Watched = engine
  BY WatchedKeeps DEF Moving, LinkInv
<1>2. Working(Watched) => ~Expired(engine)
  BY <1>1 DEF Watched, Faulted, Held, Working, LinkInv, ServiceTyped, Engine
<1>3. ~Expired(engine) /\ engine.active
  BY <1>1, <1>2 DEF Moving, Working
<1>. QED
  BY <1>1, <1>3, LinkAssumption DEF Moving, Expired, LinkInv, ServiceTyped, Engine

\* An update neither starts a motion nor hears of the owner.
LEMMA UpdatesHeard ==
    ASSUME SilenceInv, Updates
    PROVE  LinkTyped' /\ Heard'
<1>. USE DEF SilenceInv
<1>1. UNCHANGED <<up, silence, batch>> /\ pc = "update" /\ pc' = "publish"
  BY DEF Updates, ownerVars, socketVars
<1>2. service'.peer = service.peer /\ service'.epoch = service.epoch
  BY DEF Updates, LinkInv, ServiceTyped, Service
<1>3. engine'.motion # "rest" =>
         /\ engine.motion # "rest"
         /\ engine'.beat = engine.beat /\ engine'.by = engine.by
  BY UpdateKeeps
<1>4. LinkTyped' /\ \A f \in Epochs : Spoken(f, up[f])'
  BY <1>1 DEF LinkTyped, Heard, Spoken
<1>. QED
  BY <1>1, <1>2, <1>3, <1>4 DEF Heard

\* Steps that change neither the engine nor who owns it.
LEMMA UnheardOf ==
    ASSUME SilenceInv, UNCHANGED <<up, silence, batch, engine>>,
           service'.peer = service.peer, service'.epoch = service.epoch,
           pc' # "execute" => batch = <<>>
    PROVE  LinkTyped' /\ Heard'
BY DEF SilenceInv, LinkTyped, Heard, Spoken

LEMMA NextHeard ==
    ASSUME SilenceInv, [Next]_vars
    PROVE  SilenceInv'
<1>. USE DEF SilenceInv
<1>0. LinkInv'
  BY NextLink
<1>. SUFFICES LinkTyped' /\ Heard'
  BY <1>0
<1>1. CASE TimePasses
  BY <1>1, TimeHeard
<1>2. CASE ReceivesNothing \/ Received
  BY <1>2, UnheardOf DEF ReceivesNothing, Received, ownerVars, socketVars, Heard
<1>3. CASE Ignores
  BY <1>3, ExecutionHeard DEF Ignores, Heard
<1>4. CASE Claims
  <2>1. service.epoch = None /\ engine.motion = "rest"
    BY <1>4 DEF Claims, Ignored, LinkInv, MotionHasOwner
  <2>2. /\ service'.peer = service.peer /\ service'.epoch = service.peer
        /\ engine'.motion = "rest"
    BY <1>4, <2>1 DEF Claims, Claimed, LinkInv, ServiceTyped, Service, Engine
  <2>. QED
    BY <1>4, <2>2, ExecutionHeard DEF Claims
<1>5. CASE Rejects
  <2>1. engine'.motion = "rest"
    BY <1>5, FaultRests DEF Rejects, LinkInv
  <2>. QED
    BY <1>5, <2>1, ExecutionHeard DEF Rejects
<1>6. CASE Executes
  BY <1>6, ExecutesHeard
<1>7. CASE ExecutesRelease
  BY <1>7, ReleaseHeard DEF ExecutesRelease, Executing, ownerVars, LinkTyped
<1>8. CASE Updates
  BY <1>8, UpdatesHeard
<1>9. CASE PublishesNothing \/ \E e \in Epochs : Publishes(e)
  <2>1. service'.peer = service.peer /\ service'.epoch = service.epoch
    BY <1>9 DEF PublishesNothing, Publishes, LinkInv, ServiceTyped, Service
  <2>. QED
    BY <1>9, <2>1, UnheardOf
       DEF PublishesNothing, Publishes, ownerVars, socketVars, Heard
<1>10. CASE Shuts
  <2>1. /\ engine'.motion = "rest" /\ service'.epoch = None
        /\ batch' = <<>> /\ UNCHANGED silence
    BY <1>10 DEF Shuts, ReleasedEngine, Held, NoPeer, ownerVars, Heard, LinkInv,
                 ServiceTyped, Engine
  <2>2. up' = [e \in Epochs |-> <<>>]
    BY <1>10 DEF Shuts
  <2>. QED
    BY <2>1, <2>2 DEF LinkTyped, Heard, Spoken
<1>11. CASE \E e \in Epochs : Receives(e)
  BY <1>11, ReceivesHeard
<1>12. CASE \E e \in Epochs : PublishFails(e)
  BY <1>12, ReleaseHeard DEF PublishFails, ownerVars, LinkTyped
<1>13. CASE \E e \in Epochs : Control(e)
  BY <1>13, ControlHeard
<1>14. CASE UNCHANGED vars
  BY <1>14, UnheardOf DEF vars, ownerVars, socketVars, serviceVars, Heard
<1>. QED
  BY <1>1, <1>2, <1>3, <1>4, <1>5, <1>6, <1>7, <1>8, <1>9, <1>10, <1>11, <1>12,
     <1>13, <1>14 DEF Next, Render, Execution

\* "Commands expire ... producer loss stops execution": no stall of the
\* renderer and no buffer keeps the follower moving for an owner that has been
\* silent for longer than a command lives and the watchdog waits.
THEOREM MotionDoesExpire == Spec => []MotionExpires
<1>1. ASSUME SilenceInv PROVE MotionExpires
  <2>. USE DEF SilenceInv
  <2>. SUFFICES ASSUME NEW e \in Epochs, Moving(e)
                PROVE  silence[e] <= Silence
    BY DEF MotionExpires
  <2>1. engine.motion # "rest" /\ engine.by = e /\ engine.beat \in 0 .. Watchdog
    BY <1>1, MovesUnexpired
  <2>2. engine.beat \in Nat /\ engine.beat <= Watchdog
    BY <2>1, Ages
  <2>3. silence[e] <= CommandAge + engine.beat
    BY <1>1, <2>1, <2>2 DEF Heard
  <2>. QED
    BY <1>1, <2>2, <2>3, Ages DEF LinkTyped
<1>. QED
  BY <1>1, InitHeard, NextHeard, PTL DEF Spec

-----------------------------------------------------------------------------
(* Types, of the transports and the sockets as well.                       *)

OwnerTyped ==
    /\ owner \in [Epochs -> Owner]
    /\ revoked \in [Epochs -> 0 .. (Unheard + 1) \cup {None}]
    /\ \A e \in Epochs : owner[e].state \in Live => owner[e].seen # None
    /\ \A e \in Epochs :
          owner[e].state \in {"stopping", "fault"} <=> revoked[e] # None

SocketTyped ==
    /\ down \in [Epochs -> Sample \cup {None}]
    /\ hung \in [Epochs -> BOOLEAN] /\ cut \in [Epochs -> BOOLEAN]
    /\ backlog \in Seq(Epochs)
    /\ pc \in {"receive", "execute", "update", "publish", "closed"}
    /\ silence \in [Epochs -> 0 .. (Silence + 1)]

\* An age is a number, and None is not.
LEMMA Limits == /\ Unheard \in Nat /\ Unheard = StopTimeout + Silence
                /\ StopTimeout \in Nat /\ Silence \in Nat /\ Fresh \in Nat
                /\ None \notin Nat /\ None \notin Sample
BY LinkAssumption, NoneAssumption, Ages DEF Unheard

LEMMA InitTyped == Init => OwnerTyped /\ SocketTyped
<1>1. ASSUME Init PROVE OwnerTyped
  <2>1. NewOwner \in Owner /\ NewOwner.state = "idle"
    BY DEF NewOwner, Owner
  <2>. QED
    BY <1>1, <2>1 DEF Init, OwnerTyped, Live
<1>2. ASSUME Init PROVE SocketTyped
  <2>1. 0 \in 0 .. (Silence + 1) /\ <<>> \in Seq(Epochs)
    BY Limits
  <2>. QED
    BY <1>2, <2>1 DEF Init, SocketTyped
<1>. QED
  BY <1>1, <1>2


\* Time ages what was seen; nobody's state changes.
LEMMA TimeTyped ==
    ASSUME OwnerTyped, SocketTyped, TimePasses
    PROVE  OwnerTyped' /\ SocketTyped'
<1>1. ASSUME NEW e \in Epochs
      PROVE  /\ owner'[e] \in Owner
             /\ owner'[e].state = owner[e].state
             /\ owner[e].seen # None => owner'[e].seen # None
  <2>1. owner[e] \in Owner
    BY DEF OwnerTyped
  <2>2. SampleAged(owner[e].seen) \in Sample \cup {None}
    BY <2>1, SampleAgedTyped DEF Owner
  <2>3. owner'[e] = [owner[e] EXCEPT !.beaten = FALSE, !.seen = SampleAged(@)]
    BY DEF TimePasses
  <2>4. owner[e].seen # None => SampleAged(owner[e].seen) # None
    <3>. SUFFICES ASSUME owner[e].seen # None
                  PROVE  SampleAged(owner[e].seen) \in Sample
      BY Limits
    <3>1. owner[e].seen \in Sample
      BY <2>1 DEF Owner
    <3>2. Older(owner[e].seen.age, Fresh + 1) \in 0 .. (Fresh + 1)
      BY <3>1, Limits, OlderBounded DEF Sample
    <3>. QED
      BY <3>1, <3>2 DEF SampleAged, Sample
  <2>. QED
    BY <2>1, <2>2, <2>3, <2>4 DEF Owner
<1>2. ASSUME NEW e \in Epochs
      PROVE  /\ revoked'[e] \in 0 .. (Unheard + 1) \cup {None}
             /\ revoked'[e] = None <=> revoked[e] = None
  <2>1. revoked'[e] = IF revoked[e] = None THEN None
                      ELSE Older(revoked[e], Unheard + 1)
    BY DEF TimePasses
  <2>2. CASE revoked[e] = None
    BY <2>1, <2>2
  <2>3. CASE revoked[e] # None
    <3>1. revoked[e] \in 0 .. (Unheard + 1)
      BY <2>3 DEF OwnerTyped
    <3>2. Older(revoked[e], Unheard + 1) \in 0 .. (Unheard + 1)
      BY <3>1, Limits, OlderBounded
    <3>. QED
      BY <2>1, <2>3, <3>2, Limits
  <2>. QED
    BY <2>2, <2>3
<1>3. OwnerTyped'
  <2>1. /\ owner' \in [Epochs -> Owner]
        /\ revoked' \in [Epochs -> 0 .. (Unheard + 1) \cup {None}]
    BY <1>1, <1>2 DEF TimePasses
  <2>. QED
    BY <1>1, <1>2, <2>1 DEF OwnerTyped
<1>4. SocketTyped'
  <2>1. down' \in [Epochs -> Sample \cup {None}]
    BY SampleAgedTyped DEF TimePasses, SocketTyped
  <2>2. \A e \in Epochs : silence'[e] \in 0 .. (Silence + 1)
    <3>. TAKE e \in Epochs
    <3>1. silence[e] \in 0 .. (Silence + 1)
      BY DEF SocketTyped
    <3>2. Older(silence[e], Silence + 1) \in 0 .. (Silence + 1)
      BY <3>1, Limits, OlderBounded
    <3>3. silence'[e] \in {0, Older(silence[e], Silence + 1)}
      BY DEF TimePasses
    <3>. QED
      BY <3>2, <3>3, Limits
  <2>3. silence' \in [Epochs -> 0 .. (Silence + 1)]
    BY <2>2 DEF TimePasses
  <2>. QED
    BY <2>1, <2>3 DEF TimePasses, SocketTyped
<1>. QED
  BY <1>3, <1>4

\* What became of an owner, and of the age of its stop.
LEMMA OwnerBecomes ==
    ASSUME OwnerTyped, NEW e \in Epochs, NEW next \in Owner,
           NEW age \in 0 .. (Unheard + 1) \cup {None},
           owner' = [owner EXCEPT ![e] = next],
           revoked' = [revoked EXCEPT ![e] = age],
           next.state \in Live => next.seen # None,
           next.state \in {"stopping", "fault"} <=> age # None
    PROVE  OwnerTyped'
BY DEF OwnerTyped

\* A message that is sent, or not, leaves the socket what it is.
LEMMA SocketSends ==
    ASSUME SocketTyped, NEW e \in Epochs,
           \/ \E operation \in Operations : Sends(e, operation)
           \/ SendFails(e)
           \/ UNCHANGED <<up, hung, silence>>,
           down' \in {down, [down EXCEPT ![e] = None]},
           backlog' \in {backlog, Append(backlog, e)},
           UNCHANGED <<cut, pc>>
    PROVE  SocketTyped'
<1>1. /\ silence' \in {silence, [silence EXCEPT ![e] = 0]}
      /\ \/ hung' = hung
         \/ \E shut \in {hung[e], TRUE} : hung' = [hung EXCEPT ![e] = shut]
  BY DEF Sends, SendFails
<1>2. silence' \in [Epochs -> 0 .. (Silence + 1)]
  BY <1>1, Limits DEF SocketTyped
<1>3. hung' \in [Epochs -> BOOLEAN]
  BY <1>1 DEF SocketTyped
<1>4. down' \in [Epochs -> Sample \cup {None}]
  BY DEF SocketTyped
<1>5. backlog' \in Seq(Epochs)
  <2>1. backlog \in Seq(Epochs)
    BY DEF SocketTyped
  <2>2. Append(backlog, e) \in Seq(Epochs)
    BY <2>1
  <2>. QED
    BY <2>1, <2>2
<1>. QED
  BY <1>2, <1>3, <1>4, <1>5 DEF SocketTyped

\* A tick: the state after it, and the age of a stop that is still going on.
LEMMA TicksTyped ==
    ASSUME OwnerTyped, SocketTyped, NEW e \in Epochs, Ticks(e)
    PROVE  OwnerTyped' /\ SocketTyped'
<1>1. PICK state \in Settled(e) :
         owner' = [owner EXCEPT ![e] =
             [state |-> state, seen |-> Seen(e), beaten |-> TRUE]]
  BY DEF Ticks
<1>. DEFINE next == [state |-> state, seen |-> Seen(e), beaten |-> TRUE]
            age == IF state = "stopping" THEN revoked[e] ELSE None
<1>2. /\ owner[e].state \in Live /\ owner[e].seen # None
      /\ owner[e].seen \in Sample \cup {None}
  BY DEF Ticks, OwnerTyped, Owner
<1>3. Seen(e) \in Sample
  BY <1>2 DEF Seen, SocketTyped
<1>4. /\ state \in Live
      /\ state = "stopping" => owner[e].state = "stopping"
  BY <1>2 DEF Settled, Live
<1>5. next \in Owner
  BY <1>3, <1>4 DEF Owner
<1>6. owner'[e].state = state
  BY <1>1 DEF OwnerTyped
<1>7. revoked' = [revoked EXCEPT ![e] = age]
  BY <1>6 DEF Ticks
<1>8. /\ age \in 0 .. (Unheard + 1) \cup {None}
      /\ state \in {"stopping", "fault"} <=> age # None
  BY <1>4 DEF OwnerTyped, Live
<1>9. OwnerTyped'
  BY <1>1, <1>3, <1>5, <1>7, <1>8, Limits, OwnerBecomes
<1>10. SocketTyped'
  <2>1. \/ \E operation \in Operations : Sends(e, operation)
        \/ UNCHANGED <<up, hung, silence>>
    BY DEF Ticks, Heartbeat, Operations
  <2>. QED
    BY <2>1, SocketSends DEF Ticks, serviceVars
<1>. QED
  BY <1>9, <1>10

\* A failure, from every state in which the robot may be moving.
LEMMA FailsTyped ==
    ASSUME OwnerTyped, SocketTyped, NEW e \in Epochs, Fails(e)
    PROVE  OwnerTyped' /\ SocketTyped'
<1>. DEFINE next == [NewOwner EXCEPT !.state = "fault"]
            age == IF owner[e].state = "stopping" THEN revoked[e] ELSE 0
<1>1. next \in Owner /\ next.state = "fault"
  BY DEF NewOwner, Owner
<1>2. /\ owner' = [owner EXCEPT ![e] = next]
      /\ revoked' = [revoked EXCEPT ![e] = age]
  BY DEF Fails, Ends, Revokes
<1>3. age \in 0 .. (Unheard + 1) /\ age # None
  BY Limits DEF OwnerTyped
<1>4. OwnerTyped'
  BY <1>1, <1>2, <1>3, OwnerBecomes DEF Live
<1>5. SocketTyped'
  BY SocketSends DEF Fails, Operations, serviceVars
<1>. QED
  BY <1>4, <1>5

\* The commands of a controller, each of which changes the state at most.
LEMMA CommandsTyped ==
    ASSUME OwnerTyped, SocketTyped, NEW e \in Epochs,
           Moves(e) \/ Engages(e) \/ Servos(e) \/ Halts(e)
    PROVE  OwnerTyped' /\ SocketTyped'
<1>1. owner[e] \in Owner
  BY DEF OwnerTyped
<1>2. ASSUME NEW state \in Live, owner[e].state \in Live, Becomes(e, state),
             revoked' = [revoked EXCEPT ![e] =
                IF state = "stopping" THEN 0 ELSE None]
      PROVE  OwnerTyped'
  <2>. DEFINE next == [owner[e] EXCEPT !.state = state]
              age == IF state = "stopping" THEN 0 ELSE None
  <2>1. owner' = [owner EXCEPT ![e] = next]
    BY <1>2 DEF Becomes
  <2>2. next \in Owner /\ next.state = state /\ next.seen # None
    BY <1>1, <1>2 DEF Owner, OwnerTyped
  <2>3. /\ age \in 0 .. (Unheard + 1) \cup {None}
        /\ state \in {"stopping", "fault"} <=> age # None
    BY Limits DEF Live
  <2>. HIDE DEF next, age
  <2>4. revoked' = [revoked EXCEPT ![e] = age]
    BY <1>2 DEF age
  <2>. QED
    BY <2>1, <2>2, <2>3, <2>4, OwnerBecomes
<1>3. ASSUME owner[e].state \in {"hold", "moving", "following"}
      PROVE  revoked[e] = None /\ [revoked EXCEPT ![e] = None] = revoked
  BY <1>3 DEF OwnerTyped
<1>4. CASE Moves(e)
  BY <1>2, <1>3, <1>4, SocketSends DEF Moves, AtRest, Operations, serviceVars, Live
<1>5. CASE Engages(e)
  BY <1>2, <1>3, <1>5 DEF Engages, AtRest, socketVars, serviceVars, Live, SocketTyped
<1>6. CASE Servos(e)
  BY <1>6, SocketSends DEF Servos, Operations, serviceVars, OwnerTyped
<1>7. CASE Halts(e)
  BY <1>2, <1>7, SocketSends DEF Halts, Operations, serviceVars, Live
<1>. QED
  BY <1>4, <1>5, <1>6, <1>7

\* The beginning and the end of a transport.
LEMMA TransportTyped ==
    ASSUME OwnerTyped, SocketTyped, NEW e \in Epochs,
           Connects(e) \/ Opens(e) \/ Releases(e) \/ HangsUp(e)
    PROVE  OwnerTyped' /\ SocketTyped'
<1>1. owner[e] \in Owner
  BY DEF OwnerTyped
<1>2. ASSUME NEW next \in Owner,
             next.state \in {"opening", "hold", "releasing", "gone"},
             next.state = "hold" => next.seen # None,
             owner' = [owner EXCEPT ![e] = next],
             revoked' = [revoked EXCEPT ![e] = None]
      PROVE  OwnerTyped'
  BY <1>2, OwnerBecomes DEF Live
<1>3. owner[e].state \in {"idle", "opening"} => [revoked EXCEPT ![e] = None] = revoked
  BY DEF OwnerTyped
<1>4. \A state \in {"releasing", "gone"} :
         /\ [NewOwner EXCEPT !.state = state] \in Owner
         /\ [NewOwner EXCEPT !.state = state].state = state
  BY DEF NewOwner, Owner
<1>5. CASE Connects(e)
  <2>. DEFINE next == [owner[e] EXCEPT !.state = "opening"]
  <2>1. next \in Owner /\ next.state = "opening"
    BY <1>1 DEF Owner
  <2>2. owner' = [owner EXCEPT ![e] = next]
    BY <1>5 DEF Connects, Becomes
  <2>3. revoked' = [revoked EXCEPT ![e] = None]
    BY <1>3, <1>5 DEF Connects
  <2>. QED
    BY <1>2, <1>5, <2>1, <2>2, <2>3, SocketSends
       DEF Connects, Operations, serviceVars
<1>6. CASE Opens(e)
  <2>. DEFINE next == [owner[e] EXCEPT !.state = "hold", !.seen = down[e]]
  <2>1. next \in Owner /\ next.state = "hold" /\ next.seen # None
    <3>1. down[e] # None /\ down[e] \in Sample \cup {None}
      BY <1>6 DEF Opens, SocketTyped
    <3>. QED
      BY <1>1, <3>1 DEF Owner, Live
  <2>2. owner' = [owner EXCEPT ![e] = next]
    BY <1>6 DEF Opens, OwnerTyped
  <2>3. revoked' = [revoked EXCEPT ![e] = None]
    BY <1>3, <1>6 DEF Opens
  <2>. QED
    BY <1>2, <1>6, <2>1, <2>2, <2>3, SocketSends DEF Opens, serviceVars
<1>7. CASE Releases(e)
  BY <1>2, <1>4, <1>7, SocketSends DEF Releases, Ends, Operations, serviceVars
<1>8. CASE HangsUp(e)
  <2>1. SocketTyped'
    BY <1>8 DEF HangsUp, serviceVars, SocketTyped
  <2>. QED
    BY <1>2, <1>4, <1>8, <2>1 DEF HangsUp, Ends
<1>. QED
  BY <1>5, <1>6, <1>7, <1>8

\* The service hands over only what its last update applied.
LEMMA RenderTyped ==
    ASSUME LinkInv, OwnerTyped, SocketTyped, Render
    PROVE  OwnerTyped' /\ SocketTyped'
<1>1. UNCHANGED <<owner, silence, revoked>>
  BY DEF Render, ReceivesNothing, Execution, Ignores, Claims, Rejects, Executes,
         ExecutesRelease, Executing, Received, Updates, PublishesNothing, Shuts,
         Receives, Publishes, PublishFails, ownerVars
<1>2. OwnerTyped'
  BY <1>1 DEF OwnerTyped
<1>3. SocketTyped'
  <2>. USE DEF SocketTyped
  <2>1. CASE ReceivesNothing \/ Updates \/ PublishesNothing \/ Received
    BY <1>1, <2>1 DEF ReceivesNothing, Updates, PublishesNothing, Received, socketVars
  <2>2. CASE Ignores \/ Claims \/ Rejects \/ Executes
    BY <1>1, <2>2 DEF Ignores, Claims, Rejects, Executes, Executing
  <2>3. CASE ExecutesRelease
    BY <1>1, <2>3 DEF ExecutesRelease, Executing, ReleasesPeer
  <2>4. CASE Shuts
    BY <1>1, <2>4, EmptySeq DEF Shuts
  <2>5. ASSUME NEW e \in Epochs, Receives(e) PROVE SocketTyped'
    <3>1. backlog' \in Seq(Epochs)
      <4>1. CASE service.peer = None
        BY <2>5, <4>1, HeadTailProperties DEF Receives
      <4>2. CASE service.peer # None
        BY <2>5, <4>2 DEF Receives
      <4>. QED
        BY <4>1, <4>2
    <3>2. pc' \in {"update", "execute"} /\ cut' \in {cut, [cut EXCEPT ![e] = TRUE]}
      BY <2>5 DEF Receives, ReleasesPeer
    <3>. QED
      BY <1>1, <2>5, <3>1, <3>2 DEF Receives
  <2>6. ASSUME NEW e \in Epochs, Publishes(e) PROVE SocketTyped'
    <3>1. service.applied \in Sample \cup {None}
      BY DEF LinkInv, ServiceTyped, Service
    <3>. QED
      BY <1>1, <2>6, <3>1 DEF Publishes
  <2>7. ASSUME NEW e \in Epochs, PublishFails(e) PROVE SocketTyped'
    BY <1>1, <2>7 DEF PublishFails, ReleasesPeer
  <2>. QED
    BY <2>1, <2>2, <2>3, <2>4, <2>5, <2>6, <2>7 DEF Render, Execution
<1>. QED
  BY <1>2, <1>3

LEMMA NextTyped ==
    ASSUME LinkInv, OwnerTyped, SocketTyped, [Next]_vars
    PROVE  OwnerTyped' /\ SocketTyped'
<1>1. CASE TimePasses
  BY <1>1, TimeTyped
<1>2. CASE Render
  BY <1>2, RenderTyped
<1>3. CASE \E e \in Epochs : Control(e)
  BY <1>3, TransportTyped, TicksTyped, FailsTyped, CommandsTyped DEF Control
<1>4. CASE UNCHANGED vars
  BY <1>4 DEF vars, ownerVars, socketVars, serviceVars, OwnerTyped, SocketTyped
<1>. QED
  BY <1>1, <1>2, <1>3, <1>4 DEF Next

\* Every variable of the link has its type, and only an owner whose motion was
\* revoked has the age of a stop.
THEOREM TypeCorrect == Spec => []TypeOK
<1>. DEFINE Inv == SilenceInv /\ OwnerTyped /\ SocketTyped
<1>1. Init => Inv
  BY InitHeard, InitTyped
<1>2. Inv /\ [Next]_vars => Inv'
  BY NextHeard, NextTyped DEF SilenceInv
<1>3. Inv => TypeOK
  BY DEF SilenceInv, LinkInv, LinkTyped, ServiceTyped, OwnerTyped, SocketTyped,
         TypeOK
<1>. QED
  BY <1>1, <1>2, <1>3, PTL DEF Spec

-----------------------------------------------------------------------------
(* StopBounded.  The same chain, from the revocation of a motion on: what   *)
(* was sent before it is older, and what may still come after it, short of  *)
(* a stop, are the heartbeats of ticks within the deadline of that stop.    *)

Overtaken(e, s) ==
    revoked[e] # None =>
        \A i \in DOMAIN s :
            s[i].age <= CommandAge /\ s[i].operation # "stop" =>
                revoked[e] <= s[i].age + StopTimeout

Revocation ==
    /\ \A e \in Epochs : Overtaken(e, up[e])
    /\ batch # <<>> => Overtaken(service.peer, batch)
    /\ engine.motion # "rest" /\ engine.beat <= Watchdog =>
          (revoked[engine.by] # None =>
              revoked[engine.by] <= StopTimeout + CommandAge + engine.beat)

StopInv == SilenceInv /\ OwnerTyped /\ SocketTyped /\ Revocation

LEMMA InitRevocation == Init => Revocation
BY DEF Init, Revocation, Overtaken

LEMMA TimeRevocation ==
    ASSUME StopInv, TimePasses
    PROVE  Revocation'
<1>. USE DEF StopInv, SilenceInv
<1>1. batch = <<>> /\ batch' = <<>>
  BY DEF TimePasses, Heard
<1>2. \A e \in Epochs : revoked'[e] # None =>
         /\ revoked[e] # None
         /\ revoked[e] \in Nat /\ revoked'[e] \in Nat
         /\ revoked'[e] <= revoked[e] + 1
  <2>. TAKE e \in Epochs
  <2>1. revoked'[e] = IF revoked[e] = None THEN None
                      ELSE Older(revoked[e], Unheard + 1)
    BY DEF TimePasses
  <2>2. revoked[e] # None => revoked[e] \in Nat
    BY Limits DEF OwnerTyped
  <2>. QED
    BY <2>1, <2>2, Limits DEF Older
<1>3. ASSUME NEW e \in Epochs PROVE Overtaken(e, up[e])'
  <2>. SUFFICES ASSUME revoked'[e] # None,
                       NEW i \in DOMAIN up'[e],
                       up'[e][i].age <= CommandAge,
                       up'[e][i].operation # "stop"
                PROVE  revoked'[e] <= up'[e][i].age + StopTimeout
    BY DEF Overtaken
  <2>1. up[e] \in Seq(Message) /\ up'[e] = MessagesAged(up[e])
    BY DEF TimePasses, LinkTyped
  <2>2. /\ i \in DOMAIN up[e]
        /\ up'[e][i].age = up[e][i].age + 1
    BY <2>1, MessagesAgedTyped
  <2>3. up[e][i] \in Message
    BY <2>1, <2>2
  <2>4. up'[e][i] = [up[e][i] EXCEPT !.age = Older(@, CommandAge + 1)]
    BY <2>1, <2>2 DEF MessagesAged
  <2>5. up'[e][i].operation = up[e][i].operation /\ up[e][i].age \in Nat
    BY <2>3, <2>4, Ages DEF Message
  <2>6. revoked[e] <= up[e][i].age + StopTimeout
    BY <1>2, <2>2, <2>5, Ages DEF Revocation, Overtaken
  <2>. QED
    BY <1>2, <2>2, <2>5, <2>6, Limits
<1>4. ASSUME engine'.motion # "rest", engine'.beat <= Watchdog,
             revoked'[engine'.by] # None
      PROVE  revoked'[engine'.by] <= StopTimeout + CommandAge + engine'.beat
  <2>1. /\ engine.motion # "rest"
        /\ engine'.by = engine.by
        /\ engine'.beat = Older(engine.beat, Watchdog + 1)
    BY <1>4 DEF TimePasses, LinkInv, ServiceTyped, Engine
  <2>2. engine.by \in Epochs
    BY <2>1, MoverIsEpoch
  <2>3. engine.beat \in Nat
    BY Ages DEF LinkInv, ServiceTyped, Engine
  <2>4. engine'.beat = engine.beat + 1 /\ engine.beat <= Watchdog
    BY <1>4, <2>1, <2>3, Ages DEF Older
  <2>5. revoked[engine.by] <= StopTimeout + CommandAge + engine.beat
    BY <1>2, <1>4, <2>1, <2>2, <2>4 DEF Revocation
  <2>. QED
    BY <1>2, <1>4, <2>1, <2>2, <2>3, <2>4, <2>5, Ages, Limits
<1>. QED
  BY <1>1, <1>3, <1>4 DEF Revocation

\* What a transport's step sends, and what it makes of the age of its stop:
\* a stop begins, or ends, or goes on; while it goes on only stops are sent,
\* and heartbeats within its deadline.
LEMMA ControlRevokes ==
    ASSUME StopInv, NEW e \in Epochs, Control(e)
    PROVE  /\ \E age \in {0, None, revoked[e]} :
                 revoked' = [revoked EXCEPT ![e] = age]
           /\ \/ UNCHANGED up
              \/ up' = [up EXCEPT ![e] = <<>>]
              \/ \E operation \in Operations :
                    /\ Sends(e, operation)
                    /\ revoked'[e] \in Nat /\ operation # "stop" =>
                          revoked'[e] <= StopTimeout
<1>. USE DEF StopInv, Operations
<1>1. revoked \in [Epochs -> 0 .. (Unheard + 1) \cup {None}]
  BY DEF OwnerTyped
<1>2. UNCHANGED revoked => revoked' = [revoked EXCEPT ![e] = revoked[e]]
  BY <1>1
<1>3. owner[e].state \notin {"stopping", "fault"} => revoked[e] = None
  BY DEF OwnerTyped
<1>4. CASE Connects(e) \/ Moves(e) \/ Servos(e)
  BY <1>2, <1>3, <1>4, Limits DEF Connects, Moves, AtRest, Servos
<1>5. CASE Opens(e) \/ Engages(e)
  BY <1>2, <1>5 DEF Opens, Engages, socketVars
<1>6. CASE Ticks(e)
  <2>1. \E age \in {None, revoked[e]} :
            /\ revoked' = [revoked EXCEPT ![e] = age]
            /\ age # None => owner'[e].state = "stopping"
    BY <1>6 DEF Ticks
  <2>2. owner'[e].state = "stopping" => owner[e].state = "stopping"
    <3>1. PICK state \in Settled(e) :
              owner' = [owner EXCEPT ![e] =
                  [state |-> state, seen |-> Seen(e), beaten |-> TRUE]]
      BY <1>6 DEF Ticks
    <3>2. owner'[e].state = state
      BY <3>1 DEF OwnerTyped
    <3>. QED
      BY <3>1, <3>2 DEF Settled
  <2>3. revoked'[e] \in Nat => revoked'[e] <= StopTimeout
    BY <1>1, <1>6, <2>1, <2>2, Limits DEF Ticks, Healthy
  <2>4. \/ UNCHANGED up
        \/ Sends(e, "heartbeat")
    BY <1>6 DEF Ticks, Heartbeat
  <2>. QED
    BY <2>1, <2>3, <2>4
<1>7. CASE Fails(e)
  BY <1>7 DEF Fails, Revokes, SendFails
<1>8. CASE Halts(e)
  BY <1>8 DEF Halts
<1>9. CASE Releases(e)
  <2>1. revoked'[e] = None
    BY <1>1, <1>9 DEF Releases
  <2>. QED
    BY <1>9, <2>1, Limits DEF Releases, SendFails
<1>10. CASE HangsUp(e)
  BY <1>10 DEF HangsUp
<1>. QED
  BY <1>4, <1>5, <1>6, <1>7, <1>8, <1>9, <1>10 DEF Control

LEMMA ControlRevocation ==
    ASSUME StopInv, NEW e \in Epochs, Control(e)
    PROVE  Revocation'
<1>. USE DEF StopInv, SilenceInv
<1>1. /\ UNCHANGED serviceVars
      /\ pc # "execute" /\ batch = <<>>
  BY DEF Control, Connects, Opens, Ticks, Fails, Moves, Engages, Servos, Halts,
         Releases, HangsUp, Heard
<1>2. UNCHANGED <<pc, service, batch, engine>>
  BY <1>1 DEF serviceVars
<1>3. PICK age \in {0, None, revoked[e]} : revoked' = [revoked EXCEPT ![e] = age]
  BY ControlRevokes
<1>4. \A f \in Epochs : revoked'[f] # None =>
         revoked'[f] \in Nat /\ (revoked'[f] = revoked[f] \/ revoked'[f] = 0)
  BY <1>3, Limits DEF OwnerTyped
<1>5. \A f \in Epochs \ {e} : revoked'[f] = revoked[f]
  BY <1>3 DEF OwnerTyped
<1>6. ASSUME NEW f \in Epochs, up'[f] = up[f] PROVE Overtaken(f, up[f])'
  <2>. SUFFICES ASSUME revoked'[f] = 0, NEW i \in DOMAIN up[f],
                       up[f][i].age <= CommandAge
                PROVE  revoked'[f] <= up[f][i].age + StopTimeout
    BY <1>4, <1>6 DEF Overtaken, Revocation
  <2>1. up[f][i] \in Message
    BY DEF LinkTyped
  <2>. QED
    BY <2>1, Ages, Limits DEF Message
<1>7. ASSUME NEW f \in Epochs PROVE Overtaken(f, up[f])'
  <2>1. CASE UNCHANGED up
    BY <1>6, <2>1
  <2>2. CASE up' = [up EXCEPT ![e] = <<>>]
    <3>1. CASE f = e
      BY <2>2, <3>1 DEF Overtaken, LinkTyped
    <3>2. CASE f # e
      BY <1>6, <2>2, <3>2 DEF LinkTyped
    <3>. QED
      BY <3>1, <3>2
  <2>3. ASSUME NEW operation \in Operations, Sends(e, operation),
               revoked'[e] \in Nat /\ operation # "stop" =>
                  revoked'[e] <= StopTimeout
        PROVE  Overtaken(f, up[f])'
    <3>. DEFINE message == [operation |-> operation, age |-> 0]
    <3>1. up' = [up EXCEPT ![e] = Append(@, message)]
      BY <2>3 DEF Sends
    <3>2. up[e] \in Seq(Message)
      BY DEF LinkTyped
    <3>3. CASE f # e
      BY <1>6, <3>1, <3>3 DEF LinkTyped
    <3>4. CASE f = e
      <4>. SUFFICES ASSUME revoked'[e] # None, NEW i \in DOMAIN up'[e],
                           up'[e][i].age <= CommandAge,
                           up'[e][i].operation # "stop"
                    PROVE  revoked'[e] <= up'[e][i].age + StopTimeout
        BY <3>4 DEF Overtaken
      <4>1. up'[e] = Append(up[e], message)
        BY <3>1 DEF LinkTyped
      <4>2. CASE i \in DOMAIN up[e]
        <5>1. up'[e][i] = up[e][i] /\ up[e][i] \in Message
          BY <3>2, <4>1, <4>2
        <5>2. CASE revoked'[e] = 0
          BY <5>1, <5>2, Ages, Limits DEF Message
        <5>3. CASE revoked'[e] = revoked[e]
          BY <4>2, <5>1, <5>3 DEF Revocation, Overtaken
        <5>. QED
          BY <1>4, <5>2, <5>3
      <4>3. CASE i \notin DOMAIN up[e]
        <5>1. up'[e][i] = message
          BY <3>2, <4>1, <4>3
        <5>. QED
          BY <1>4, <2>3, <5>1, Limits
      <4>. QED
        BY <4>2, <4>3
    <3>. QED
      BY <3>3, <3>4
  <2>. QED
    BY <2>1, <2>2, <2>3, ControlRevokes
<1>8. ASSUME engine.motion # "rest", engine.beat <= Watchdog,
             revoked'[engine.by] # None
      PROVE  revoked'[engine.by] <= StopTimeout + CommandAge + engine.beat
  <2>1. engine.by \in Epochs
    BY <1>8, MoverIsEpoch
  <2>2. engine.beat \in Nat
    BY Ages DEF LinkInv, ServiceTyped, Engine
  <2>3. CASE revoked'[engine.by] = 0
    BY <2>2, <2>3, Ages, Limits
  <2>4. CASE revoked'[engine.by] = revoked[engine.by]
    BY <1>8, <2>4 DEF Revocation
  <2>. QED
    BY <1>4, <1>8, <2>1, <2>3, <2>4
<1>. QED
  BY <1>1, <1>2, <1>7, <1>8 DEF Revocation

\* The steps of the service that drop what they read and end at rest.
LEMMA ReleaseRevocation ==
    ASSUME StopInv, NEW e, ReleasesPeer(e), UNCHANGED revoked,
           up' \in [Epochs -> Seq(Message)],
           \A f \in Epochs : up'[f] \in {up[f], <<>>}
    PROVE  Revocation'
<1>1. batch' = <<>> /\ engine'.motion = "rest"
  BY DEF StopInv, SilenceInv, LinkInv, ServiceTyped, Engine, ReleasesPeer,
         ReleasedEngine, Held
<1>2. \A f \in Epochs : Overtaken(f, up[f])'
  BY DEF StopInv, Revocation, Overtaken
<1>. QED
  BY <1>1, <1>2 DEF Revocation

LEMMA ReceivesRevocation ==
    ASSUME StopInv, NEW e \in Epochs, Receives(e)
    PROVE  Revocation'
<1>. USE DEF StopInv, SilenceInv
<1>1. /\ up' = [up EXCEPT ![e] = <<>>]
      /\ UNCHANGED revoked
  BY DEF Receives, ownerVars
<1>2. /\ up' \in [Epochs -> Seq(Message)]
      /\ \A f \in Epochs : up'[f] \in {up[f], <<>>}
  BY <1>1 DEF LinkTyped
<1>3. CASE ReleasesPeer(e)
  BY <1>1, <1>2, <1>3, ReleaseRevocation
<1>4. CASE /\ service' = [service EXCEPT !.peer = e]
           /\ batch' = up[e]
           /\ pc' = "execute"
           /\ UNCHANGED engine
  <2>1. service'.peer = e
    BY <1>4 DEF LinkInv, ServiceTyped, Service
  <2>2. \A f \in Epochs : Overtaken(f, up[f])'
    BY <1>1, <1>2 DEF Revocation, Overtaken
  <2>3. Overtaken(service.peer, batch)'
    BY <1>1, <1>4, <2>1 DEF Revocation, Overtaken
  <2>. QED
    BY <1>1, <1>4, <2>2, <2>3 DEF Revocation
<1>. QED
  BY <1>3, <1>4 DEF Receives

\* The steps through a batch: what is left of it was overtaken by the same age.
LEMMA ExecutionRevocation ==
    ASSUME StopInv, Executing,
           batch' \in {Tail(batch), <<>>},
           service'.peer = service.peer,
           engine'.motion # "rest" /\ engine'.beat <= Watchdog =>
              (revoked[engine'.by] # None =>
                  revoked[engine'.by] <= StopTimeout + CommandAge + engine'.beat)
    PROVE  Revocation'
<1>. USE DEF StopInv, SilenceInv
<1>1. batch # <<>> /\ UNCHANGED <<up, revoked>>
  BY DEF Executing, ownerVars
<1>2. batch \in Seq(Message) /\ Overtaken(service.peer, batch)
  BY <1>1 DEF LinkTyped, Revocation
<1>3. \A i \in DOMAIN Tail(batch) :
         i + 1 \in DOMAIN batch /\ Tail(batch)[i] = batch[i + 1]
  BY <1>1, <1>2
<1>4. batch' # <<>> => Overtaken(service.peer, batch)'
  BY <1>1, <1>2, <1>3 DEF Overtaken
<1>5. \A f \in Epochs : Overtaken(f, up[f])'
  BY <1>1 DEF Revocation, Overtaken
<1>. QED
  BY <1>1, <1>4, <1>5 DEF Revocation

\* A stop ends the motion; what else resets the watchdog was sent in time.
LEMMA ExecutesRevocation ==
    ASSUME StopInv, Executes
    PROVE  Revocation'
<1>. USE DEF StopInv, SilenceInv
<1>. DEFINE message == Head(batch)
            operation == message.operation
<1>1. /\ Executing /\ ~Ignored(message)
      /\ service.epoch # None
      /\ engine' = Commanded(engine, operation)
      /\ UNCHANGED service
      /\ batch' = Tail(batch)
  BY DEF Executes, Executing, Ignored
<1>2. service.epoch = service.peer /\ service.peer \in Epochs
  BY <1>1 DEF Heard, LinkInv, ServiceTyped, Service
<1>3. engine.motion # "rest" => engine.by = service.epoch
  BY MoverIsEpoch
<1>4. /\ engine'.beat = 0
      /\ engine'.motion # "rest" =>
            engine'.by = service.epoch /\ operation # "stop"
  <2>1. CASE operation \in {"move", "servo"}
    BY <1>1, <2>1 DEF Commanded, Driven, LinkInv, ServiceTyped, Engine
  <2>2. CASE operation \notin {"move", "servo"}
    BY <1>1, <1>3, <2>2 DEF Commanded, Held, LinkInv, ServiceTyped, Engine
  <2>. QED
    BY <2>1, <2>2
<1>5. ASSUME operation # "stop", revoked[service.peer] # None
      PROVE  revoked[service.peer] <= StopTimeout + CommandAge
  <2>1. message.age \in Nat /\ message.age <= CommandAge
    BY <1>1, HeadSpoken
  <2>2. message = batch[1] /\ 1 \in DOMAIN batch
    BY <1>1 DEF Executing, LinkTyped
  <2>3. revoked[service.peer] <= message.age + StopTimeout
    BY <1>1, <1>5, <2>1, <2>2 DEF Executing, Revocation, Overtaken
  <2>4. revoked[service.peer] \in Nat
    BY <1>2, <1>5, Limits DEF OwnerTyped
  <2>. QED
    BY <2>1, <2>3, <2>4, Ages, Limits
<1>6. ASSUME engine'.motion # "rest", revoked[engine'.by] # None
      PROVE  revoked[engine'.by] <= StopTimeout + CommandAge + engine'.beat
  BY <1>2, <1>4, <1>5, <1>6, Ages, Limits
<1>. QED
  BY <1>1, <1>6, ExecutionRevocation

\* Steps that read nothing and start nothing.
LEMMA NothingRevoked ==
    ASSUME StopInv, UNCHANGED <<up, revoked, batch>>,
           service'.peer = service.peer,
           engine'.motion # "rest" =>
              /\ engine.motion # "rest"
              /\ engine'.beat = engine.beat /\ engine'.by = engine.by
    PROVE  Revocation'
BY DEF StopInv, Revocation, Overtaken

LEMMA NextRevocation ==
    ASSUME StopInv, [Next]_vars
    PROVE  StopInv'
<1>. USE DEF StopInv, SilenceInv
<1>0. SilenceInv' /\ OwnerTyped' /\ SocketTyped'
  BY NextHeard, NextTyped
<1>. SUFFICES Revocation'
  BY <1>0
<1>1. CASE TimePasses
  BY <1>1, TimeRevocation
<1>2. CASE ReceivesNothing \/ Received
  BY <1>2, NothingRevoked DEF ReceivesNothing, Received, ownerVars, socketVars
<1>3. CASE Ignores
  BY <1>3, ExecutionRevocation DEF Ignores, Executing, Revocation, ownerVars
<1>4. CASE Claims
  <2>1. service.epoch = None /\ engine.motion = "rest"
    BY <1>4 DEF Claims, Ignored, LinkInv, MotionHasOwner
  <2>2. service'.peer = service.peer /\ engine'.motion = "rest"
    BY <1>4, <2>1 DEF Claims, Claimed, LinkInv, ServiceTyped, Service, Engine
  <2>. QED
    BY <1>4, <2>2, ExecutionRevocation DEF Claims
<1>5. CASE Rejects
  <2>1. engine'.motion = "rest"
    BY <1>5, FaultRests DEF Rejects, LinkInv
  <2>. QED
    BY <1>5, <2>1, ExecutionRevocation DEF Rejects
<1>6. CASE Executes
  BY <1>6, ExecutesRevocation
<1>7. CASE ExecutesRelease
  BY <1>7, ReleaseRevocation DEF ExecutesRelease, Executing, ownerVars, LinkTyped
<1>8. CASE Updates
  <2>1. UNCHANGED <<up, revoked, batch>>
    BY <1>8 DEF Updates, ownerVars, socketVars
  <2>2. service'.peer = service.peer
    BY <1>8 DEF Updates, LinkInv, ServiceTyped, Service
  <2>. QED
    BY <1>8, <2>1, <2>2, UpdateKeeps, NothingRevoked
<1>9. CASE PublishesNothing \/ \E e \in Epochs : Publishes(e)
  <2>1. service'.peer = service.peer
    BY <1>9 DEF PublishesNothing, Publishes, LinkInv, ServiceTyped, Service
  <2>. QED
    BY <1>9, <2>1, NothingRevoked
       DEF PublishesNothing, Publishes, ownerVars, socketVars
<1>10. CASE Shuts
  <2>1. engine'.motion = "rest" /\ batch' = <<>> /\ UNCHANGED revoked
    BY <1>10 DEF Shuts, ReleasedEngine, Held, ownerVars, Heard, LinkInv,
                 ServiceTyped, Engine
  <2>2. up' = [e \in Epochs |-> <<>>]
    BY <1>10 DEF Shuts
  <2>. QED
    BY <2>1, <2>2 DEF Revocation, Overtaken
<1>11. CASE \E e \in Epochs : Receives(e)
  BY <1>11, ReceivesRevocation
<1>12. CASE \E e \in Epochs : PublishFails(e)
  BY <1>12, ReleaseRevocation DEF PublishFails, ownerVars, LinkTyped
<1>13. CASE \E e \in Epochs : Control(e)
  BY <1>13, ControlRevocation
<1>14. CASE UNCHANGED vars
  BY <1>14, NothingRevoked DEF vars, ownerVars, socketVars, serviceVars
<1>. QED
  BY <1>1, <1>2, <1>3, <1>4, <1>5, <1>6, <1>7, <1>8, <1>9, <1>10, <1>11, <1>12,
     <1>13, <1>14 DEF Next, Render, Execution

\* A stop that is dropped for its age, lost, or never sent still ends: within
\* the deadline of the controller and the silence after its last heartbeat the
\* follower executes no motion of an owner that revoked it.
THEOREM StopIsBounded == Spec => []StopBounded
<1>1. ASSUME StopInv PROVE StopBounded
  <2>. USE DEF StopInv, SilenceInv
  <2>. SUFFICES ASSUME NEW e \in Epochs, Moving(e),
                       owner[e].state \in {"stopping", "fault"}
                PROVE  revoked[e] <= Unheard
    BY DEF StopBounded
  <2>1. engine.motion # "rest" /\ engine.by = e /\ engine.beat \in 0 .. Watchdog
    BY <1>1, MovesUnexpired
  <2>2. revoked[e] # None /\ (revoked[e] \in Nat)
    BY <1>1, Limits DEF OwnerTyped
  <2>3. revoked[e] <= StopTimeout + CommandAge + engine.beat
    BY <1>1, <2>1, <2>2, Ages DEF Revocation
  <2>. QED
    BY <1>1, <2>1, <2>2, <2>3, Ages, Limits
<1>2. Init => StopInv
  BY InitHeard, InitTyped, InitRevocation DEF StopInv
<1>. QED
  BY <1>1, <1>2, NextRevocation, PTL DEF Spec
===============================================================================
