--------------------------- MODULE EpisodeArchive ---------------------------
(***************************************************************************)
(* The file of an episode: archive.ArchiveWriter puts the groups of images *)
(* and the control records into one ordered log, and archive._Verifier, in *)
(* another process, reads it back message by message and decides whether   *)
(* the episode may be kept.                                                *)
(*                                                                         *)
(* A group is the time of its frame for every camera; a picture is known   *)
(* by its camera and time.  The depth picture has the time of its colour   *)
(* picture, and both the host's receipt.  Between the two one message of   *)
(* the file may be lost, repeated, exchanged or spoiled, with the log's    *)
(* times left or made regular again, as a wrong writer would have it: the  *)
(* container's checksums do not see that.                                  *)
(***************************************************************************)
EXTENDS ControlRecords, SequencesExt

CONSTANTS
    Roles,     \* the cameras, the wrist's first
    Skew,      \* max_skew_ns
    Quantum,   \* RGB_TIME_QUANTUM_NS
    Gop,       \* every Gop-th colour picture is a key picture
    Pooled,    \* three encoding and verification workers
    Script,    \* the control records, in the order the recorder sends them
    Offsets, MaxTime, \* when the frames of a group are taken, after the wrist's
    MaxEntries \* groups and rejected anchors together

VARIABLES
    writer,   \* ArchiveWriter: its state, groups, encoders and validators
    file,     \* the messages
    damage,   \* what happened to the file once it was closed
    verifier  \* _Verifier: its position, expectations, decoders, validators

vars == <<writer, file, damage, verifier>>

RoleSet == ToSet(Roles)
Wrist == Roles[1]

Init ==
    /\ writer = [state |-> "open", groups |-> <<>>, previous |-> None, origin |-> None,
                 recorded |-> 0, records |-> NewLog]
    /\ file = <<>> /\ damage = "none"
    /\ verifier = [state |-> "waiting", at |-> 1, expected |-> <<>>, jobs |-> <<>>,
                   previous |-> None, decoded |-> [r \in RoleSet |-> 0], records |-> NewLog]

-----------------------------------------------------------------------------
(* Messages.                                                                *)

Count(messages, topic) == Cardinality({i \in DOMAIN messages : messages[i].topic = topic})

\* The log's own times: that of the acquisition, but always later.
LogTime(messages, publish) ==
    IF messages = <<>> THEN publish
    ELSE LET next == Last(messages).log + 1 IN IF publish > next THEN publish ELSE next

Message(topic, publish, seq, data) ==
    [topic |-> topic, publish |-> publish, log |-> 0, seq |-> seq, data |-> data]

Logged(messages, m) == Append(messages, [m EXCEPT !.log = LogTime(messages, m.publish)])

\* _write: the snapshot precedes whatever comes first.
Written(messages) ==
    LET first == IF file # <<>> THEN <<>>
                 ELSE <<Message(<<"metadata">>, messages[1].publish, 0, "snapshot")>>
    IN  FoldLeft(Logged, file, first \o messages)

Topic(kind) ==
    CASE kind = "authority_event" -> <<"control", "authority">>
      [] kind = "leader_intent"   -> <<"leader", "state">>
      [] kind = "sent_command"    -> <<"control", "command">>
      [] OTHER                    -> <<"follower", "state">>

Camera(role, kind) == <<role, kind>>
Cameras == RoleSet \X {"rgb", "depth"}

-----------------------------------------------------------------------------
(* GroupValidator, of the writer and again of the verifier.                 *)

Distance(s, t) == IF s < t THEN t - s ELSE s - t

\* Mutant of Admits: frames that are merely newer are a new group.
AdmitsNewer(previous, g) ==
    \A r \in RoleSet :
        /\ Distance(g[r], g[Wrist]) <= Skew
        /\ previous # None => g[r] > previous[r]

Admits(previous, g) ==
    \A r \in RoleSet :
        /\ Distance(g[r], g[Wrist]) <= Skew
        /\ previous # None => g[r] - previous[r] >= Quantum

\* The receipts of a group's frames, in the validator of the control records.
Frames(records, g) == FoldSet(LAMBDA r, v : Observed(v, g[r]), records, RoleSet)

-----------------------------------------------------------------------------
(* The writer.                                                              *)

Entries == Len(writer.groups) + Count(file, <<"rejection">>)

Groups == {g \in [RoleSet -> 1..MaxTime] : \A r \in RoleSet : g[r] - g[Wrist] \in Offsets[r]}

\* The place of a picture in its stream, in whole quanta since the first.
Pts(origin, t) == (t - origin) \div Quantum

\* VideoEncoder.encode, of every camera.
Encodes(g) ==
    \A r \in RoleSet :
        writer.previous # None =>
            Pts(writer.origin[r], g[r]) > Pts(writer.origin[r], writer.previous[r])

\* A colour picture is its place in the stream of its camera.
Packet(r, n) == <<r, n>>
Key(packet) == packet[2] % Gop = 0

GroupMessages(g) ==
    LET n == Len(writer.groups) IN
    <<Message(<<"frame_set">>, g[Wrist], n, g)>>
    \o FlattenSeq([i \in DOMAIN Roles |->
           LET r == Roles[i] IN
           <<Message(Camera(r, "rgb"), g[r], n, [role |-> r, stamp |-> g[r], picture |-> Packet(r, n)]),
             Message(Camera(r, "depth"), g[r], n, [role |-> r, stamp |-> g[r], picture |-> <<r, g[r]>>])>>])

WriterFails(state) ==
    /\ writer' = [writer EXCEPT !.state = state]
    /\ UNCHANGED <<file, damage, verifier>>

Group ==
    /\ writer.state = "open" /\ Entries < MaxEntries
    /\ \E g \in Groups :
          IF ~Admits(writer.previous, g) THEN WriterFails("refused")
          ELSE IF ~Encodes(g) THEN WriterFails("collision")
          ELSE /\ writer' = [writer EXCEPT !.groups = Append(@, g), !.previous = g,
                                           !.origin = IF @ = None THEN g ELSE @,
                                           !.records = Frames(@, g)]
               /\ file' = Written(GroupMessages(g))
               /\ UNCHANGED <<damage, verifier>>

\* Anchors are decided in their order.
Rejection ==
    /\ writer.state = "open" /\ Entries < MaxEntries
    /\ \E t \in 1..MaxTime :
          /\ \A m \in ToSet(file) : m.topic \in {<<"frame_set">>, <<"rejection">>} => m.publish < t
          /\ file' = Written(<<Message(<<"rejection">>, t, Count(file, <<"rejection">>), t)>>)
    /\ UNCHANGED <<writer, damage, verifier>>

WriteRecord ==
    /\ writer.state = "open" /\ writer.recorded < Len(Script)
    /\ LET r == Script[writer.recorded + 1] IN
       IF Accepts(writer.records, r, r.at)
       THEN /\ writer' = [writer EXCEPT !.recorded = @ + 1, !.records = Checked(@, r)]
            /\ file' = Written(<<Message(Topic(r.kind), r.at, Count(file, Topic(r.kind)), r)>>)
            /\ UNCHANGED <<damage, verifier>>
       ELSE WriterFails("refused")

\* An episode that is stopped before its records are complete is not kept.
Finish ==
    /\ writer.state = "open"
    /\ IF Complete(writer.records)
       THEN writer' = [writer EXCEPT !.state = "closed"] /\ UNCHANGED <<file, damage, verifier>>
       ELSE WriterFails("refused")

-----------------------------------------------------------------------------
(* What may have happened to a message of the closed file.                  *)

Regular(messages) == FoldLeft(Logged, <<>>, messages)

Spoiled(m) ==
    IF m.topic \in Cameras
    THEN {[m EXCEPT !.data.picture = <<>>], [m EXCEPT !.data.stamp = @ + 1],
          [m EXCEPT !.publish = @ + 1], [m EXCEPT !.seq = @ + 1]}
         \cup {[m EXCEPT !.data.picture = other.data.picture] :
                  other \in {o \in ToSet(file) : o.topic \in Cameras /\ o.topic[2] = m.topic[2] /\ o # m}}
    ELSE {[m EXCEPT !.publish = @ + 1], [m EXCEPT !.seq = @ + 1]}

DamageTo(f, what) ==
    /\ writer.state = "closed" /\ damage = "none" /\ verifier.state = "waiting"
    /\ damage' = what
    /\ \E regular \in BOOLEAN : file' = IF regular THEN Regular(f) ELSE f
    /\ UNCHANGED <<writer, verifier>>

Lost == \E i \in DOMAIN file : DamageTo(RemoveAt(file, i), "lost")
Repeated == \E i \in DOMAIN file : DamageTo(InsertAt(file, i, file[i]), "repeated")
Exchanged == \E i, j \in DOMAIN file :
    /\ i < j /\ (j = i + 1 \/ file[i].topic = file[j].topic)
    /\ DamageTo([file EXCEPT ![i] = file[j], ![j] = file[i]], "exchanged")
SpoiledOne == \E i \in DOMAIN file : \E m \in Spoiled(file[i]) :
    DamageTo([file EXCEPT ![i] = m], "spoiled")

-----------------------------------------------------------------------------
(* The verifier.                                                            *)

Read == SubSeq(file, 1, verifier.at - 1)

\* _stamp and the ordered log, of every message.
Ordered(m) == m.log = LogTime(Read, m.publish)

Rejects ==
    /\ verifier' = [verifier EXCEPT !.state = "rejected"]
    /\ UNCHANGED <<writer, file, damage>>

Continues(v) ==
    /\ verifier' = [v EXCEPT !.at = @ + 1]
    /\ UNCHANGED <<writer, file, damage>>

Metadata(m) == m.data = "snapshot" /\ Read = <<>>

Expected(g) ==
    FlattenSeq([i \in DOMAIN Roles |->
        <<[topic |-> Camera(Roles[i], "rgb"), at |-> g[Roles[i]], digest |-> None],
          [topic |-> Camera(Roles[i], "depth"), at |-> g[Roles[i]], digest |-> <<Roles[i], g[Roles[i]]>>]>>])

GroupRight(m) ==
    /\ verifier.expected = <<>> /\ Admits(verifier.previous, m.data)
    /\ m.seq = Count(Read, <<"frame_set">>) /\ m.publish = m.data[Wrist]

\* image: of the group before it, in its place, with its time and frame.
ImageRight(m) ==
    /\ verifier.expected # <<>>
    /\ LET e == Head(verifier.expected) IN
       /\ m.topic = e.topic /\ m.publish = e.at
       /\ m.seq = Count(Read, <<"frame_set">>) - 1
       /\ m.data.stamp = e.at /\ m.data.role = e.topic[1]

DepthRight(e, picture) == picture = e.digest

\* A decoder takes the packets of its stream in their order; what it makes
\* of another one is up to the codec.
Decodings(e, picture) ==
    LET r == e.topic[1] IN
    IF picture = <<>> \/ (verifier.decoded[r] = 0 /\ ~Key(picture)) THEN {FALSE}
    ELSE IF picture = Packet(r, verifier.decoded[r]) THEN {TRUE}
    ELSE BOOLEAN

Verdicts(e, picture) ==
    IF e.topic[2] = "depth" THEN {DepthRight(e, picture)} ELSE Decodings(e, picture)

\* With workers a group's pictures are judged together, when it is complete.
ReadImage(m) ==
    LET e == Head(verifier.expected)
        rest == SubSeq(verifier.expected, 2, Len(verifier.expected))
    IN  \E good \in Verdicts(e, m.data.picture) :
          LET seen == Append(verifier.jobs, good)
              due == IF Pooled THEN rest = <<>> ELSE TRUE
          IN  IF due /\ \E i \in DOMAIN seen : ~seen[i]
              THEN Rejects
              ELSE Continues([verifier EXCEPT
                       !.expected = rest,
                       !.jobs = IF due THEN <<>> ELSE seen,
                       !.decoded = IF e.topic[2] = "rgb" THEN [@ EXCEPT ![e.topic[1]] = @ + 1] ELSE @])

VerifierStarts ==
    /\ writer.state = "closed" /\ verifier.state = "waiting"
    /\ verifier' = [verifier EXCEPT !.state = "reading"]
    /\ UNCHANGED <<writer, file, damage>>

Consume ==
    /\ verifier.state = "reading" /\ verifier.at <= Len(file)
    /\ LET m == file[verifier.at] IN
       IF ~Ordered(m) THEN Rejects
       ELSE IF m.topic \in Cameras
            THEN IF ImageRight(m) THEN ReadImage(m) ELSE Rejects
       ELSE IF m.topic = <<"metadata">>
            THEN IF Metadata(m) THEN Continues(verifier) ELSE Rejects
       ELSE IF Count(Read, <<"metadata">>) = 0 THEN Rejects
       ELSE IF m.topic = <<"frame_set">>
            THEN IF GroupRight(m)
                 THEN Continues([verifier EXCEPT !.expected = Expected(m.data), !.previous = m.data,
                                                 !.records = Frames(@, m.data)])
                 ELSE Rejects
       ELSE IF m.topic = <<"rejection">>
            THEN IF m.publish = m.data THEN Continues(verifier) ELSE Rejects
       ELSE IF m.topic = Topic(m.data.kind) /\ Accepts(verifier.records, m.data, m.publish)
            THEN Continues([verifier EXCEPT !.records = Checked(@, m.data)])
            ELSE Rejects

VerifierFinishes ==
    /\ verifier.state = "reading" /\ verifier.at > Len(file)
    /\ IF Complete(verifier.records) /\ verifier.expected = <<>> /\ Count(file, <<"frame_set">>) > 0
       THEN verifier' = [verifier EXCEPT !.state = "accepted"] /\ UNCHANGED <<writer, file, damage>>
       ELSE Rejects

Next ==
    \/ Group \/ Rejection \/ WriteRecord \/ Finish
    \/ Lost \/ Repeated \/ Exchanged \/ SpoiledOne
    \/ VerifierStarts \/ Consume \/ VerifierFinishes

Spec == Init /\ [][Next]_vars

-----------------------------------------------------------------------------
(* Properties.                                                              *)

TypeOK ==
    /\ writer.state \in {"open", "refused", "collision", "closed"}
    /\ verifier.state \in {"waiting", "reading", "rejected", "accepted"}
    /\ \A i \in DOMAIN file : i > 1 => file[i].log > file[i - 1].log \/ damage # "none"

Messages(topics) == SelectSeq(file, LAMBDA m : m.topic \in topics)
Data(topics) == LET ms == Messages(topics) IN [i \in DOMAIN ms |-> ms[i].data]

\* The pictures of all groups, as they were given to the writer.
Pictures(kind, r) ==
    [n \in DOMAIN writer.groups |->
        [at |-> writer.groups[n][r],
         picture |-> IF kind = "depth" THEN <<r, writer.groups[n][r]>> ELSE None]]
Stored(kind, r) ==
    LET ms == Messages({Camera(r, kind)}) IN
    [n \in DOMAIN ms |->
        [at |-> ms[n].data.stamp, picture |-> IF kind = "depth" THEN ms[n].data.picture ELSE None]]

ControlTopics == {Topic(k) : k \in Kinds}
OfKind(records, k) == SelectSeq(records, LAMBDA r : r.kind = k)

(* A file that the verifier accepts holds every group that was recorded,    *)
(* with each camera's pictures under their own times and every depth        *)
(* picture unchanged, and of every control stream the records in their      *)
(* order from the first, only the end of which may be missing; one that     *)
(* nothing happened to is never turned away if it holds a group.  A colour  *)
(* picture bears no digest: another that decodes may stand in its place.    *)
(* And the encoders never refuse what the validator has admitted.           *)
ArchiveTruthful ==
    /\ verifier.state = "accepted" =>
         /\ Data({<<"frame_set">>}) = writer.groups
         /\ \A r \in RoleSet, kind \in {"rgb", "depth"} : Stored(kind, r) = Pictures(kind, r)
         /\ \A k \in Kinds :
              IsPrefix(OfKind(Data(ControlTopics), k), OfKind(SubSeq(Script, 1, writer.recorded), k))
    /\ verifier.state = "rejected" => damage # "none" \/ writer.groups = <<>>
    /\ writer.state # "collision"
=============================================================================
