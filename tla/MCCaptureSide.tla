---------------------------- MODULE MCCaptureSide ----------------------------
(***************************************************************************)
(* The camera side in one run: the recorder process with its episode, the  *)
(* rig with one ring of image slots for each camera, and the matcher that  *)
(* groups the frames, the archive they end in, and the batch that records  *)
(* episodes without a robot.  Each is checked against the others'          *)
(* interface, with which it shares no state but a clock: part says which   *)
(* one a behaviour is about, and the others stay as they begin.            *)
(*                                                                         *)
(* Recorder: two episodes on a few ticks, so that the second is sealed     *)
(* with the remains of the first and the frame can be later than the drain. *)
(* Rig: three frames and two slots, so that a slot is used again.          *)
(* Matcher: three frames of each camera, two anchors pending.              *)
(* Archive: two groups or rejected anchors between the batches in which    *)
(* the recorder passes on the six records of the shortest complete episode. *)
(***************************************************************************)
EXTENDS RecorderCapture, CameraOnly

MCRoles == <<"wrist", "left">>
MCRigFrames == [wrist |-> 3, left |-> 0]
MCViews == <<"left">>
MCMatchFrames == [wrist |-> 3, left |-> 3]
MCGaps == [wrist |-> {2}, left |-> {1, 2}]
MCDepthSteps == [wrist |-> {<<1, 1>>}, left |-> {<<0, 0>>, <<1, 1>>}]

VARIABLES
    part,
    archive, file, damage, verifier

Record(kind, seq, at, source, value) ==
    [kind |-> kind, seq |-> seq, at |-> at, source |-> source, value |-> value, genuine |-> TRUE]

Archive == INSTANCE EpisodeArchive WITH
    MaxGap <- 2, CommandEvery <- 5, Hande <- FALSE,
    Roles <- <<"wrist", "left">>, Gop <- 2, Pooled <- TRUE,
    Script <- <<Record("authority_event", 0, 1, 1, "acquired"), Record("leader_intent", 0, 3, 3, 1),
                Record("sent_command", 0, 3, 3, 1), Record("follower_state", 0, 3, 7, 3),
                Record("ur_feedback", 0, 3, 7, 3), Record("authority_event", 1, 5, 5, "released")>>,
    MaxTime <- 4, MaxEntries <- 2,
    Offsets <- [wrist |-> {0}, left |-> {1, 2}], writer <- archive

recorderVars == <<arriving, stamped, control, outbox, inbox, abort, pc, child, writer, final,
                  pending, stored, read, early, refused>>
rigVars == <<stop, worker, rings, headers, status, camera, rig>>
matcherVars == <<state, buffers, last, used, overflow, out, pushed>>
archiveVars == <<archive, file, damage, verifier>>
batchVars == <<batch, devices, owner, output>>

SideInit ==
    /\ part \in {"recorder", "rig", "matcher", "archive", "batch"}
    /\ Init /\ Rig!Init /\ Matcher!Init /\ Archive!Init /\ Shadow!Init

\* A camera counts from one, and starts again at most once.
OneRestart == \A r \in DOMAIN headers :
    Cardinality({i \in DOMAIN headers'[r] : headers'[r][i].counter = 0}) <= 1

\* The recorder looks at the cameras between two commands, never inside one.
BetweenBatches == file' # file /\ archive.state = "open" /\ archive'.recorded = archive.recorded
    => archive.recorded \in {1, 3, 5}

SideNext ==
    \/ part = "recorder" /\ Next /\ UNCHANGED <<part, clock, rigVars, matcherVars, archiveVars, batchVars>>
    \/ /\ part = "rig" /\ Rig!Next /\ OneRestart
       /\ UNCHANGED <<part, now, recorderVars, matcherVars, archiveVars, batchVars>>
    \/ /\ part = "matcher" /\ Matcher!Next
       /\ UNCHANGED <<part, now, recorderVars, rigVars, archiveVars, batchVars>>
    \/ /\ part = "archive" /\ Archive!Next /\ BetweenBatches
       /\ UNCHANGED <<part, now, clock, recorderVars, rigVars, matcherVars, batchVars>>
    \/ /\ part = "batch" /\ Shadow!Next
       /\ UNCHANGED <<part, now, clock, recorderVars, rigVars, matcherVars, archiveVars>>

sideVars == <<part, now, clock, recorderVars, rigVars, matcherVars, archiveVars, batchVars>>

SideSpec == SideInit /\ [][SideNext]_sideVars

\* The modules' properties, under the names they have there.
TypesOK ==
    /\ part = "recorder" => TypeOK
    /\ part = "rig" => Rig!TypeOK
    /\ part = "matcher" => Matcher!TypeOK
    /\ part = "archive" => Archive!TypeOK
    /\ part = "batch" => Shadow!TypeOK
ArchiveTruthful == Archive!ArchiveTruthful
=============================================================================
