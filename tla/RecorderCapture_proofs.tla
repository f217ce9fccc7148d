----------------------- MODULE RecorderCapture_proofs -----------------------
(***************************************************************************)
(* The recorder seals exactly the interval that control asked for, and     *)
(* only after control has confirmed its hold: WindowExact and              *)
(* ConfirmedBeforeSeal of RecorderCapture, for any clock, any drain, any   *)
(* capacity, any number of episodes and frames, and whenever the control   *)
(* process goes.                                                           *)
(*                                                                         *)
(* Control and the child share only what is on its way between them.  The  *)
(* invariant says of it: which commands may follow each other, that the    *)
(* batches in the inbox are those the log has not got yet, what the times  *)
(* of the commands are, and where the child may be for each step of        *)
(* control that sends something.                                           *)
(***************************************************************************)
EXTENDS RecorderCapture, SequenceTheorems, FiniteSetTheorems, TLAPS

-----------------------------------------------------------------------------
(* The inductive invariant.                                                *)

Last(s) == s[Len(s)]

Filling == {"begin", "samples", "freeze"}

\* Which command may come right behind which.
Follow == ({"prepare"} \X {"cancel"})
          \cup (Filling \X {"samples", "freeze", "stop", "cancel"})
          \cup ({"stop"} \X {"settled", "cancel"})

Chain(s) == \A i \in 1 .. (Len(s) - 1) :
    <<s[i].operation, s[i + 1].operation>> \in Follow

\* The batches of s are those of sent behind the first n, in their order.
Batched(s, sent, n) ==
    /\ \A i \in DOMAIN s : s[i].operation = "samples" =>
          \E k \in DOMAIN sent : k > n /\ s[i].at = sent[k]
    /\ \A k \in DOMAIN sent : k > n =>
          \E i \in DOMAIN s : s[i].operation = "samples" /\ s[i].at = sent[k]
    /\ \A i, j \in DOMAIN s :
          i < j /\ s[i].operation = "samples" /\ s[j].operation = "samples" =>
              s[i].at < s[j].at

Ascending(sent) == \A j, k \in DOMAIN sent : j < k => sent[j] < sent[k]

\* The times of the episode, as control keeps them.
Latest == IF control.stopSent THEN control.cutoff ELSE control.mark

Timely ==
    /\ control.start = None =>
          control.cutoff = None /\ ~control.stopSent /\ control.sent = <<>>
    /\ control.start # None =>
          /\ control.mark # None
          /\ control.start <= control.mark /\ control.mark <= now
    /\ control.cutoff # None =>
          control.mark < control.cutoff /\ control.cutoff <= now
    /\ control.stopSent => control.cutoff # None
    /\ \A k \in DOMAIN control.sent :
          control.start < control.sent[k] /\ control.sent[k] <= Latest
    /\ Ascending(control.sent)

Stepped ==
    /\ control.step \in {"preparing", "engaging"} => control.start = None
    /\ control.step = "recording" => control.start # None /\ control.cutoff = None
    /\ control.step = "stopping" => control.cutoff # None
    /\ control.step = "review" /\ control.start # None => control.cutoff # None
    /\ control.step \in {"preparing", "engaging", "recording", "stopping", "review"} =>
          ~control.confirmed

\* The command that is next fits the child.
Headed == inbox # <<>> =>
    LET operation == inbox[1].operation IN
    /\ operation = "prepare" => child.state = "idle" /\ control.start = None
    /\ operation = "begin" => child.state = "prepared"
    /\ operation \in {"samples", "freeze", "stop"} =>
          child.state = "recording" /\ child.cutoff = None
    /\ operation = "settled" => child.state = "recording" /\ child.cutoff # None
    /\ operation = "cancel" => child.state \in {"prepared", "recording"}
    /\ child.state = "recording" => ~child.settled

\* The time of a command is the one that its sender s keeps.
Stamped(c, s) ==
    /\ c.operation = "begin" => c.at = s.start /\ s.start # None
    /\ c.operation \in {"freeze", "stop"} => c.at = s.cutoff /\ s.cutoff # None
    /\ c.operation = "settled" => s.confirmed

\* How many batches the log has got.
Taken == IF child.state = "recording" THEN Len(stored.log) - 1 ELSE 0

Sampled == child.state \in {"prepared", "recording"} =>
    Batched(inbox, control.sent, Taken)

Logged == child.state = "recording" =>
    /\ Taken \in 0 .. Len(control.sent)
    /\ stored.log[1] = <<"acquired", child.start>>
    /\ \A k \in 1 .. Taken : stored.log[k + 1] = <<"samples", control.sent[k]>>
    /\ child.cutoff = None =>
          child.watermark = IF Taken = 0 THEN child.start ELSE control.sent[Taken]

\* The child knows the times of this episode or none.
Bounded == child.state \in {"recording", "finalizing"} =>
    /\ child.start = control.start /\ control.start # None
    /\ child.boundary \in {None, control.cutoff}
    /\ child.cutoff \in {None, control.cutoff}
    /\ child.cutoff # None =>
          child.watermark = child.cutoff /\ child.boundary = child.cutoff
    /\ child.state = "finalizing" => child.cutoff # None
    /\ child.settled \/ child.state = "finalizing" => control.confirmed

\* What was read within the interval is stored or waits for the watermark.
Framed ==
    /\ child.state = "prepared" => stored.frames = {} /\ read = {}
    /\ child.state = "recording" =>
          /\ pending \subseteq read
          /\ \A r \in stored.frames :
                r \in read /\ child.start <= r /\ r < child.watermark
          /\ \A r \in read :
                child.start <= r /\ (child.boundary = None \/ r < child.boundary) =>
                    r \in stored.frames \cup pending

\* Only a sealed episode is committed.
Written ==
    /\ child.state \in {"prepared", "recording"} =>
          final = None /\ writer.verdict \in {"opening", "open", "aborted", "failed"}
    /\ child.state = "cancelling" =>
          final = None /\ writer.verdict \in {"aborted", "failed"}
    /\ child.state = "idle" =>
          /\ final = None /\ writer.done
          /\ writer.verdict \in {"none", "aborted", "failed", "committed"}
    /\ child.state = "finalizing" => final # None
    /\ final = "result" => writer.verdict = "committed" /\ writer.done
    /\ writer.done => writer.verdict \notin {"opening", "open", "closing"}

\* Where the child may be, for every step of control that can send.
Asked ==
    \/ /\ Len(inbox) = 1 /\ inbox[1].operation = "prepare"
       /\ child.state = "idle" /\ outbox = <<>>
    \/ /\ inbox = <<>> /\ child.state = "prepared"
       /\ outbox = IF child.acked THEN <<"prepare">> ELSE <<>>

Ready ==
    /\ inbox = <<>> /\ child.state = "prepared" /\ child.acked /\ outbox = <<>>

Working ==
    /\ child.state \in {"prepared", "recording"}
    /\ child.state = "prepared" => child.acked
    /\ outbox = <<>>
    /\ inbox = <<>> =>
          child.state = "recording" /\ (child.cutoff # None <=> control.stopSent)
    /\ inbox # <<>> =>
          Last(inbox).operation \in IF control.stopSent THEN {"stop"} ELSE Filling

Sealing ==
    /\ control.confirmed
    /\ \/ /\ outbox = <<>>
          /\ child.state \in {"prepared", "recording", "finalizing"}
          /\ child.state = "prepared" => child.acked
          /\ inbox # <<>> => Last(inbox).operation = "settled"
       \/ outbox = <<"complete">> /\ child.state = "idle" /\ inbox = <<>>

Cancelling ==
    \/ /\ \/ outbox = <<>>
          \/ outbox = <<"prepare">> /\ child.acked /\ child.state # "idle"
       /\ \/ child.state = "cancelling"
          \/ inbox # <<>> /\ Last(inbox).operation = "cancel"
    \/ /\ outbox \in {<<"cancelled">>, <<"prepare", "cancelled">>}
       /\ child.state = "idle" /\ inbox = <<>>

Linked ==
    /\ control.step = "idle" => inbox = <<>> /\ outbox = <<>> /\ child.state = "idle"
    /\ control.step = "preparing" => Asked
    /\ control.step = "engaging" => Ready
    /\ control.step = "review" /\ control.start = None => Asked \/ Ready
    /\ \/ control.step \in {"recording", "stopping"}
       \/ control.step = "review" /\ control.start # None
       => Working
    /\ control.step = "sealing" => Sealing
    /\ control.step = "cancelling" => Cancelling

Talk ==
    /\ Chain(inbox) /\ Headed
    /\ \A i \in DOMAIN inbox : Stamped(inbox[i], control)
    /\ Linked

\* A sealed episode is exact; what it becomes meanwhile follows from the rest.
Exact ==
    /\ Sealed => stored.frames = {r \in read : child.start <= r /\ r < child.cutoff}
    /\ child.state = "finalizing" =>
          stored.log = <<<<"acquired", child.start>>>>
                          \o [i \in DOMAIN control.sent |-> <<"samples", control.sent[i]>>]
                          \o <<<<"released", child.cutoff>>>>

Content == Sampled /\ Logged /\ Bounded /\ Framed /\ Written /\ Exact

\* Nothing but the end of a child that was told to end follows an abort.
CaptureInv ==
    /\ TypeOK /\ Timely /\ Stepped /\ ~refused
    /\ abort \/ Running
    /\ Running => Talk /\ Content

-----------------------------------------------------------------------------
(* Sequences of commands.                                                  *)

\* One command more.
LEMMA Appended ==
    ASSUME NEW S, NEW s \in Seq(S), NEW c \in S
    PROVE  /\ Append(s, c) \in Seq(S)
           /\ Len(Append(s, c)) = Len(s) + 1 /\ Len(s) \in Nat
           /\ DOMAIN Append(s, c) = 1 .. (Len(s) + 1) /\ DOMAIN s = 1 .. Len(s)
           /\ \A i \in 1 .. Len(s) : Append(s, c)[i] = s[i]
           /\ Append(s, c)[Len(s) + 1] = c
           /\ Append(s, c) # <<>>
           /\ Last(Append(s, c)) = c
BY AppendProperties, LenProperties DEF Last

\* One command less.
LEMMA Shortened ==
    ASSUME NEW S, NEW s \in Seq(S), s # <<>>
    PROVE  /\ Tail(s) \in Seq(S)
           /\ Len(Tail(s)) = Len(s) - 1 /\ Len(s) \in Nat /\ Len(s) > 0
           /\ DOMAIN Tail(s) = 1 .. (Len(s) - 1) /\ DOMAIN s = 1 .. Len(s)
           /\ \A i \in 1 .. (Len(s) - 1) : Tail(s)[i] = s[i + 1]
           /\ Head(s) = s[1] /\ s[1] \in S
           /\ Tail(s) # <<>> => Last(Tail(s)) = Last(s)
<1>1. /\ Tail(s) \in Seq(S)
      /\ Len(Tail(s)) = Len(s) - 1 /\ Len(s) \in Nat /\ Len(s) > 0
      /\ \A i \in 1 .. (Len(s) - 1) : Tail(s)[i] = s[i + 1]
      /\ Head(s) = s[1]
  BY HeadTailProperties, LenProperties
<1>2. DOMAIN Tail(s) = 1 .. (Len(s) - 1) /\ DOMAIN s = 1 .. Len(s)
  BY <1>1, LenProperties
<1>3. Tail(s) # <<>> => Len(s) - 1 \in 1 .. (Len(s) - 1)
  BY <1>1, EmptySeq
<1>4. Tail(s) # <<>> => Last(Tail(s)) = Last(s)
  BY <1>1, <1>3 DEF Last
<1>5. s[1] \in S
  BY <1>1
<1>. QED
  BY <1>1, <1>2, <1>4, <1>5

\* Two commands that are sent together are sent one after the other.
LEMMA SentTogether ==
    ASSUME NEW S, NEW s \in Seq(S), NEW c \in S, NEW d \in S
    PROVE  s \o <<c, d>> = Append(Append(s, c), d)
OBVIOUS

LEMMA ChainAppend ==
    ASSUME NEW s \in Seq(Command), NEW c \in Command, Chain(s),
           s # <<>> => <<Last(s).operation, c.operation>> \in Follow
    PROVE  Chain(Append(s, c))
<1>. SUFFICES ASSUME NEW i \in 1 .. Len(s)
              PROVE  <<Append(s, c)[i].operation, Append(s, c)[i + 1].operation>>
                        \in Follow
  BY Appended DEF Chain
<1>1. CASE i = Len(s)
  BY <1>1, Appended DEF Last
<1>2. CASE i # Len(s)
  <2>1. i \in 1 .. (Len(s) - 1) /\ i + 1 \in 1 .. Len(s) /\ i \in 1 .. Len(s)
    BY <1>2, Appended
  <2>2. Append(s, c)[i] = s[i] /\ Append(s, c)[i + 1] = s[i + 1]
    BY <2>1, Appended
  <2>. QED
    BY <2>1, <2>2 DEF Chain
<1>. QED
  BY <1>1, <1>2

LEMMA ChainTail ==
    ASSUME NEW s \in Seq(Command), s # <<>>, Chain(s)
    PROVE  /\ Chain(Tail(s))
           /\ Tail(s) # <<>> =>
                 <<s[1].operation, Tail(s)[1].operation>> \in Follow
<1>1. \A i \in 1 .. (Len(Tail(s)) - 1) :
         /\ i + 1 \in 1 .. (Len(s) - 1)
         /\ Tail(s)[i] = s[i + 1] /\ Tail(s)[i + 1] = s[(i + 1) + 1]
  BY Shortened
<1>2. Tail(s) # <<>> => 1 \in 1 .. (Len(s) - 1) /\ Tail(s)[1] = s[1 + 1]
  BY Shortened, EmptySeq
<1>. QED
  BY <1>1, <1>2 DEF Chain

\* A command that is no batch.
LEMMA BatchedOther ==
    ASSUME NEW s \in Seq(Command), NEW c \in Command, NEW sent, NEW n \in Nat,
           Batched(s, sent, n), c.operation # "samples"
    PROVE  Batched(Append(s, c), sent, n)
<1>1. \A i \in DOMAIN Append(s, c) : Append(s, c)[i].operation = "samples" =>
         i \in DOMAIN s /\ Append(s, c)[i] = s[i]
  BY Appended
<1>2. \A i \in DOMAIN s : i \in DOMAIN Append(s, c) /\ Append(s, c)[i] = s[i]
  BY Appended
<1>. QED
  BY <1>1, <1>2 DEF Batched

\* A batch that is later than all of them.
LEMMA BatchedSent ==
    ASSUME NEW s \in Seq(Command), NEW c \in Command, c.operation = "samples",
           NEW sent \in Seq(Times), c.at \in Times,
           NEW n \in 0 .. Len(sent), Batched(s, sent, n),
           \A k \in DOMAIN sent : sent[k] < c.at
    PROVE  Batched(Append(s, c), Append(sent, c.at), n)
<1>. DEFINE t == Append(s, c)
            later == Append(sent, c.at)
<1>1. /\ DOMAIN t = 1 .. (Len(s) + 1) /\ DOMAIN s = 1 .. Len(s) /\ Len(s) \in Nat
      /\ \A i \in DOMAIN s : t[i] = s[i]
      /\ t[Len(s) + 1] = c
  BY Appended
<1>2. /\ DOMAIN later = 1 .. (Len(sent) + 1) /\ DOMAIN sent = 1 .. Len(sent)
      /\ Len(sent) \in Nat
      /\ \A k \in DOMAIN sent : later[k] = sent[k]
      /\ later[Len(sent) + 1] = c.at
  BY Appended
<1>. HIDE DEF t, later
<1>3. ASSUME NEW i \in DOMAIN t, t[i].operation = "samples"
      PROVE  \E k \in DOMAIN later : k > n /\ t[i].at = later[k]
  <2>1. CASE i = Len(s) + 1
    BY <1>1, <1>2, <2>1
  <2>2. CASE i # Len(s) + 1
    <3>1. i \in DOMAIN s /\ t[i] = s[i]
      BY <1>1, <2>2
    <3>2. PICK k \in DOMAIN sent : k > n /\ s[i].at = sent[k]
      BY <1>3, <3>1 DEF Batched
    <3>. QED
      BY <1>2, <3>1, <3>2
  <2>. QED
    BY <2>1, <2>2
<1>4. ASSUME NEW k \in DOMAIN later, k > n
      PROVE  \E i \in DOMAIN t : t[i].operation = "samples" /\ t[i].at = later[k]
  <2>1. CASE k = Len(sent) + 1
    BY <1>1, <1>2, <2>1
  <2>2. CASE k # Len(sent) + 1
    <3>1. k \in DOMAIN sent /\ later[k] = sent[k]
      BY <1>2, <2>2
    <3>2. PICK i \in DOMAIN s : s[i].operation = "samples" /\ s[i].at = sent[k]
      BY <1>4, <3>1 DEF Batched
    <3>. QED
      BY <1>1, <3>1, <3>2
  <2>. QED
    BY <2>1, <2>2
<1>5. ASSUME NEW i \in DOMAIN t, NEW j \in DOMAIN t, i < j,
             t[i].operation = "samples", t[j].operation = "samples"
      PROVE  t[i].at < t[j].at
  <2>1. i \in DOMAIN s /\ t[i] = s[i]
    BY <1>1, <1>5
  <2>2. CASE j = Len(s) + 1
    <3>1. PICK k \in DOMAIN sent : s[i].at = sent[k]
      BY <1>5, <2>1 DEF Batched
    <3>. QED
      BY <1>1, <2>1, <2>2, <3>1
  <2>3. CASE j # Len(s) + 1
    <3>1. j \in DOMAIN s /\ t[j] = s[j]
      BY <1>1, <2>3
    <3>. QED
      BY <1>5, <2>1, <3>1 DEF Batched
  <2>. QED
    BY <2>2, <2>3
<1>. QED
  BY <1>3, <1>4, <1>5 DEF Batched, t, later

\* The next batch is the first one that the log has not got.
LEMMA BatchedTail ==
    ASSUME NEW s \in Seq(Command), s # <<>>, NEW sent \in Seq(Times),
           NEW n \in 0 .. Len(sent), Batched(s, sent, n), Ascending(sent)
    PROVE  /\ s[1].operation = "samples" =>
                 /\ n + 1 \in DOMAIN sent /\ s[1].at = sent[n + 1]
                 /\ Batched(Tail(s), sent, n + 1)
           /\ s[1].operation # "samples" => Batched(Tail(s), sent, n)
<1>. DEFINE t == Tail(s)
<1>1. /\ DOMAIN t = 1 .. (Len(s) - 1) /\ DOMAIN s = 1 .. Len(s) /\ Len(s) \in Nat
      /\ Len(s) > 0
      /\ \A i \in DOMAIN t : t[i] = s[i + 1]
  BY Shortened
<1>2. DOMAIN sent = 1 .. Len(sent) /\ Len(sent) \in Nat
      /\ \A k \in DOMAIN sent : sent[k] \in Times
  BY LenProperties
<1>3. \A i \in DOMAIN t : i + 1 \in DOMAIN s /\ i + 1 > 1
  BY <1>1
<1>4. \A i \in DOMAIN s : i # 1 => i - 1 \in DOMAIN t /\ t[i - 1] = s[i]
  BY <1>1
<1>. HIDE DEF t
<1>5. ASSUME NEW i \in DOMAIN t, NEW j \in DOMAIN t, i < j,
             t[i].operation = "samples", t[j].operation = "samples"
      PROVE  t[i].at < t[j].at
  <2>1. i + 1 \in DOMAIN s /\ j + 1 \in DOMAIN s /\ i + 1 < j + 1
    BY <1>1, <1>5
  <2>2. t[i] = s[i + 1] /\ t[j] = s[j + 1]
    BY <1>1
  <2>3. \A k, l \in DOMAIN s :
           k < l /\ s[k].operation = "samples" /\ s[l].operation = "samples" =>
               s[k].at < s[l].at
    BY DEF Batched
  <2>. QED
    BY <1>5, <2>1, <2>2, <2>3
<1>6. ASSUME s[1].operation # "samples" PROVE Batched(t, sent, n)
  <2>1. ASSUME NEW i \in DOMAIN t, t[i].operation = "samples"
        PROVE  \E k \in DOMAIN sent : k > n /\ t[i].at = sent[k]
    <3>1. i + 1 \in DOMAIN s /\ t[i] = s[i + 1]
      BY <1>1, <1>3
    <3>2. \A j \in DOMAIN s : s[j].operation = "samples" =>
             \E k \in DOMAIN sent : k > n /\ s[j].at = sent[k]
      BY DEF Batched
    <3>. QED
      BY <2>1, <3>1, <3>2
  <2>2. ASSUME NEW k \in DOMAIN sent, k > n
        PROVE  \E i \in DOMAIN t : t[i].operation = "samples" /\ t[i].at = sent[k]
    <3>1. PICK i \in DOMAIN s : s[i].operation = "samples" /\ s[i].at = sent[k]
      BY <2>2 DEF Batched
    <3>. QED
      BY <1>4, <1>6, <3>1
  <2>. QED
    BY <1>5, <2>1, <2>2 DEF Batched
<1>7. ASSUME s[1].operation = "samples"
      PROVE  /\ n + 1 \in DOMAIN sent /\ s[1].at = sent[n + 1]
             /\ Batched(t, sent, n + 1)
  <2>1. 1 \in DOMAIN s
    BY <1>1
  <2>2. PICK k \in DOMAIN sent : k > n /\ s[1].at = sent[k]
    BY <1>7, <2>1 DEF Batched
  <2>3. n + 1 \in DOMAIN sent /\ n + 1 > n
    BY <1>2, <2>2
  <2>4. PICK i \in DOMAIN s : s[i].operation = "samples" /\ s[i].at = sent[n + 1]
    BY <2>3 DEF Batched
  <2>5. k = n + 1
    <3>. SUFFICES ASSUME n + 1 < k PROVE FALSE
      BY <1>2, <2>2
    <3>1. sent[n + 1] < sent[k] /\ sent[n + 1] \in Times /\ sent[k] \in Times
      BY <1>2, <2>3 DEF Ascending
    <3>2. ASSUME i # 1 PROVE s[1].at < s[i].at
      <4>1. 1 < i
        BY <1>1, <3>2
      <4>. QED
        BY <1>7, <2>1, <2>4, <4>1 DEF Batched
    <3>3. MaxTime \in Nat
      BY BoundsAssumption
    <3>4. sent[n + 1] \in Nat /\ sent[k] \in Nat
      BY <3>1, <3>3 DEF Times
    <3>5. CASE i = 1
      BY <2>2, <2>4, <3>1, <3>4, <3>5
    <3>6. CASE i # 1
      BY <2>2, <2>4, <3>1, <3>2, <3>4, <3>6
    <3>. QED
      BY <3>5, <3>6
  <2>6. ASSUME NEW j \in DOMAIN t, t[j].operation = "samples"
        PROVE  \E l \in DOMAIN sent : l > n + 1 /\ t[j].at = sent[l]
    <3>1. PICK l \in DOMAIN sent : l > n /\ s[j + 1].at = sent[l]
      BY <1>1, <1>3, <2>6 DEF Batched
    <3>2. s[1].at < s[j + 1].at
      BY <1>1, <1>3, <1>7, <2>1, <2>6 DEF Batched
    <3>3. l # n + 1
      BY <1>2, <2>2, <2>3, <2>5, <3>1, <3>2, BoundsAssumption DEF Times
    <3>. QED
      BY <1>1, <1>2, <2>6, <3>1, <3>3
  <2>7. ASSUME NEW l \in DOMAIN sent, l > n + 1
        PROVE  \E j \in DOMAIN t : t[j].operation = "samples" /\ t[j].at = sent[l]
    <3>1. PICK j \in DOMAIN s : s[j].operation = "samples" /\ s[j].at = sent[l]
      BY <1>2, <2>7 DEF Batched
    <3>2. sent[n + 1] < sent[l] /\ sent[n + 1] \in Times
      BY <1>2, <2>3, <2>7 DEF Ascending
    <3>3. j # 1
      BY <2>2, <2>5, <3>1, <3>2, BoundsAssumption DEF Times
    <3>. QED
      BY <1>4, <3>1, <3>3
  <2>8. Batched(t, sent, n + 1)
    BY <1>5, <2>6, <2>7 DEF Batched
  <2>. QED
    BY <2>2, <2>3, <2>5, <2>8
<1>. QED
  BY <1>6, <1>7 DEF t

-----------------------------------------------------------------------------
(* What stands still.                                                      *)

LEMMA TalkStable ==
    ASSUME Talk, UNCHANGED <<control, outbox, inbox, child>>
    PROVE  Talk'
<1>1. /\ Asked => Asked'
      /\ Ready => Ready'
      /\ Working => Working'
  BY DEF Asked, Ready, Working
<1>2. /\ Sealing => Sealing'
      /\ Cancelling => Cancelling'
  BY DEF Sealing, Cancelling
<1>3. Linked'
  BY <1>1, <1>2 DEF Talk, Linked
<1>4. Headed'
  BY DEF Talk, Headed
<1>. QED
  BY <1>3, <1>4 DEF Talk

LEMMA ContentStable ==
    ASSUME Content,
           UNCHANGED <<control, inbox, child, pending, writer, final, stored, read>>
    PROVE  Content'
<1>1. Sampled' /\ Logged'
  BY DEF Content, Sampled, Logged, Taken
<1>2. Bounded' /\ Framed'
  BY DEF Content, Bounded, Framed
<1>3. Written'
  BY DEF Content, Written
<1>4. Exact'
  BY DEF Content, Exact, Sealed
<1>. QED
  BY <1>1, <1>2, <1>3, <1>4 DEF Content

-----------------------------------------------------------------------------
(* The steps of control.                                                   *)

\* Times are numbers, and None is not.
LEMMA Numbers ==
    /\ MaxTime \in Nat /\ None \notin Nat /\ Times \subseteq Nat
    /\ \A t \in Time : t # None => t \in Times
    /\ None \notin {"called", "waiting", "result", "exception"}
BY BoundsAssumption DEF Times, Time

\* What a step of control leaves to be shown.
LEMMA ControlKeeps ==
    ASSUME CaptureInv, ~abort, ControlUnchanged,
           control' \in ControlType, inbox' \in Seq(Command),
           Timely', Stepped', Talk', Sampled', Logged', Bounded',
           child.state = "finalizing" => control'.sent = control.sent
    PROVE  CaptureInv'
<1>. USE DEF CaptureInv
<1>1. UNCHANGED <<now, arriving, stamped, outbox, abort, pc, child, writer, final,
                  pending, stored, read, early, refused>>
  BY DEF ControlUnchanged, worldVars, writerVars, episodeVars
<1>2. TypeOK'
  BY <1>1 DEF TypeOK
<1>3. Running /\ Running'
  BY <1>1 DEF Running
<1>4. Framed' /\ Written'
  BY <1>1, <1>3 DEF Content, Framed, Written
<1>5. Exact'
  BY <1>1, <1>3 DEF Content, Exact, Sealed
<1>. QED
  BY <1>1, <1>2, <1>3, <1>4, <1>5 DEF Content

\* Control goes on with an episode: its start and its cutoff stand.
LEMMA BoundedKept ==
    ASSUME Bounded, child' = child, control'.start = control.start,
           control.cutoff # None => control'.cutoff = control.cutoff,
           control.confirmed => control'.confirmed
    PROVE  Bounded'
BY DEF Bounded

\* What the log has got it keeps.
LEMMA LoggedKept ==
    ASSUME TypeOK, Logged, UNCHANGED <<child, stored>>,
           \/ control'.sent = control.sent
           \/ \E t \in Times : control'.sent = Append(control.sent, t)
    PROVE  Logged'
<1>1. CASE control'.sent = control.sent
  BY <1>1 DEF Logged, Taken
<1>2. ASSUME NEW t \in Times, control'.sent = Append(control.sent, t)
      PROVE  Logged'
  <2>1. control.sent \in Seq(Times)
    BY DEF TypeOK, ControlType
  <2>2. /\ Len(control'.sent) = Len(control.sent) + 1 /\ Len(control.sent) \in Nat
        /\ \A k \in 1 .. Len(control.sent) : control'.sent[k] = control.sent[k]
    BY <1>2, <2>1, Appended
  <2>3. Taken' = Taken
    BY DEF Taken
  <2>. QED
    BY <2>2, <2>3 DEF Logged
<1>. QED
  BY <1>1, <1>2

\* One command more in the inbox.
LEMMA TalkSent ==
    ASSUME TypeOK, Chain(inbox), Headed, \A i \in DOMAIN inbox : Stamped(inbox[i], control'),
           child' = child, Bounded, ~control.confirmed,
           inbox # <<>> /\ control.start = None => control'.start = None,
           NEW c \in Command, inbox' = Append(inbox, c),
           inbox # <<>> => <<Last(inbox).operation, c.operation>> \in Follow,
           inbox = <<>> =>
              /\ c.operation = "begin" => child.state = "prepared"
              /\ c.operation \in {"samples", "freeze", "stop"} =>
                    child.state = "recording" /\ child.cutoff = None
              /\ c.operation = "settled" =>
                    child.state = "recording" /\ child.cutoff # None
              /\ c.operation = "cancel" => child.state \in {"prepared", "recording"}
              /\ c.operation # "prepare",
           Stamped(c, control')
    PROVE  /\ Chain(inbox') /\ Headed'
           /\ \A i \in DOMAIN inbox' : Stamped(inbox'[i], control')
           /\ inbox' \in Seq(Command) /\ inbox' # <<>> /\ Last(inbox') = c
           /\ Len(inbox') = Len(inbox) + 1
<1>1. inbox \in Seq(Command)
  BY DEF TypeOK
<1>2. Chain(inbox')
  BY <1>1, ChainAppend
<1>3. /\ inbox' \in Seq(Command) /\ inbox' # <<>> /\ Last(inbox') = c
      /\ Len(inbox') = Len(inbox) + 1 /\ Len(inbox) \in Nat
      /\ DOMAIN inbox' = 1 .. (Len(inbox) + 1) /\ DOMAIN inbox = 1 .. Len(inbox)
      /\ \A i \in 1 .. Len(inbox) : inbox'[i] = inbox[i]
      /\ inbox'[Len(inbox) + 1] = c
  BY <1>1, Appended
<1>4. \A i \in DOMAIN inbox' : Stamped(inbox'[i], control')
  <2>. TAKE i \in DOMAIN inbox'
  <2>1. CASE i = Len(inbox) + 1
    BY <1>3, <2>1
  <2>2. CASE i \in DOMAIN inbox
    BY <1>3, <2>2
  <2>. QED
    BY <1>3, <2>1, <2>2
<1>5. Headed'
  <2>1. CASE inbox = <<>>
    <3>1. inbox'[1] = c
      BY <1>3, <2>1
    <3>. QED
      BY <2>1, <3>1 DEF Headed, Bounded
  <2>2. CASE inbox # <<>>
    <3>1. inbox'[1] = inbox[1]
      BY <1>1, <1>3, <2>2, EmptySeq
    <3>. QED
      BY <2>2, <3>1 DEF Headed
  <2>. QED
    BY <2>1, <2>2
<1>. QED
  BY <1>2, <1>3, <1>4, <1>5

\* While the child is running, all parts of the invariant hold.
LEMMA Whole ==
    ASSUME CaptureInv, Running
    PROVE  /\ TypeOK /\ Timely /\ Stepped /\ Talk /\ Content
           /\ Chain(inbox) /\ Headed /\ Linked
           /\ \A i \in DOMAIN inbox : Stamped(inbox[i], control)
           /\ Sampled /\ Logged /\ Bounded /\ Framed /\ Written /\ Exact
           /\ inbox \in Seq(Command) /\ control \in ControlType
           /\ control.sent \in Seq(Times)
BY DEF CaptureInv, Talk, Content, TypeOK, ControlType

\* Before an abort it is.
LEMMA Unaborted ==
    ASSUME CaptureInv, ~abort
    PROVE  /\ TypeOK /\ Timely /\ Stepped /\ Talk /\ Content /\ Running
           /\ Chain(inbox) /\ Headed /\ Linked
           /\ \A i \in DOMAIN inbox : Stamped(inbox[i], control)
           /\ Sampled /\ Logged /\ Bounded /\ Framed /\ Written /\ Exact
           /\ inbox \in Seq(Command) /\ control \in ControlType
           /\ control.sent \in Seq(Times)
<1>1. Running
  BY DEF CaptureInv
<1>. QED
  BY <1>1, Whole

LEMMA PrepareCapture ==
    ASSUME CaptureInv, ~abort, ControlPrepare
    PROVE  CaptureInv'
<1>. DEFINE c == [operation |-> "prepare", at |-> None]
<1>1. /\ inbox = <<>> /\ outbox = <<>> /\ child.state = "idle"
      /\ inbox' = Append(inbox, c) /\ child' = child /\ outbox' = outbox
      /\ c \in Command
  BY Unaborted DEF ControlPrepare, Linked, Send, ControlUnchanged, Command, Time
<1>2. /\ control' \in ControlType
      /\ control'.step = "preparing" /\ control'.start = None /\ control'.cutoff = None
      /\ ~control'.stopSent /\ control'.sent = <<>> /\ ~control'.confirmed
  <2>1. control \in ControlType /\ control.episodes + 1 \in 0 .. MaxEpisodes
    BY Unaborted, BoundsAssumption DEF ControlPrepare, ControlType
  <2>2. None \in Time /\ <<>> \in Seq(Times)
    BY DEF Time
  <2>. QED
    BY <2>1, <2>2 DEF ControlPrepare, ControlType
<1>3. inbox' = <<c>> /\ inbox' \in Seq(Command) /\ Len(inbox') = 1
  BY <1>1
<1>. HIDE DEF c
<1>4. Timely' /\ Stepped'
  BY <1>2 DEF Timely, Stepped, Ascending
<1>5. Chain(inbox') /\ Headed' /\ \A i \in DOMAIN inbox' : Stamped(inbox'[i], control')
  BY <1>1, <1>2, <1>3 DEF Chain, Headed, Stamped, c
<1>6. Linked'
  BY <1>1, <1>2, <1>3 DEF Linked, Asked, c
<1>7. Sampled' /\ Logged' /\ Bounded'
  BY <1>1 DEF Sampled, Logged, Bounded
<1>. QED
  BY <1>1, <1>2, <1>3, <1>4, <1>5, <1>6, <1>7, ControlKeeps DEF ControlPrepare, Talk

\* The first command of the interval names its start.
LEMMA BeginCapture ==
    ASSUME CaptureInv, ~abort, ControlBegin
    PROVE  CaptureInv'
<1>. DEFINE c == [operation |-> "begin", at |-> now]
<1>1. /\ inbox = <<>> /\ outbox = <<>> /\ child.state = "prepared" /\ child.acked
      /\ inbox' = Append(inbox, c) /\ child' = child /\ outbox' = outbox
      /\ now' = now /\ now \in Times /\ now \in Nat /\ now # None
      /\ c \in Command
  BY Unaborted, Numbers
     DEF ControlBegin, Linked, Ready, Send, ControlUnchanged, worldVars, Command,
         Time, TypeOK
<1>2. /\ control.start = None /\ control.cutoff = None /\ ~control.stopSent
      /\ control.sent = <<>> /\ ~control.confirmed
  BY Unaborted DEF ControlBegin, Stepped, Timely
<1>3. /\ control' \in ControlType
      /\ control'.step = "recording" /\ control'.start = now /\ control'.mark = now
      /\ control'.cutoff = None /\ ~control'.stopSent /\ control'.sent = <<>>
      /\ ~control'.confirmed
  BY <1>1, <1>2, Unaborted DEF ControlBegin, ControlType, Time
<1>. HIDE DEF c
<1>4. Timely' /\ Stepped'
  BY <1>1, <1>3 DEF Timely, Stepped, Ascending
<1>5. /\ Chain(inbox') /\ Headed'
      /\ \A i \in DOMAIN inbox' : Stamped(inbox'[i], control')
      /\ inbox' \in Seq(Command) /\ inbox' # <<>> /\ Last(inbox') = c
  BY <1>1, <1>2, <1>3, Unaborted, TalkSent DEF Stamped, c
<1>6. Linked'
  BY <1>1, <1>3, <1>5 DEF Linked, Working, Filling, c
<1>7. Sampled'
  <2>1. Batched(inbox, control.sent, 0)
    BY <1>1, Unaborted DEF Sampled, Taken
  <2>2. Batched(inbox', control'.sent, 0)
    BY <1>1, <1>2, <1>3, <2>1, Unaborted, BatchedOther DEF c
  <2>. QED
    BY <1>1, <2>2 DEF Sampled, Taken
<1>8. Logged' /\ Bounded'
  BY <1>1 DEF Logged, Bounded
<1>. QED
  BY <1>1, <1>3, <1>4, <1>5, <1>6, <1>7, <1>8, ControlKeeps DEF ControlBegin, Talk

\* A batch that is sent is later than those before it.
LEMMA BatchSent ==
    ASSUME CaptureInv, ~abort, NEW t \in Times, child' = child, stored' = stored,
           NEW s, s = Append(inbox, [operation |-> "samples", at |-> t]),
           control'.sent = Append(control.sent, t),
           \A k \in DOMAIN control.sent : control.sent[k] < t
    PROVE  /\ child.state \in {"prepared", "recording"} =>
                 Batched(s, control'.sent, Taken')
           /\ control'.sent \in Seq(Times)
           /\ Ascending(control'.sent)
           /\ \A k \in DOMAIN control'.sent :
                 (k \in DOMAIN control.sent /\ control'.sent[k] = control.sent[k])
                    \/ control'.sent[k] = t
<1>. DEFINE c == [operation |-> "samples", at |-> t]
<1>1. c \in Command /\ c.operation = "samples" /\ c.at = t
  BY DEF Command, Time
<1>2. control.sent \in Seq(Times) /\ inbox \in Seq(Command)
  BY Unaborted
<1>. HIDE DEF c
<1>3. /\ control'.sent \in Seq(Times)
      /\ Len(control'.sent) = Len(control.sent) + 1 /\ Len(control.sent) \in Nat
      /\ DOMAIN control'.sent = 1 .. (Len(control.sent) + 1)
      /\ DOMAIN control.sent = 1 .. Len(control.sent)
      /\ \A k \in 1 .. Len(control.sent) : control'.sent[k] = control.sent[k]
      /\ control'.sent[Len(control.sent) + 1] = t
  BY <1>2, Appended
<1>4. Ascending(control.sent)
  BY Unaborted DEF Timely
<1>5. Ascending(control'.sent)
  <2>. SUFFICES ASSUME NEW j \in DOMAIN control'.sent, NEW k \in DOMAIN control'.sent,
                       j < k
                PROVE  control'.sent[j] < control'.sent[k]
    BY DEF Ascending
  <2>1. j \in DOMAIN control.sent /\ control'.sent[j] = control.sent[j]
    BY <1>3
  <2>2. CASE k = Len(control.sent) + 1
    BY <1>3, <2>1, <2>2
  <2>3. CASE k # Len(control.sent) + 1
    BY <1>3, <1>4, <2>1, <2>3 DEF Ascending
  <2>. QED
    BY <2>2, <2>3
<1>6. ASSUME child.state \in {"prepared", "recording"}
      PROVE  Batched(s, control'.sent, Taken')
  <2>1. Batched(inbox, control.sent, Taken) /\ Taken \in 0 .. Len(control.sent)
    BY <1>3, <1>6, Unaborted DEF Sampled, Logged, Taken
  <2>2. Taken' = Taken
    BY DEF Taken
  <2>. QED
    BY <1>1, <1>2, <2>1, <2>2, BatchedSent DEF c
<1>. QED
  BY <1>3, <1>5, <1>6

LEMMA SamplesCapture ==
    ASSUME CaptureInv, ~abort, ControlSamples
    PROVE  CaptureInv'
<1>. DEFINE c == [operation |-> "samples", at |-> now]
<1>1. /\ inbox' = Append(inbox, c) /\ child' = child /\ outbox' = outbox
      /\ stored' = stored
      /\ now' = now /\ now \in Times /\ now \in Nat /\ now # None
      /\ c \in Command
  BY Unaborted, Numbers
     DEF ControlSamples, Send, ControlUnchanged, worldVars, episodeVars, Command,
         Time, TypeOK
<1>2. /\ control.start # None /\ control.cutoff = None /\ ~control.stopSent
      /\ ~control.confirmed /\ Working
      /\ control.mark < now /\ control.mark # None /\ control.start <= control.mark
      /\ control.mark \in Nat /\ control.start \in Nat
  BY Unaborted, Numbers
     DEF ControlSamples, Stepped, Timely, Linked, TypeOK, ControlType
<1>3. /\ control' \in ControlType
      /\ control'.step = "recording" /\ control'.start = control.start
      /\ control'.mark = now /\ control'.cutoff = None /\ ~control'.stopSent
      /\ ~control'.confirmed /\ control'.sent = Append(control.sent, now)
  <2>1. control \in ControlType /\ control.sent \in Seq(Times)
    BY Unaborted
  <2>2. Append(control.sent, now) \in Seq(Times) /\ now \in Time
    BY <1>1, <2>1, Appended DEF Time
  <2>. QED
    BY <1>2, <2>1, <2>2 DEF ControlSamples, ControlType
<1>4. \A k \in DOMAIN control.sent : control.sent[k] \in Nat /\ control.sent[k] < now
  <2>. TAKE k \in DOMAIN control.sent
  <2>1. control.sent[k] <= control.mark
    BY <1>2, Unaborted DEF Timely, Latest
  <2>2. control.sent[k] \in Nat
    <3>1. control.sent[k] \in Times
      BY Unaborted
    <3>. QED
      BY <3>1, Numbers
  <2>. QED
    BY <1>1, <1>2, <2>1, <2>2
<1>. HIDE DEF c
<1>5. /\ child.state \in {"prepared", "recording"} =>
            Batched(inbox', control'.sent, Taken')
      /\ Ascending(control'.sent)
      /\ \A k \in DOMAIN control'.sent :
            (k \in DOMAIN control.sent /\ control'.sent[k] = control.sent[k])
               \/ control'.sent[k] = now
  BY <1>1, <1>3, <1>4, BatchSent DEF c
<1>6. Timely'
  <2>1. \A k \in DOMAIN control'.sent :
           control'.start < control'.sent[k] /\ control'.sent[k] <= Latest'
    <3>. TAKE k \in DOMAIN control'.sent
    <3>1. CASE k \in DOMAIN control.sent /\ control'.sent[k] = control.sent[k]
      BY <1>1, <1>2, <1>3, <1>4, <3>1, Unaborted DEF Timely, Latest
    <3>2. CASE control'.sent[k] = now
      BY <1>1, <1>2, <1>3, <3>2 DEF Latest
    <3>. QED
      BY <1>5, <3>1, <3>2
  <2>. QED
    BY <1>1, <1>2, <1>3, <1>5, <2>1 DEF Timely
<1>7. Stepped'
  BY <1>2, <1>3 DEF Stepped
<1>8. /\ Chain(inbox') /\ Headed'
      /\ \A i \in DOMAIN inbox' : Stamped(inbox'[i], control')
      /\ inbox' \in Seq(Command) /\ inbox' # <<>> /\ Last(inbox') = c
  <2>1. \A i \in DOMAIN inbox : Stamped(inbox[i], control')
    BY <1>2, <1>3, Unaborted DEF Stamped
  <2>. QED
    BY <1>1, <1>2, <1>3, <2>1, Unaborted, TalkSent
       DEF Stamped, Working, Follow, Filling, c
<1>9. Linked'
  BY <1>1, <1>2, <1>3, <1>8 DEF Linked, Working, Filling, c
<1>10. Sampled' /\ Logged' /\ Bounded'
  <2>1. Sampled'
    BY <1>1, <1>5 DEF Sampled
  <2>2. Logged'
    BY <1>1, <1>3, Unaborted, LoggedKept
  <2>3. Bounded'
    BY <1>1, <1>2, <1>3, Unaborted, BoundedKept
  <2>. QED
    BY <2>1, <2>2, <2>3
<1>11. child.state # "finalizing"
  BY <1>2 DEF Working
<1>. QED
  BY <1>1, <1>3, <1>6, <1>7, <1>8, <1>9, <1>10, <1>11, ControlKeeps
     DEF ControlSamples, Talk

\* The operator's stop is later than everything that was sent.
LEMMA StopCapture ==
    ASSUME CaptureInv, ~abort, ControlStop
    PROVE  CaptureInv'
<1>1. /\ inbox' = inbox /\ child' = child /\ outbox' = outbox /\ stored' = stored
      /\ now' = now /\ now \in Times /\ now \in Nat /\ now # None
  BY Unaborted, Numbers
     DEF ControlStop, ControlUnchanged, worldVars, episodeVars, TypeOK
<1>2. /\ control.start # None /\ control.cutoff = None /\ ~control.stopSent
      /\ ~control.confirmed /\ Working
      /\ control.mark < now
  BY Unaborted DEF ControlStop, Stepped, Timely, Linked
<1>3. /\ control' \in ControlType
      /\ control'.step = "stopping" /\ control'.start = control.start
      /\ control'.mark = control.mark /\ control'.cutoff = now /\ ~control'.stopSent
      /\ ~control'.confirmed /\ control'.sent = control.sent
  BY <1>1, <1>2, Unaborted DEF ControlStop, ControlType, Time
<1>4. Timely' /\ Stepped'
  BY <1>1, <1>2, <1>3, Unaborted DEF Timely, Stepped, Latest
<1>5. Talk'
  <2>1. \A i \in DOMAIN inbox : Stamped(inbox[i], control')
    BY <1>2, <1>3, Unaborted DEF Stamped
  <2>2. Headed'
    BY <1>1, <1>3, Unaborted DEF Headed
  <2>3. Linked'
    BY <1>1, <1>2, <1>3 DEF Linked, Working
  <2>. QED
    BY <1>1, <2>1, <2>2, <2>3, Unaborted DEF Talk
<1>6. Sampled' /\ Logged' /\ Bounded'
  BY <1>1, <1>2, <1>3, Unaborted, LoggedKept, BoundedKept DEF Sampled, Taken
<1>. QED
  BY <1>1, <1>3, <1>4, <1>5, <1>6, Unaborted, ControlKeeps DEF ControlStop

\* A command that is no batch: the same batches are on their way.
LEMMA SampledKept ==
    ASSUME TypeOK, Sampled, Logged, UNCHANGED <<child, stored>>,
           control'.sent = control.sent,
           NEW c \in Command, c.operation # "samples", inbox' = Append(inbox, c)
    PROVE  Sampled'
<1>1. child.state \in {"prepared", "recording"} => Taken \in Nat
  BY DEF Logged, Taken
<1>2. inbox \in Seq(Command)
  BY DEF TypeOK
<1>3. Taken' = Taken
  BY DEF Taken
<1>. QED
  BY <1>1, <1>2, <1>3, BatchedOther DEF Sampled

\* A rejection freezes the interval where it is.
LEMMA RejectCapture ==
    ASSUME CaptureInv, ~abort, ControlReject
    PROVE  CaptureInv'
<1>. DEFINE c == [operation |-> "freeze", at |-> FreezeAt]
<1>1. /\ inbox' = Append(inbox, c) /\ child' = child /\ outbox' = outbox
      /\ stored' = stored
      /\ now' = now /\ now \in Times /\ now \in Nat /\ now # None
  BY Unaborted, Numbers
     DEF ControlReject, Send, ControlUnchanged, worldVars, episodeVars, TypeOK
<1>2. /\ control.start # None /\ ~control.stopSent
      /\ ~control.confirmed /\ Working
      /\ control.mark < now
      /\ control.step = "recording" => control.cutoff = None
  BY Unaborted DEF ControlReject, Stepped, Timely, Linked
<1>3. /\ FreezeAt \in Times /\ FreezeAt # None
      /\ control.cutoff # None => FreezeAt = control.cutoff
      /\ control.cutoff = None => FreezeAt = now
      /\ control.mark < FreezeAt /\ FreezeAt <= now
  BY <1>1, <1>2, Unaborted, Numbers DEF FreezeAt, Timely, ControlType
<1>4. c \in Command
  BY <1>3 DEF Command, Time
<1>5. /\ control' \in ControlType
      /\ control'.step = "review" /\ control'.start = control.start
      /\ control'.mark = control.mark /\ control'.cutoff = FreezeAt
      /\ ~control'.stopSent
      /\ ~control'.confirmed /\ control'.sent = control.sent
  BY <1>1, <1>2, <1>3, Unaborted DEF ControlReject, FreezeAt, ControlType, Time
<1>. HIDE DEF c
<1>6. Timely' /\ Stepped'
  BY <1>1, <1>2, <1>3, <1>5, Unaborted DEF Timely, Stepped, Latest
<1>7. /\ Chain(inbox') /\ Headed'
      /\ \A i \in DOMAIN inbox' : Stamped(inbox'[i], control')
      /\ inbox' \in Seq(Command) /\ inbox' # <<>> /\ Last(inbox') = c
  <2>1. \A i \in DOMAIN inbox : Stamped(inbox[i], control')
    BY <1>2, <1>3, <1>5, Unaborted DEF Stamped
  <2>2. Stamped(c, control')
    BY <1>3, <1>5 DEF Stamped, c
  <2>3. inbox # <<>> => <<Last(inbox).operation, c.operation>> \in Follow
    BY <1>2 DEF Working, Follow, Filling, c
  <2>4. inbox = <<>> => child.state = "recording" /\ child.cutoff = None
    BY <1>2 DEF Working
  <2>. QED
    BY <1>1, <1>2, <1>4, <1>5, <2>1, <2>2, <2>3, <2>4, Unaborted, TalkSent DEF c
<1>8. Linked'
  BY <1>1, <1>2, <1>3, <1>5, <1>7 DEF Linked, Working, Filling, c
<1>9. Sampled' /\ Logged' /\ Bounded'
  <2>1. Sampled'
    BY <1>1, <1>4, <1>5, Unaborted, SampledKept DEF c
  <2>. QED
    BY <1>1, <1>2, <1>3, <1>5, <2>1, Unaborted, LoggedKept, BoundedKept
<1>. QED
  BY <1>1, <1>5, <1>6, <1>7, <1>8, <1>9, ControlKeeps DEF ControlReject, Talk

LEMMA RejectEarlyCapture ==
    ASSUME CaptureInv, ~abort, ControlRejectEarly
    PROVE  CaptureInv'
<1>1. /\ inbox' = inbox /\ child' = child /\ outbox' = outbox /\ stored' = stored
      /\ now' = now
  BY DEF ControlRejectEarly, ControlUnchanged, worldVars, episodeVars
<1>2. control.start = None /\ ~control.confirmed /\ (Asked \/ Ready)
  BY Unaborted DEF ControlRejectEarly, Stepped, Linked
<1>3. /\ control' \in ControlType
      /\ control'.step = "review"
      /\ control' = [control EXCEPT !.step = "review"]
  BY Unaborted DEF ControlRejectEarly, ControlType
<1>4. /\ control'.start = control.start /\ control'.mark = control.mark
      /\ control'.cutoff = control.cutoff /\ control'.stopSent = control.stopSent
      /\ control'.confirmed = control.confirmed /\ control'.sent = control.sent
  BY <1>3, Unaborted DEF ControlType
<1>5. Timely' /\ Stepped'
  BY <1>1, <1>2, <1>3, <1>4, Unaborted DEF Timely, Stepped, Latest
<1>6. Talk'
  <2>1. \A i \in DOMAIN inbox : Stamped(inbox[i], control')
    BY <1>4, Unaborted DEF Stamped
  <2>2. Headed'
    BY <1>1, <1>4, Unaborted DEF Headed
  <2>3. Linked'
    BY <1>1, <1>2, <1>3, <1>4 DEF Linked, Asked, Ready
  <2>. QED
    BY <1>1, <2>1, <2>2, <2>3, Unaborted DEF Talk
<1>7. Sampled' /\ Logged' /\ Bounded'
  BY <1>1, <1>4, Unaborted, LoggedKept, BoundedKept DEF Sampled, Taken
<1>. QED
  BY <1>1, <1>3, <1>4, <1>5, <1>6, <1>7, Unaborted, ControlKeeps
     DEF ControlRejectEarly

\* The end of the interval, with the last batch or without it.
LEMMA TailCapture ==
    ASSUME CaptureInv, ~abort, ControlTail
    PROVE  CaptureInv'
<1>. DEFINE last == [operation |-> "samples", at |-> control.cutoff]
            stop == [operation |-> "stop", at |-> control.cutoff]
<1>1. /\ child' = child /\ outbox' = outbox /\ stored' = stored /\ now' = now
      /\ inbox \in Seq(Command)
  BY Unaborted DEF ControlTail, ControlUnchanged, worldVars, episodeVars
<1>2. /\ control.start # None /\ ~control.stopSent /\ control.cutoff # None
      /\ ~control.confirmed /\ Working
      /\ control.step \in {"stopping", "review"}
  BY Unaborted DEF ControlTail, Stepped, Timely, Linked
<1>3. /\ control.cutoff \in Times /\ control.cutoff \in Nat
      /\ control.mark < control.cutoff /\ control.cutoff <= now
      /\ control.mark \in Nat
      /\ control \in ControlType
  BY <1>2, Unaborted, Numbers DEF ControlType, Timely
<1>4. last \in Command /\ stop \in Command
  BY <1>3 DEF Command, Time
<1>5. ASSUME control' = [control EXCEPT !.stopSent = TRUE,
                           !.sent = control'.sent],
             control'.sent \in Seq(Times)
      PROVE  /\ control' \in ControlType
             /\ control'.step = control.step /\ control'.start = control.start
             /\ control'.mark = control.mark /\ control'.cutoff = control.cutoff
             /\ control'.stopSent /\ control'.confirmed = control.confirmed
  BY <1>3, <1>5 DEF ControlType
<1>6. \A k \in DOMAIN control.sent :
         /\ control.sent[k] \in Nat
         /\ control.start < control.sent[k] /\ control.sent[k] < control.cutoff
  <2>. TAKE k \in DOMAIN control.sent
  <2>1. control.start < control.sent[k] /\ control.sent[k] <= control.mark
    BY <1>2, Unaborted DEF Timely, Latest
  <2>2. control.sent[k] \in Nat
    <3>1. control.sent[k] \in Times
      BY Unaborted
    <3>. QED
      BY <3>1, Numbers
  <2>. QED
    BY <1>3, <2>1, <2>2
<1>7. /\ inbox # <<>> => /\ <<Last(inbox).operation, "samples">> \in Follow
                         /\ <<Last(inbox).operation, "stop">> \in Follow
      /\ inbox = <<>> => child.state = "recording" /\ child.cutoff = None
  BY <1>2 DEF Working, Follow, Filling
<1>8. <<"samples", "stop">> \in Follow
  BY DEF Follow, Filling
<1>. HIDE DEF last, stop
<1>9. ASSUME control' = [control EXCEPT !.stopSent = TRUE,
                           !.sent = control'.sent],
             control'.sent \in Seq(Times),
             Ascending(control'.sent),
             \A k \in DOMAIN control'.sent :
                (k \in DOMAIN control.sent /\ control'.sent[k] = control.sent[k])
                   \/ control'.sent[k] = control.cutoff
      PROVE  Timely' /\ Stepped'
  <2>1. \A k \in DOMAIN control'.sent :
           control'.start < control'.sent[k] /\ control'.sent[k] <= Latest'
    <3>. TAKE k \in DOMAIN control'.sent
    <3>1. CASE k \in DOMAIN control.sent /\ control'.sent[k] = control.sent[k]
      BY <1>3, <1>5, <1>6, <1>9, <3>1 DEF Latest
    <3>2. CASE control'.sent[k] = control.cutoff
      <4>1. control.start < control.cutoff
        <5>1. control.start \in Nat /\ control.start <= control.mark
          BY <1>2, <1>3, Unaborted, Numbers DEF Timely, ControlType
        <5>. QED
          BY <1>3, <5>1
      <4>. QED
        BY <1>3, <1>5, <1>9, <3>2, <4>1 DEF Latest
    <3>. QED
      BY <1>9, <3>1, <3>2
  <2>2. Timely'
    BY <1>1, <1>2, <1>5, <1>9, <2>1, Unaborted DEF Timely
  <2>3. Stepped'
    BY <1>2, <1>5, <1>9 DEF Stepped
  <2>. QED
    BY <2>2, <2>3
<1>10. \A i \in DOMAIN inbox : Stamped(inbox[i], control)
  BY Unaborted
<1>11. CASE /\ inbox' = Append(inbox, stop)
            /\ control' = [control EXCEPT !.stopSent = TRUE]
  <2>1. /\ control'.sent = control.sent
        /\ control' = [control EXCEPT !.stopSent = TRUE, !.sent = control'.sent]
        /\ control'.sent \in Seq(Times)
    BY <1>3, <1>11, Unaborted DEF ControlType
  <2>2. Timely' /\ Stepped'
    BY <1>9, <2>1, Unaborted DEF Timely
  <2>3. /\ Chain(inbox') /\ Headed'
        /\ \A i \in DOMAIN inbox' : Stamped(inbox'[i], control')
        /\ inbox' \in Seq(Command) /\ inbox' # <<>> /\ Last(inbox') = stop
    <3>1. \A i \in DOMAIN inbox : Stamped(inbox[i], control')
      BY <1>5, <1>10, <2>1 DEF Stamped
    <3>2. Stamped(stop, control') /\ stop.operation = "stop"
      BY <1>2, <1>5, <2>1 DEF Stamped, stop
    <3>. QED
      BY <1>1, <1>2, <1>4, <1>5, <1>7, <1>11, <2>1, <3>1, <3>2, Unaborted, TalkSent
  <2>4. Linked'
    BY <1>1, <1>2, <1>5, <2>1, <2>3 DEF Linked, Working, stop
  <2>5. Sampled'
    BY <1>1, <1>4, <1>11, <2>1, Unaborted, SampledKept DEF stop
  <2>6. Logged' /\ Bounded'
    BY <1>1, <1>5, <2>1, Unaborted, LoggedKept, BoundedKept
  <2>. QED
    BY <1>5, <2>1, <2>2, <2>3, <2>4, <2>5, <2>6, ControlKeeps DEF ControlTail, Talk
<1>12. CASE /\ inbox' = inbox \o <<last, stop>>
            /\ control' = [control EXCEPT !.stopSent = TRUE,
                             !.sent = Append(@, control.cutoff)]
  <2>. DEFINE flushed == Append(inbox, last)
  <2>1. /\ control'.sent = Append(control.sent, control.cutoff)
        /\ control' = [control EXCEPT !.stopSent = TRUE, !.sent = control'.sent]
    BY <1>3, <1>12 DEF ControlType
  <2>2. flushed \in Seq(Command) /\ inbox' = Append(flushed, stop)
    BY <1>1, <1>4, <1>12, SentTogether, Appended
  <2>3. /\ child.state \in {"prepared", "recording"} =>
              Batched(flushed, control'.sent, Taken')
        /\ control'.sent \in Seq(Times)
        /\ Ascending(control'.sent)
        /\ \A k \in DOMAIN control'.sent :
              (k \in DOMAIN control.sent /\ control'.sent[k] = control.sent[k])
                 \/ control'.sent[k] = control.cutoff
    BY <1>1, <1>3, <1>6, <2>1, BatchSent DEF last
  <2>4. Timely' /\ Stepped'
    BY <1>9, <2>1, <2>3
  <2>. HIDE DEF flushed
  <2>5. /\ Chain(flushed) /\ flushed # <<>> /\ Last(flushed) = last
        /\ Len(flushed) = Len(inbox) + 1 /\ Len(inbox) \in Nat
        /\ DOMAIN flushed = 1 .. (Len(inbox) + 1) /\ DOMAIN inbox = 1 .. Len(inbox)
        /\ \A i \in 1 .. Len(inbox) : flushed[i] = inbox[i]
        /\ flushed[Len(inbox) + 1] = last
    BY <1>1, <1>4, <1>7, Unaborted, ChainAppend, Appended DEF flushed, last
  <2>6. /\ Chain(inbox') /\ inbox' # <<>> /\ Last(inbox') = stop
        /\ inbox' \in Seq(Command)
        /\ DOMAIN inbox' = 1 .. (Len(flushed) + 1) /\ DOMAIN flushed = 1 .. Len(flushed)
        /\ \A i \in 1 .. Len(flushed) : inbox'[i] = flushed[i]
        /\ inbox'[Len(flushed) + 1] = stop
    BY <1>4, <1>8, <2>2, <2>5, ChainAppend, Appended DEF last, stop
  <2>7. ASSUME NEW i \in DOMAIN inbox' PROVE Stamped(inbox'[i], control')
    <3>1. CASE i \in DOMAIN inbox
      <4>1. inbox'[i] = inbox[i]
        BY <2>5, <2>6, <3>1
      <4>. QED
        BY <1>5, <1>10, <2>1, <2>3, <3>1, <4>1 DEF Stamped
    <3>2. CASE inbox'[i] = last
      BY <3>2 DEF Stamped, last
    <3>3. CASE inbox'[i] = stop
      BY <1>2, <1>5, <2>1, <2>3, <3>3 DEF Stamped, stop
    <3>. QED
      BY <2>5, <2>6, <3>1, <3>2, <3>3
  <2>8. Headed'
    <3>1. CASE inbox = <<>>
      <4>1. inbox'[1] = last
        BY <2>5, <2>6, <3>1
      <4>. QED
        BY <1>1, <1>2, <1>7, <3>1, <4>1, Unaborted DEF Headed, Bounded, last
    <3>2. CASE inbox # <<>>
      <4>1. inbox'[1] = inbox[1]
        BY <1>1, <2>5, <2>6, <3>2, EmptySeq
      <4>. QED
        BY <1>1, <1>2, <3>2, <4>1, Unaborted DEF Headed
    <3>. QED
      BY <3>1, <3>2
  <2>9. Linked'
    BY <1>1, <1>2, <1>5, <2>1, <2>3, <2>6 DEF Linked, Working, stop
  <2>10. Sampled'
    <3>1. child.state \in {"prepared", "recording"} => Taken' \in Nat
      BY <1>1, Unaborted DEF Logged, Taken
    <3>. QED
      BY <1>1, <1>4, <2>2, <2>3, <3>1, BatchedOther DEF Sampled, stop
  <2>11. Logged' /\ Bounded'
    BY <1>1, <1>3, <1>5, <2>1, <2>3, Unaborted, LoggedKept, BoundedKept
  <2>12. child.state # "finalizing"
    BY <1>2 DEF Working
  <2>. QED
    BY <1>5, <2>1, <2>3, <2>4, <2>6, <2>7, <2>8, <2>9, <2>10, <2>11, <2>12,
       ControlKeeps DEF ControlTail, Talk
<1>. QED
  BY <1>11, <1>12 DEF ControlTail, last, stop

LEMMA SettledCapture ==
    ASSUME CaptureInv, ~abort, ControlSettled
    PROVE  CaptureInv'
<1>. DEFINE c == [operation |-> "settled", at |-> None]
<1>1. /\ inbox' = Append(inbox, c) /\ child' = child /\ outbox' = outbox
      /\ stored' = stored /\ now' = now
      /\ c \in Command
  BY DEF ControlSettled, Send, ControlUnchanged, worldVars, episodeVars, Command, Time
<1>2. /\ control.stopSent /\ control.start # None /\ Working /\ ~control.confirmed
  BY Unaborted DEF ControlSettled, Stepped, Timely, Linked
<1>3. /\ control' \in ControlType
      /\ control'.step = "sealing" /\ control'.start = control.start
      /\ control'.mark = control.mark /\ control'.cutoff = control.cutoff
      /\ control'.stopSent = control.stopSent
      /\ control'.confirmed /\ control'.sent = control.sent
  BY Unaborted DEF ControlSettled, ControlType
<1>. HIDE DEF c
<1>4. Timely' /\ Stepped'
  BY <1>1, <1>2, <1>3, Unaborted DEF Timely, Stepped, Latest
<1>5. /\ Chain(inbox') /\ Headed'
      /\ \A i \in DOMAIN inbox' : Stamped(inbox'[i], control')
      /\ inbox' \in Seq(Command) /\ inbox' # <<>> /\ Last(inbox') = c
  <2>1. \A i \in DOMAIN inbox : Stamped(inbox[i], control')
    BY <1>3, Unaborted DEF Stamped
  <2>2. Stamped(c, control') /\ c.operation = "settled"
    BY <1>3 DEF Stamped, c
  <2>3. inbox # <<>> => <<Last(inbox).operation, c.operation>> \in Follow
    BY <1>2, <2>2 DEF Working, Follow
  <2>4. inbox = <<>> => child.state = "recording" /\ child.cutoff # None
    BY <1>2 DEF Working
  <2>. QED
    BY <1>1, <1>2, <1>3, <2>1, <2>2, <2>3, <2>4, Unaborted, TalkSent
<1>6. Linked'
  BY <1>1, <1>2, <1>3, <1>5 DEF Linked, Working, Sealing, c
<1>7. Sampled' /\ Logged' /\ Bounded'
  <2>1. Sampled'
    BY <1>1, <1>3, Unaborted, SampledKept DEF c
  <2>. QED
    BY <1>1, <1>3, <2>1, Unaborted, LoggedKept, BoundedKept
<1>. QED
  BY <1>1, <1>3, <1>4, <1>5, <1>6, <1>7, ControlKeeps DEF ControlSettled, Talk

LEMMA CancelCapture ==
    ASSUME CaptureInv, ~abort, ControlCancel
    PROVE  CaptureInv'
<1>. DEFINE c == [operation |-> "cancel", at |-> None]
<1>1. /\ inbox' = Append(inbox, c) /\ child' = child /\ outbox' = outbox
      /\ stored' = stored /\ now' = now
      /\ c \in Command
  BY DEF ControlCancel, Send, ControlUnchanged, worldVars, episodeVars, Command, Time
<1>2. /\ IF control.start = None THEN Asked \/ Ready ELSE Working
      /\ ~control.confirmed
  BY Unaborted DEF ControlCancel, Stepped, Linked
<1>3. /\ control' \in ControlType
      /\ control'.step = "cancelling" /\ control'.start = control.start
      /\ control'.mark = control.mark /\ control'.cutoff = control.cutoff
      /\ control'.stopSent = control.stopSent
      /\ control'.confirmed = control.confirmed /\ control'.sent = control.sent
  BY Unaborted DEF ControlCancel, ControlType
<1>. HIDE DEF c
<1>4. Timely' /\ Stepped'
  BY <1>1, <1>3, Unaborted DEF Timely, Stepped, Latest
<1>5. /\ Chain(inbox') /\ Headed'
      /\ \A i \in DOMAIN inbox' : Stamped(inbox'[i], control')
      /\ inbox' \in Seq(Command) /\ inbox' # <<>> /\ Last(inbox') = c
  <2>1. \A i \in DOMAIN inbox : Stamped(inbox[i], control')
    BY <1>3, Unaborted DEF Stamped
  <2>2. Stamped(c, control') /\ c.operation = "cancel"
    BY DEF Stamped, c
  <2>3. inbox # <<>> => <<Last(inbox).operation, c.operation>> \in Follow
    BY <1>2, <2>2 DEF Asked, Ready, Working, Follow, Filling, Last
  <2>4. inbox = <<>> => child.state \in {"prepared", "recording"}
    <3>1. inbox = <<>> => Len(inbox) # 1
      OBVIOUS
    <3>. QED
      BY <1>2, <3>1 DEF Asked, Ready, Working
  <2>. QED
    BY <1>1, <1>2, <1>3, <2>1, <2>2, <2>3, <2>4, Unaborted, TalkSent
<1>6. Linked'
  <2>1. Cancelling'
    <3>1. \/ outbox = <<>>
          \/ outbox = <<"prepare">> /\ child.acked /\ child.state # "idle"
      BY <1>2 DEF Asked, Ready, Working
    <3>. QED
      BY <1>1, <1>5, <3>1 DEF Cancelling, c
  <2>. QED
    BY <1>3, <2>1 DEF Linked
<1>7. Sampled' /\ Logged' /\ Bounded'
  <2>1. Sampled'
    BY <1>1, <1>3, Unaborted, SampledKept DEF c
  <2>. QED
    BY <1>1, <1>3, <2>1, Unaborted, LoggedKept, BoundedKept
<1>. QED
  BY <1>1, <1>3, <1>4, <1>5, <1>6, <1>7, ControlKeeps DEF ControlCancel, Talk

\* A reply, or the end of control, moves nothing but its step.
LEMMA OnlyStep ==
    ASSUME CaptureInv, NEW step, step \in {"idle", "engaging", "gone", control.step},
           control' = [control EXCEPT !.step = step],
           step = "engaging" => control.step \in {"preparing", "engaging"},
           UNCHANGED <<worldVars, inbox, pc, child, writerVars, episodeVars, refused>>,
           outbox' \in Seq({"prepare", "complete", "cancelled"}),
           abort' \in BOOLEAN, Running, Linked'
    PROVE  CaptureInv'
<1>. USE DEF CaptureInv
<1>1. UNCHANGED <<now, arriving, stamped, child, writer, final,
                  pending, stored, read, early, refused>>
  BY DEF worldVars, writerVars, episodeVars
<1>2. /\ control' \in ControlType /\ control'.step = step
      /\ control'.start = control.start
      /\ control'.mark = control.mark /\ control'.cutoff = control.cutoff
      /\ control'.stopSent = control.stopSent
      /\ control'.confirmed = control.confirmed /\ control'.sent = control.sent
  BY DEF TypeOK, ControlType
<1>3. TypeOK'
  BY <1>1, <1>2 DEF TypeOK
<1>4. Timely' /\ Stepped'
  BY <1>1, <1>2 DEF Timely, Stepped, Latest
<1>5. Running' <=> Running
  BY <1>1 DEF Running
<1>6. Talk' /\ Content'
  <2>1. \A i \in DOMAIN inbox : Stamped(inbox[i], control')
    BY <1>2 DEF Talk, Stamped
  <2>2. Headed'
    BY <1>1, <1>2 DEF Talk, Headed
  <2>3. Sampled' /\ Logged'
    BY <1>1, <1>2 DEF Content, Sampled, Logged, Taken
  <2>4. Bounded' /\ Framed' /\ Written'
    BY <1>1, <1>2 DEF Content, Bounded, Framed, Written
  <2>5. Exact'
    BY <1>1, <1>2 DEF Content, Exact, Sealed
  <2>. QED
    BY <1>1, <2>1, <2>2, <2>3, <2>4, <2>5 DEF Talk, Content
<1>. QED
  BY <1>1, <1>3, <1>4, <1>5, <1>6

LEMMA ReplyCapture ==
    ASSUME CaptureInv, ~abort, ControlReply
    PROVE  CaptureInv'
<1>. DEFINE step ==
         CASE Head(outbox) = "prepare" /\ control.step = "preparing" -> "engaging"
           [] Head(outbox) \in {"complete", "cancelled"} -> "idle"
           [] OTHER -> control.step
<1>1. /\ control.step # "gone" /\ outbox # <<>> /\ outbox' = Tail(outbox)
      /\ control' = [control EXCEPT !.step = step]
      /\ UNCHANGED <<worldVars, inbox, abort, pc, child, writerVars, episodeVars,
                     refused>>
  BY DEF ControlReply, Alive
<1>2. outbox \in Seq({"prepare", "complete", "cancelled"}) /\ abort \in BOOLEAN
  BY Unaborted DEF TypeOK
<1>3. /\ outbox' \in Seq({"prepare", "complete", "cancelled"})
      /\ Head(outbox) \in {"prepare", "complete", "cancelled"}
  BY <1>1, <1>2, HeadTailProperties
<1>4. /\ step \in {"idle", "engaging", "gone", control.step}
      /\ step = "engaging" => control.step \in {"preparing", "engaging"}
      /\ step = "idle" =>
            Head(outbox) \in {"complete", "cancelled"} \/ control.step = "idle"
      /\ step # "idle" => Head(outbox) = "prepare"
      /\ Head(outbox) = "prepare" /\ control.step = "preparing" => step = "engaging"
      /\ Head(outbox) = "prepare" /\ control.step # "preparing" => step = control.step
  BY <1>3
<1>5. /\ control'.step = step /\ control'.start = control.start
      /\ control'.cutoff = control.cutoff /\ control'.stopSent = control.stopSent
      /\ control'.confirmed = control.confirmed
  BY <1>1, Unaborted DEF ControlType
<1>6. UNCHANGED <<inbox, child>> /\ outbox' = Tail(outbox)
  BY <1>1
<1>. HIDE DEF step
<1>7. outbox = <<"prepare">> => Head(outbox) = "prepare" /\ outbox' = <<>>
  BY <1>6
<1>8. outbox \in {<<"complete">>, <<"cancelled">>} =>
         Head(outbox) \in {"complete", "cancelled"} /\ outbox' = <<>>
  BY <1>6
<1>9. outbox = <<"prepare", "cancelled">> =>
         Head(outbox) = "prepare" /\ outbox' = <<"cancelled">>
  BY <1>6
<1>10. Linked'
  <2>. USE DEF Linked
  <2>1. control.step \in {"preparing", "review", "sealing", "cancelling"}
    BY <1>1, Unaborted DEF Ready, Working, ControlType
  <2>2. CASE control.step = "preparing"
    <3>1. Asked /\ outbox = <<"prepare">>
      BY <1>1, <2>2, Unaborted DEF Asked
    <3>. QED
      BY <1>4, <1>5, <1>6, <1>7, <2>2, <3>1 DEF Asked, Ready
  <2>3. CASE control.step = "review"
    <3>1. control.start = None /\ Asked /\ outbox = <<"prepare">>
      BY <1>1, <2>3, Unaborted DEF Asked, Ready, Working
    <3>. QED
      BY <1>4, <1>5, <1>6, <1>7, <2>3, <3>1 DEF Asked, Ready
  <2>4. CASE control.step = "sealing"
    <3>1. outbox = <<"complete">> /\ child.state = "idle" /\ inbox = <<>>
      BY <1>1, <2>4, Unaborted DEF Sealing
    <3>. QED
      BY <1>4, <1>5, <1>6, <1>8, <2>4, <3>1
  <2>5. CASE control.step = "cancelling"
    <3>1. CASE outbox = <<"prepare">>
      BY <1>4, <1>5, <1>6, <1>7, <2>5, <3>1, Unaborted DEF Cancelling
    <3>2. CASE outbox = <<"cancelled">>
      BY <1>4, <1>5, <1>6, <1>8, <2>5, <3>2, Unaborted DEF Cancelling
    <3>3. CASE outbox = <<"prepare", "cancelled">>
      BY <1>4, <1>5, <1>6, <1>9, <2>5, <3>3, Unaborted DEF Cancelling
    <3>. QED
      BY <1>1, <2>5, <3>1, <3>2, <3>3, Unaborted DEF Cancelling
  <2>. QED
    BY <2>1, <2>2, <2>3, <2>4, <2>5
<1>. QED
  BY <1>1, <1>2, <1>3, <1>4, <1>10, Unaborted, OnlyStep

LEMMA GoneCapture ==
    ASSUME CaptureInv, ~abort, ControlGone
    PROVE  CaptureInv'
<1>1. /\ control' = [control EXCEPT !.step = "gone"]
      /\ UNCHANGED <<worldVars, inbox, pc, child, writerVars, episodeVars, refused>>
      /\ outbox' = outbox /\ abort' \in BOOLEAN
  BY DEF ControlGone
<1>2. outbox' \in Seq({"prepare", "complete", "cancelled"})
  BY <1>1, Unaborted DEF TypeOK
<1>3. control'.step = "gone"
  BY <1>1, Unaborted DEF ControlType
<1>4. Linked'
  BY <1>3 DEF Linked
<1>. QED
  BY <1>1, <1>2, <1>4, Unaborted, OnlyStep

\* Every step of control.
LEMMA ControlCapture ==
    ASSUME CaptureInv, ~abort, Control
    PROVE  CaptureInv'
BY PrepareCapture, BeginCapture, SamplesCapture, StopCapture, RejectCapture,
   RejectEarlyCapture, TailCapture, SettledCapture, CancelCapture, ReplyCapture,
   GoneCapture DEF Control

-----------------------------------------------------------------------------
(* The world and the threads of the writer.                                *)

LEMMA WorldCapture ==
    ASSUME CaptureInv, ~abort, Tick \/ FrameArrives
    PROVE  CaptureInv'
<1>. USE DEF CaptureInv
<1>1. /\ UNCHANGED <<control, outbox, inbox, abort, pc, child, writer, final,
                     pending, stored, read, early, refused>>
      /\ now' \in Times /\ now \in Times /\ now <= now'
      /\ arriving' \subseteq stamped' /\ stamped' \subseteq Times
      /\ stamped \subseteq stamped'
  <2>1. /\ now \in Times /\ now \in Nat /\ MaxTime \in Nat
        /\ arriving \subseteq stamped /\ stamped \subseteq Times
    BY Numbers DEF TypeOK
  <2>2. CASE Tick
    <3>1. now + 1 \in Times
      BY <2>1, <2>2 DEF Tick, Times
    <3>. QED
      BY <2>1, <2>2, <3>1 DEF Tick, controlVars, writerVars, episodeVars
  <2>3. CASE FrameArrives
    BY <2>1, <2>3 DEF FrameArrives, controlVars, writerVars, episodeVars
  <2>. QED
    BY <2>2, <2>3
<1>2. TypeOK'
  BY <1>1 DEF TypeOK
<1>3. Timely'
  <2>1. now \in Nat /\ now' \in Nat
    BY <1>1, Numbers
  <2>2. /\ control.start # None => control.mark \in Nat
        /\ control.cutoff # None => control.cutoff \in Nat
    BY Numbers DEF TypeOK, ControlType, Timely
  <2>. QED
    BY <1>1, <2>1, <2>2 DEF Timely, Latest
<1>4. Stepped'
  BY <1>1 DEF Stepped
<1>5. Talk' /\ Content'
  <2>1. Talk /\ Content
    BY DEF Running
  <2>. QED
    BY <1>1, <2>1, TalkStable, ContentStable
<1>. QED
  BY <1>1, <1>2, <1>3, <1>4, <1>5 DEF Running

\* The threads end or commit a writer; they begin nothing.
LEMMA WriterCapture ==
    ASSUME CaptureInv, ~abort, Writer
    PROVE  CaptureInv'
<1>. USE DEF CaptureInv
<1>1. UNCHANGED <<now, arriving, stamped, control, outbox, inbox, abort, pc, child,
                  pending, stored, read, early, refused>>
  BY DEF Writer, Works, WriterOpens, WriterFails, WriterStops, WriterCommits,
         FinishStarts, FinishReturns, WriterUnchanged, worldVars, controlVars,
         episodeVars
<1>2. writer \in WriterType /\ writer' \in WriterType
  <2>1. writer \in WriterType
    BY DEF TypeOK
  <2>2. CASE WriterOpens \/ WriterStops
    BY <2>1, <2>2 DEF WriterOpens, WriterStops, WriterType
  <2>3. CASE WriterFails
    BY <2>1, <2>3 DEF WriterFails, WriterType
  <2>6. CASE WriterCommits
    BY <2>1, <2>6 DEF WriterCommits, WriterType
  <2>4. CASE FinishStarts
    BY <2>1, <2>4 DEF FinishStarts, WriterType
  <2>5. CASE FinishReturns
    BY <2>1, <2>5 DEF FinishReturns, WriterType
  <2>. QED
    BY <2>2, <2>3, <2>4, <2>5, <2>6 DEF Writer, Works
<1>3. final' \in {None, "called", "waiting", "result", "exception"}
  BY DEF TypeOK, Writer, Works, WriterOpens, WriterFails, WriterStops, WriterCommits,
         FinishStarts, FinishReturns
<1>4. TypeOK'
  BY <1>1, <1>2, <1>3 DEF TypeOK
<1>5. Written' /\ (child.state = "idle" => writer' = writer)
  <2>. USE DEF Written, WriterType
  <2>0. Written /\ Running
    BY Unaborted
  <2>1. CASE WriterOpens
    BY <1>1, <1>2, <2>0, <2>1 DEF WriterOpens
  <2>2. CASE WriterFails
    BY <1>1, <1>2, <2>0, <2>2 DEF WriterFails
  <2>3. CASE WriterStops
    BY <1>1, <1>2, <2>0, <2>3 DEF WriterStops
  <2>4. CASE WriterCommits
    BY <1>1, <1>2, <2>0, <2>4 DEF WriterCommits
  <2>5. CASE FinishStarts
    BY <1>1, <1>2, <2>0, <2>5, Numbers DEF FinishStarts
  <2>6. CASE FinishReturns
    BY <1>1, <1>2, <2>0, <2>6, Numbers DEF FinishReturns
  <2>. QED
    BY <2>1, <2>2, <2>3, <2>4, <2>5, <2>6 DEF Writer, Works
<1>6. Timely' /\ Stepped'
  BY <1>1 DEF Timely, Stepped, Latest
<1>7. Talk'
  BY <1>1, TalkStable
<1>8. Content'
  BY <1>1, <1>5
     DEF Content, Sampled, Logged, Taken, Bounded, Framed, Exact, Sealed, Running
<1>. QED
  BY <1>1, <1>4, <1>6, <1>7, <1>8 DEF Running

-----------------------------------------------------------------------------
(* The child: giving up.                                                   *)

LEMMA RevokedWriter ==
    ASSUME writer \in WriterType
    PROVE  /\ Revoked \in WriterType
           /\ Revoked.verdict \notin {"opening", "open", "closing"}
           /\ Revoked.done = writer.done
           /\ writer.verdict \notin {"opening", "open", "closing"} => Revoked = writer
           /\ writer.verdict # "committed" => Revoked.verdict # "committed"
           /\ writer.verdict \in {"opening", "open", "closing"} =>
                 Revoked.verdict = "aborted"
BY DEF Revoked, WriterType

\* A child that is not running any more promises nothing.
LEMMA EndsCapture ==
    ASSUME CaptureInv, abort' \in BOOLEAN, refused' = refused,
           NEW state \in {"failed", "closed"},
           child' = [child EXCEPT !.state = state],
           abort', writer' = Revoked,
           UNCHANGED <<now, stamped, control, outbox, pc, final, pending, stored,
                       read, early>>,
           arriving' \subseteq arriving, inbox' = inbox
    PROVE  CaptureInv'
<1>. USE DEF CaptureInv
<1>1. TypeOK'
  BY RevokedWriter DEF TypeOK, ChildType
<1>2. Timely' /\ Stepped'
  BY DEF Timely, Stepped, Latest
<1>3. ~Running'
  BY DEF Running, TypeOK, ChildType
<1>. QED
  BY <1>1, <1>2, <1>3

LEMMA FailCapture ==
    ASSUME CaptureInv, ~abort,
           StepFails \/ SourceFails \/ PollFails \/ HeartbeatLost
    PROVE  CaptureInv'
<1>1. /\ Fails
      /\ UNCHANGED <<now, stamped, control, outbox, pc, final, pending, stored,
                     read, early, inbox, refused>>
      /\ arriving' \subseteq arriving
  BY DEF StepFails, SourceFails, PollFails, HeartbeatLost, worldVars, controlVars,
         episodeVars
<1>. QED
  BY <1>1, EndsCapture DEF Fails

LEMMA ClosesCapture ==
    ASSUME CaptureInv, ChildCloses
    PROVE  CaptureInv'
<1>1. /\ child' = [child EXCEPT !.state = "closed"]
      /\ abort /\ writer' = Revoked
      /\ UNCHANGED <<now, arriving, stamped, control, outbox, pc, final, pending,
                     stored, read, early, inbox, refused, abort>>
  BY DEF ChildCloses, worldVars, controlVars, episodeVars
<1>. QED
  BY <1>1, EndsCapture

-----------------------------------------------------------------------------
(* The child: taking a command.                                            *)

\* How far the log has got, within the interval that control keeps.
LEMMA ChildTimes ==
    ASSUME CaptureInv, child.state = "recording", child.cutoff = None
    PROVE  /\ child.start \in Nat /\ child.watermark \in Nat
           /\ child.start <= child.watermark
           /\ control.cutoff # None =>
                 control.cutoff \in Nat /\ child.watermark <= control.cutoff
           /\ \A k \in DOMAIN control.sent :
                 /\ control.sent[k] \in Times
                 /\ k > Taken => child.watermark < control.sent[k]
                 /\ control.cutoff # None => control.sent[k] <= control.cutoff
<1>0. Running
  BY DEF Running
<1>1. /\ child.start = control.start /\ control.start # None
      /\ Taken \in 0 .. Len(control.sent)
      /\ child.watermark = IF Taken = 0 THEN child.start ELSE control.sent[Taken]
  BY <1>0, Whole DEF Bounded, Logged
<1>2. /\ control.start \in Nat /\ control.mark \in Nat
      /\ control.start <= control.mark
      /\ control.cutoff # None =>
            control.cutoff \in Nat /\ control.mark < control.cutoff
  BY <1>1, <1>0, Whole, Numbers DEF Timely, ControlType
<1>3. /\ DOMAIN control.sent = 1 .. Len(control.sent) /\ Len(control.sent) \in Nat
      /\ \A k \in DOMAIN control.sent : control.sent[k] \in Times
  BY <1>0, Whole, LenProperties
<1>4. \A k \in DOMAIN control.sent :
         /\ control.sent[k] \in Nat /\ control.start < control.sent[k]
         /\ control.cutoff # None => control.sent[k] <= control.cutoff
  <2>. TAKE k \in DOMAIN control.sent
  <2>1. control.sent[k] \in Nat
    BY <1>3, Numbers
  <2>2. control.start < control.sent[k] /\ control.sent[k] <= Latest
    BY <1>0, Whole DEF Timely
  <2>3. control.cutoff # None => Latest \in Nat /\ Latest <= control.cutoff
    BY <1>2 DEF Latest
  <2>. QED
    BY <1>2, <2>1, <2>2, <2>3
<1>5. \A k \in DOMAIN control.sent : k > Taken => child.watermark < control.sent[k]
  <2>. TAKE k \in DOMAIN control.sent
  <2>1. CASE Taken = 0
    BY <1>1, <1>4, <2>1
  <2>2. CASE Taken # 0
    BY <1>1, <1>3, <2>2, <1>0, Whole DEF Timely, Ascending
  <2>. QED
    BY <2>1, <2>2
<1>6. Taken # 0 => Taken \in DOMAIN control.sent
  BY <1>1, <1>3
<1>. QED
  BY <1>1, <1>2, <1>3, <1>4, <1>5, <1>6

\* The next batch is one that control sent and the log has not got.
LEMMA NextBatch ==
    ASSUME CaptureInv, ~abort, inbox # <<>>, inbox[1].operation = "samples"
    PROVE  /\ Taken + 1 \in DOMAIN control.sent
           /\ inbox[1].at = control.sent[Taken + 1]
           /\ Batched(Tail(inbox), control.sent, Taken + 1)
<1>1. child.state = "recording"
  BY Unaborted DEF Headed
<1>2. Taken \in 0 .. Len(control.sent) /\ Batched(inbox, control.sent, Taken)
  BY <1>1, Unaborted DEF Logged, Sampled
<1>. QED
  BY <1>2, Unaborted, BatchedTail DEF Timely

\* No command that control sends is refused.
LEMMA HeadFits ==
    ASSUME CaptureInv, ~abort, inbox # <<>>
    PROVE  /\ Fits(inbox[1]) /\ inbox[1] \in Command
           /\ inbox[1].operation \in {"begin", "samples", "freeze", "stop"} =>
                 inbox[1].at \in Times /\ inbox[1].at \in Nat /\ inbox[1].at # None
<1>. DEFINE c == inbox[1]
<1>1. /\ c \in Command /\ Stamped(c, control)
  BY Unaborted, Shortened
<1>. HIDE DEF c
<1>2. /\ c.operation \in {"prepare", "begin", "samples", "freeze", "stop", "settled",
                          "cancel"}
      /\ c.at \in Time
  BY <1>1 DEF Command
<1>3. ASSUME c.operation = "samples"
      PROVE  Fits(c) /\ c.at \in Times
  <2>1. child.state = "recording" /\ child.cutoff = None
    BY <1>3, Unaborted DEF Headed, c
  <2>2. Taken + 1 \in DOMAIN control.sent /\ c.at = control.sent[Taken + 1]
    BY <1>3, NextBatch DEF c
  <2>3. Taken + 1 > Taken
    BY <2>1, Unaborted DEF Logged
  <2>4. child.boundary \in {None, control.cutoff}
    BY <2>1, Unaborted DEF Bounded
  <2>5. /\ c.at \in Times /\ child.watermark < c.at
        /\ control.cutoff # None => c.at <= control.cutoff
    BY <2>1, <2>2, <2>3, ChildTimes
  <2>6. c.at > child.watermark
    BY <2>1, <2>5, ChildTimes, Numbers
  <2>7. child.boundary = None \/ c.at <= child.boundary
    BY <2>4, <2>5
  <2>. QED
    BY <1>3, <2>1, <2>5, <2>6, <2>7 DEF Fits
<1>4. ASSUME c.operation \in {"freeze", "stop"}
      PROVE  Fits(c) /\ c.at # None
  <2>1. child.state = "recording" /\ child.cutoff = None
    BY <1>4, Unaborted DEF Headed, c
  <2>2. c.at = control.cutoff /\ control.cutoff # None
    BY <1>1, <1>4 DEF Stamped
  <2>3. c.at >= child.watermark
    BY <2>1, <2>2, ChildTimes
  <2>4. child.boundary \in {None, c.at}
    BY <2>1, <2>2, Unaborted DEF Bounded
  <2>. QED
    BY <1>4, <2>1, <2>2, <2>3, <2>4 DEF Fits
<1>5. ASSUME c.operation \in {"prepare", "begin", "settled", "cancel"}
      PROVE  Fits(c)
  BY <1>5, Unaborted DEF Fits, Headed, c
<1>6. c.operation = "begin" => c.at # None
  BY <1>1 DEF Stamped
<1>. QED
  BY <1>1, <1>2, <1>3, <1>4, <1>5, <1>6, Numbers DEF c

\* Nothing comes behind a cancellation or a confirmation.
LEMMA ChainEnds ==
    ASSUME NEW s \in Seq(Command), s # <<>>, Chain(s),
           s[1].operation \in {"cancel", "settled"}
    PROVE  Tail(s) = <<>>
BY ChainTail DEF Follow, Filling

\* What taking the next command does, and what is left behind it.
LEMMA HeadTaken ==
    ASSUME CaptureInv, ~abort, TakeCommand
    PROVE  LET c == inbox[1] IN
           /\ inbox # <<>> /\ inbox' = Tail(inbox) /\ c \in Command
           /\ inbox' \in Seq(Command) /\ Chain(inbox')
           /\ Stamped(c, control)
           /\ \A i \in DOMAIN inbox' : Stamped(inbox'[i], control)
           /\ inbox' # <<>> => /\ Last(inbox') = Last(inbox)
                               /\ <<c.operation, inbox'[1].operation>> \in Follow
           /\ inbox' = <<>> => Last(inbox) = c
           /\ child' = AfterCommand(c) /\ writer' = WriterAfter(c)
           /\ stored' = StoredAfter(c)
           /\ pending' = IF c.operation \in {"begin", "cancel"} THEN {} ELSE pending
           /\ read' = IF c.operation = "prepare" THEN {} ELSE read
           /\ early' = IF c.operation = "prepare" THEN {} ELSE early
           /\ UNCHANGED <<now, arriving, stamped, control, outbox, abort, pc, final,
                          refused>>
<1>. DEFINE c == inbox[1]
<1>1. inbox # <<>> /\ inbox' = Tail(inbox)
  BY DEF TakeCommand
<1>2. /\ inbox' \in Seq(Command)
      /\ DOMAIN inbox' = 1 .. (Len(inbox) - 1) /\ DOMAIN inbox = 1 .. Len(inbox)
      /\ Len(inbox) \in Nat /\ Len(inbox) > 0 /\ Len(inbox') = Len(inbox) - 1
      /\ \A i \in 1 .. (Len(inbox) - 1) : inbox'[i] = inbox[i + 1]
      /\ Head(inbox) = c /\ c \in Command
      /\ inbox' # <<>> => Last(inbox') = Last(inbox)
  BY <1>1, Unaborted, Shortened
<1>3. /\ Chain(inbox')
      /\ inbox' # <<>> => <<c.operation, inbox'[1].operation>> \in Follow
  BY <1>1, Unaborted, ChainTail
<1>4. /\ Stamped(c, control)
      /\ \A i \in DOMAIN inbox' : Stamped(inbox'[i], control)
  <2>1. 1 \in DOMAIN inbox /\ \A i \in DOMAIN inbox' : i + 1 \in DOMAIN inbox
    BY <1>2
  <2>. QED
    BY <1>2, <2>1, Unaborted
<1>5. inbox' = <<>> => Last(inbox) = c
  <2>1. inbox' = <<>> => Len(inbox') = 0
    OBVIOUS
  <2>2. Len(inbox) \in Nat /\ Len(inbox') = Len(inbox) - 1
    BY <1>2
  <2>3. inbox' = <<>> => Len(inbox) = 1
    BY <2>1, <2>2
  <2>. QED
    BY <2>3 DEF Last
<1>6. Fits(Head(inbox))
  BY <1>1, <1>2, HeadFits
<1>. QED
  BY <1>1, <1>2, <1>3, <1>4, <1>5, <1>6 DEF TakeCommand, worldVars, controlVars

\* The child follows the command it takes.
LEMMA AfterHead ==
    ASSUME CaptureInv, ~abort, TakeCommand
    PROVE  LET c == inbox[1] IN
           /\ child' \in ChildType /\ writer' \in WriterType
           /\ c.operation = "prepare" => child'.state = "prepared" /\ ~child'.acked
           /\ c.operation # "prepare" => child'.acked = child.acked
           /\ c.operation = "begin" =>
                 /\ child'.state = "recording" /\ child'.start = c.at
                 /\ child'.watermark = c.at /\ child'.cutoff = None
                 /\ child'.boundary = None /\ ~child'.settled
           /\ c.operation \in {"samples", "freeze", "stop", "settled"} =>
                 /\ child'.state = child.state /\ child'.start = child.start
                 /\ child'.watermark = IF c.operation \in {"samples", "stop"}
                                       THEN c.at ELSE child.watermark
                 /\ child'.cutoff = IF c.operation = "stop" THEN c.at ELSE child.cutoff
                 /\ child'.boundary = IF c.operation \in {"freeze", "stop"}
                                      THEN c.at ELSE child.boundary
                 /\ child'.settled = IF c.operation = "settled"
                                     THEN TRUE ELSE child.settled
           /\ c.operation = "cancel" => child'.state = "cancelling"
<1>. DEFINE c == inbox[1]
<1>1. /\ child' = AfterCommand(c) /\ writer' = WriterAfter(c) /\ c \in Command
      /\ inbox # <<>>
  BY HeadTaken
<1>2. /\ child \in ChildType /\ writer \in WriterType /\ c.at \in Time
      /\ c.operation \in {"prepare", "begin", "samples", "freeze", "stop", "settled",
                          "cancel"}
  BY <1>1, Unaborted DEF TypeOK, Command
<1>3. c.operation \in {"begin", "samples", "freeze", "stop"} => c.at \in Times
  BY <1>1, HeadFits
<1>4. None \in Time
  BY DEF Time
<1>5. writer' \in WriterType
  BY <1>1, <1>2, RevokedWriter DEF WriterAfter, WriterType
<1>. USE DEF ChildType
<1>6. CASE c.operation = "prepare"
  <2>1. child' = [child EXCEPT !.state = "prepared", !.acked = FALSE]
    BY <1>1, <1>6 DEF AfterCommand
  <2>. QED
    BY <1>2, <1>5, <1>6, <2>1
<1>7. CASE c.operation = "begin"
  <2>1. child' = Begun(c)
    BY <1>1, <1>7 DEF AfterCommand
  <2>. QED
    BY <1>2, <1>3, <1>4, <1>5, <1>7, <2>1 DEF Begun
<1>8. CASE c.operation = "freeze"
  <2>1. child' = [child EXCEPT !.boundary = c.at]
    BY <1>1, <1>8 DEF AfterCommand
  <2>. QED
    BY <1>2, <1>5, <1>8, <2>1
<1>9. CASE c.operation = "samples"
  <2>1. child' = [child EXCEPT !.watermark = c.at]
    BY <1>1, <1>9 DEF AfterCommand
  <2>. QED
    BY <1>2, <1>3, <1>5, <1>9, <2>1
<1>10. CASE c.operation = "stop"
  <2>1. child' = [child EXCEPT !.watermark = c.at, !.cutoff = c.at, !.boundary = c.at]
    BY <1>1, <1>10 DEF AfterCommand
  <2>. QED
    BY <1>2, <1>3, <1>5, <1>10, <2>1
<1>11. CASE c.operation = "cancel"
  <2>1. child' = [child EXCEPT !.state = "cancelling", !.boundary = None,
                               !.cutoff = None, !.settled = FALSE]
    BY <1>1, <1>11 DEF AfterCommand
  <2>. QED
    BY <1>2, <1>4, <1>5, <1>11, <2>1
<1>12. CASE c.operation = "settled"
  <2>1. child' = [child EXCEPT !.settled = TRUE]
    BY <1>1, <1>12 DEF AfterCommand
  <2>. QED
    BY <1>2, <1>5, <1>12, <2>1
<1>. QED
  BY <1>2, <1>6, <1>7, <1>8, <1>9, <1>10, <1>11, <1>12

\* The command behind it fits the child that has taken it.
LEMMA HeadedTaken ==
    ASSUME CaptureInv, ~abort, TakeCommand
    PROVE  Headed'
<1>. DEFINE c == inbox[1]
<1>1. /\ inbox # <<>>
      /\ inbox' # <<>> => <<c.operation, inbox'[1].operation>> \in Follow
  BY HeadTaken
<1>2. \A op : <<c.operation, op>> \in Follow =>
         \/ c.operation = "prepare" /\ op = "cancel"
         \/ /\ c.operation \in {"begin", "samples", "freeze"}
            /\ op \in {"samples", "freeze", "stop", "cancel"}
         \/ c.operation = "stop" /\ op \in {"settled", "cancel"}
  BY DEF Follow, Filling
<1>3. /\ c.operation = "prepare" => child'.state = "prepared"
      /\ c.operation \in {"begin", "samples", "freeze"} =>
            child'.state = "recording" /\ child'.cutoff = None
      /\ c.operation = "stop" => child'.state = "recording" /\ child'.cutoff # None
      /\ c.operation \in {"begin", "samples", "freeze", "stop"} => ~child'.settled
  <2>1. /\ c.operation \in {"samples", "freeze", "stop"} =>
              child.state = "recording" /\ child.cutoff = None /\ ~child.settled
        /\ c.operation = "stop" => c.at # None
    BY <1>1, Unaborted, HeadFits DEF Headed
  <2>. QED
    BY <2>1, AfterHead
<1>. QED
  BY <1>1, <1>2, <1>3 DEF Headed

\* Every step of control finds the child where it expects it.
LEMMA LinkedTaken ==
    ASSUME CaptureInv, ~abort, TakeCommand
    PROVE  Linked'
<1>. DEFINE c == inbox[1]
<1>1. /\ inbox # <<>> /\ c \in Command /\ UNCHANGED <<control, outbox>>
      /\ inbox' # <<>> => Last(inbox') = Last(inbox)
      /\ inbox' = <<>> => Last(inbox) = c
      /\ inbox' = Tail(inbox)
  BY HeadTaken
<1>2. /\ c.operation = "prepare" => child.state = "idle" /\ control.start = None
      /\ c.operation = "begin" => child.state = "prepared"
      /\ c.operation \in {"samples", "freeze", "stop"} =>
            child.state = "recording" /\ child.cutoff = None
      /\ c.operation = "settled" => child.state = "recording" /\ child.cutoff # None
      /\ c.operation = "cancel" => child.state \in {"prepared", "recording"}
  BY <1>1, Unaborted DEF Headed
<1>3. /\ c.operation \in {"prepare", "begin", "samples", "freeze", "stop", "settled",
                          "cancel"}
      /\ c.operation = "stop" => c.at # None
  BY <1>1, HeadFits DEF Command
<1>4. /\ c.operation = "prepare" => child'.state = "prepared" /\ ~child'.acked
      /\ c.operation # "prepare" => child'.acked = child.acked
      /\ c.operation \in {"begin", "samples", "freeze"} =>
            child'.state = "recording" /\ child'.cutoff = None
      /\ c.operation = "stop" => child'.state = "recording" /\ child'.cutoff # None
      /\ c.operation = "settled" => child'.state = "recording"
      /\ c.operation = "cancel" => child'.state = "cancelling"
  BY <1>2, <1>3, AfterHead
<1>5. c.operation \in {"cancel", "settled"} => Last(inbox) = c
  BY <1>1, Unaborted, ChainEnds
<1>. HIDE DEF c
<1>6. Asked => Asked'
  <2>. SUFFICES ASSUME Asked PROVE Asked'
    OBVIOUS
  <2>1. Len(inbox) = 1 /\ c.operation = "prepare" /\ outbox = <<>>
    BY <1>1 DEF Asked, c
  <2>2. inbox' = <<>>
    BY <1>1, <2>1, Unaborted, Shortened, EmptySeq
  <2>. QED
    BY <1>1, <1>4, <2>1, <2>2 DEF Asked
<1>7. ~Ready
  BY <1>1 DEF Ready
<1>8. Working /\ control.start # None => Working'
  <2>. SUFFICES ASSUME Working, control.start # None PROVE Working'
    OBVIOUS
  <2>1. Last(inbox).operation \in IF control.stopSent THEN {"stop"} ELSE Filling
    BY <1>1 DEF Working
  <2>2. c.operation \in {"begin", "samples", "freeze", "stop"}
    BY <1>2, <1>3, <1>5, <2>1 DEF Filling
  <2>3. child'.state = "recording"
    BY <1>4, <2>2
  <2>4. inbox' = <<>> => (child'.cutoff # None <=> control.stopSent)
    BY <1>1, <1>4, <2>1, <2>2 DEF Filling
  <2>. QED
    BY <1>1, <2>1, <2>3, <2>4 DEF Working
<1>9. Sealing => Sealing'
  <2>. SUFFICES ASSUME Sealing PROVE Sealing'
    OBVIOUS
  <2>1. /\ outbox = <<>> /\ Last(inbox).operation = "settled"
        /\ child.state \in {"prepared", "recording", "finalizing"}
    BY <1>1 DEF Sealing
  <2>2. c.operation \in {"begin", "samples", "freeze", "stop", "settled"}
    BY <1>2, <1>3, <1>5, <2>1
  <2>3. child'.state = "recording"
    BY <1>4, <2>2
  <2>. QED
    BY <1>1, <2>1, <2>3 DEF Sealing
<1>10. Cancelling => Cancelling'
  <2>. SUFFICES ASSUME Cancelling PROVE Cancelling'
    OBVIOUS
  <2>1. /\ \/ outbox = <<>>
           \/ outbox = <<"prepare">> /\ child.acked /\ child.state # "idle"
        /\ child.state # "cancelling" => Last(inbox).operation = "cancel"
    BY <1>1 DEF Cancelling
  <2>2. Last(inbox).operation = "cancel"
    BY <1>2, <1>3, <2>1
  <2>3. \/ outbox' = <<>>
        \/ outbox' = <<"prepare">> /\ child'.acked /\ child'.state # "idle"
    BY <1>1, <1>2, <1>3, <1>4, <2>1
  <2>4. \/ child'.state = "cancelling"
        \/ inbox' # <<>> /\ Last(inbox').operation = "cancel"
    BY <1>1, <1>4, <2>2
  <2>. QED
    BY <2>3, <2>4 DEF Cancelling
<1>11. Linked /\ inbox # <<>> /\ control' = control
  BY <1>1, Unaborted
<1>12. control.step = "engaging" => Ready
  BY <1>11 DEF Linked
<1>13. control.step \in {"recording", "stopping"} => control.start # None
  BY Unaborted DEF Stepped, Timely
<1>. QED
  BY <1>6, <1>7, <1>8, <1>9, <1>10, <1>11, <1>12, <1>13 DEF Linked

\* What becomes of the episode when a command is taken.
LEMMA StoredTaken ==
    ASSUME CaptureInv, ~abort, TakeCommand
    PROVE  LET c == inbox[1] IN
           /\ stored' \in StoredType
           /\ c.operation = "prepare" => stored'.frames = {}
           /\ c.operation # "prepare" => stored'.frames = stored.frames
           /\ c.operation = "begin" => stored'.log = <<<<"acquired", c.at>>>>
           /\ c.operation = "samples" =>
                 stored'.log = Append(stored.log, <<"samples", c.at>>)
           /\ c.operation \in {"freeze", "stop", "settled"} => stored'.log = stored.log
<1>. DEFINE c == inbox[1]
<1>1. /\ stored' = StoredAfter(c) /\ c \in Command /\ inbox # <<>>
      /\ stored \in StoredType
  BY HeadTaken, Unaborted DEF TypeOK
<1>2. /\ c.operation \in {"prepare", "begin", "samples", "freeze", "stop", "settled",
                          "cancel"}
      /\ c.operation \in {"begin", "samples"} => c.at \in Times
  BY <1>1, HeadFits DEF Command
<1>. DEFINE Record == {"acquired", "samples", "released"} \X Times
<1>3. stored.log \in Seq(Record) /\ stored.frames \in SUBSET Times
  BY <1>1 DEF StoredType
<1>4. CASE c.operation = "prepare"
  <2>1. stored' = NoEpisode
    BY <1>1, <1>4 DEF StoredAfter
  <2>2. <<>> \in Seq(Record)
    BY EmptySeq
  <2>. QED
    BY <1>4, <2>1, <2>2 DEF NoEpisode, StoredType
<1>5. CASE c.operation = "begin"
  <2>1. stored' = [stored EXCEPT !.log = <<<<"acquired", c.at>>>>]
    BY <1>1, <1>5 DEF StoredAfter
  <2>2. <<"acquired", c.at>> \in Record
    BY <1>2, <1>5
  <2>3. <<<<"acquired", c.at>>>> \in Seq(Record)
    BY <2>2
  <2>. QED
    BY <1>1, <1>5, <2>1, <2>3 DEF StoredType
<1>6. CASE c.operation = "samples"
  <2>1. Recordable(c.at)
    <3>1. child.state = "recording" /\ child.cutoff = None
      BY <1>1, <1>6, Unaborted DEF Headed
    <3>2. /\ Taken + 1 \in DOMAIN control.sent /\ c.at = control.sent[Taken + 1]
          /\ Taken + 1 > Taken
      BY <1>1, <1>6, <3>1, NextBatch, Unaborted DEF Logged
    <3>3. child.watermark < c.at /\ c.at \in Nat
      BY <1>1, <1>6, <3>1, <3>2, ChildTimes, HeadFits
    <3>. QED
      BY <3>1, <3>3, ChildTimes DEF Recordable
  <2>2. stored' = [stored EXCEPT !.log = Append(stored.log, <<"samples", c.at>>)]
    BY <1>1, <1>6, <2>1 DEF StoredAfter, Log
  <2>3. <<"samples", c.at>> \in Record
    BY <1>2, <1>6
  <2>4. Append(stored.log, <<"samples", c.at>>) \in Seq(Record)
    BY <1>3, <2>3, Appended
  <2>. QED
    BY <1>1, <1>6, <2>2, <2>4 DEF StoredType
<1>7. CASE c.operation \in {"freeze", "stop", "settled", "cancel"}
  BY <1>1, <1>7 DEF StoredAfter
<1>. QED
  BY <1>2, <1>4, <1>5, <1>6, <1>7

\* The log has got the batch that has left the inbox, and no other.
LEMMA SampledTaken ==
    ASSUME CaptureInv, ~abort, TakeCommand
    PROVE  Sampled' /\ Logged'
<1>. DEFINE c == inbox[1]
<1>1. /\ inbox # <<>> /\ c \in Command /\ control' = control
      /\ inbox' = Tail(inbox) /\ inbox' \in Seq(Command)
  BY HeadTaken
<1>2. /\ c.operation = "prepare" => child.state = "idle" /\ control.start = None
      /\ c.operation = "begin" => child.state = "prepared"
      /\ c.operation \in {"samples", "freeze", "stop"} =>
            child.state = "recording" /\ child.cutoff = None
      /\ c.operation = "settled" => child.state = "recording" /\ child.cutoff # None
  BY <1>1, Unaborted DEF Headed
<1>3. /\ c.operation \in {"prepare", "begin", "samples", "freeze", "stop", "settled",
                          "cancel"}
      /\ c.operation = "stop" => c.at # None
  BY <1>1, HeadFits DEF Command
<1>4. /\ control.sent \in Seq(Times) /\ Ascending(control.sent)
      /\ Len(control.sent) \in Nat /\ DOMAIN control.sent = 1 .. Len(control.sent)
  BY Unaborted, LenProperties DEF Timely
<1>5. ASSUME NEW n \in 0 .. Len(control.sent), Batched(inbox, control.sent, n),
             c.operation # "samples"
      PROVE  Batched(inbox', control.sent, n)
  BY <1>1, <1>4, <1>5, Unaborted, BatchedTail
<1>. HIDE DEF c
<1>6. CASE c.operation = "prepare"
  <2>1. child'.state = "prepared"
    BY <1>6, AfterHead DEF c
  <2>2. DOMAIN control.sent = {}
    <3>1. control.sent = <<>> /\ Len(<<>>) = 0
      BY <1>2, <1>6, Unaborted DEF Timely
    <3>. QED
      BY <1>4, <3>1
  <2>3. \A i \in DOMAIN inbox' : inbox'[i].operation # "samples"
    <3>1. CASE inbox' = <<>>
      BY <3>1
    <3>2. CASE inbox' # <<>>
      <4>1. inbox'[1].operation = "cancel"
        BY <1>6, <3>2, HeadTaken DEF Follow, Filling, c
      <4>2. Tail(inbox') = <<>>
        BY <1>1, <3>2, <4>1, HeadTaken, ChainEnds
      <4>3. DOMAIN inbox' = 1 .. Len(inbox') /\ Len(inbox') \in Nat
            /\ Len(Tail(inbox')) = Len(inbox') - 1
        BY <1>1, <3>2, Shortened
      <4>4. Len(<<>>) = 0
        OBVIOUS
      <4>5. Len(inbox') = 1
        BY <4>2, <4>3, <4>4
      <4>6. \A i \in DOMAIN inbox' : i = 1
        BY <4>3, <4>5
      <4>. QED
        BY <4>1, <4>6
    <3>. QED
      BY <3>1, <3>2
  <2>4. Batched(inbox', control.sent, 0)
    BY <2>2, <2>3 DEF Batched
  <2>. QED
    BY <1>1, <2>1, <2>4 DEF Sampled, Logged, Taken
<1>7. CASE c.operation = "begin"
  <2>1. /\ child'.state = "recording" /\ child'.start = c.at
        /\ child'.watermark = c.at /\ child'.cutoff = None
        /\ stored'.log = <<<<"acquired", c.at>>>>
    BY <1>7, AfterHead, StoredTaken DEF c
  <2>2. Taken' = 0 /\ Taken = 0
    BY <1>2, <1>7, <2>1 DEF Taken
  <2>3. Batched(inbox', control.sent, 0)
    BY <1>2, <1>4, <1>5, <1>7, <2>2, Unaborted DEF Sampled
  <2>. QED
    BY <1>1, <1>4, <2>1, <2>2, <2>3 DEF Sampled, Logged
<1>8. CASE c.operation = "samples"
  <2>1. /\ child'.state = "recording" /\ child'.start = child.start
        /\ child'.watermark = c.at /\ child'.cutoff = None
        /\ stored'.log = Append(stored.log, <<"samples", c.at>>)
    BY <1>2, <1>8, AfterHead, StoredTaken DEF c
  <2>2. /\ Taken + 1 \in DOMAIN control.sent
        /\ c.at = control.sent[Taken + 1]
        /\ Batched(inbox', control.sent, Taken + 1)
    BY <1>1, <1>8, NextBatch DEF c
  <2>3. /\ Taken \in 0 .. Len(control.sent) /\ Taken = Len(stored.log) - 1
        /\ stored.log[1] = <<"acquired", child.start>>
        /\ \A k \in 1 .. Taken : stored.log[k + 1] = <<"samples", control.sent[k]>>
    BY <1>2, <1>8, Unaborted DEF Logged, Taken
  <2>4. stored.log \in Seq({"acquired", "samples", "released"} \X Times)
    BY Unaborted DEF TypeOK, StoredType
  <2>5. c.at \in Times
    BY <1>1, <1>8, HeadFits DEF c
  <2>6. /\ Len(stored'.log) = Len(stored.log) + 1 /\ Len(stored.log) \in Nat
        /\ \A i \in 1 .. Len(stored.log) : stored'.log[i] = stored.log[i]
        /\ stored'.log[Len(stored.log) + 1] = <<"samples", c.at>>
    <3>. DEFINE Record == {"acquired", "samples", "released"} \X Times
    <3>1. <<"samples", c.at>> \in Record
      BY <2>5
    <3>2. stored.log \in Seq(Record)
      BY <2>4
    <3>. HIDE DEF Record
    <3>. QED
      BY <2>1, <3>1, <3>2, Appended
  <2>7. Taken' = Taken + 1
    BY <2>1, <2>3, <2>6 DEF Taken
  <2>8. /\ Taken + 1 \in 0 .. Len(control.sent) /\ Taken + 1 # 0
        /\ stored'.log[1] = <<"acquired", child.start>>
    BY <1>4, <2>2, <2>3, <2>6
  <2>9. \A k \in 1 .. (Taken + 1) : stored'.log[k + 1] = <<"samples", control.sent[k]>>
    <3>. TAKE k \in 1 .. (Taken + 1)
    <3>1. CASE k = Taken + 1
      BY <2>2, <2>3, <2>6, <3>1
    <3>2. CASE k # Taken + 1
      <4>1. k \in 1 .. Taken /\ k + 1 \in 1 .. Len(stored.log)
        BY <2>3, <2>6, <3>2
      <4>. QED
        BY <2>3, <2>6, <4>1
    <3>. QED
      BY <3>1, <3>2
  <2>10. Logged'
    BY <1>1, <2>1, <2>2, <2>7, <2>8, <2>9 DEF Logged
  <2>. QED
    BY <1>1, <2>2, <2>7, <2>10 DEF Sampled
<1>9. CASE c.operation \in {"freeze", "stop", "settled"}
  <2>1. /\ child'.state = "recording" /\ child'.start = child.start
        /\ child.state = "recording"
        /\ \/ child'.cutoff # None
           \/ child.cutoff = None /\ child'.watermark = child.watermark
        /\ stored'.log = stored.log
    BY <1>2, <1>3, <1>9, AfterHead, StoredTaken DEF c
  <2>2. Taken' = Taken
    BY <2>1 DEF Taken
  <2>3. Taken \in 0 .. Len(control.sent) /\ Batched(inbox, control.sent, Taken)
    BY <2>1, Unaborted DEF Sampled, Logged
  <2>4. Batched(inbox', control.sent, Taken)
    BY <1>5, <1>9, <2>3
  <2>5. Logged'
    BY <1>1, <2>1, <2>2, Unaborted DEF Logged
  <2>. QED
    BY <1>1, <2>2, <2>4, <2>5 DEF Sampled
<1>10. CASE c.operation = "cancel"
  BY <1>10, AfterHead DEF Sampled, Logged, c
<1>. QED
  BY <1>3, <1>6, <1>7, <1>8, <1>9, <1>10

\* What the child knows of the interval, and what it holds of it.
LEMMA BoundedTaken ==
    ASSUME CaptureInv, ~abort, TakeCommand
    PROVE  Bounded' /\ Framed'
<1>. DEFINE c == inbox[1]
<1>1. /\ inbox # <<>> /\ c \in Command /\ control' = control
      /\ Stamped(c, control)
      /\ pending' = IF c.operation \in {"begin", "cancel"} THEN {} ELSE pending
      /\ read' = IF c.operation = "prepare" THEN {} ELSE read
  BY HeadTaken
<1>2. /\ c.operation = "begin" => child.state = "prepared"
      /\ c.operation \in {"samples", "freeze", "stop"} =>
            child.state = "recording" /\ child.cutoff = None
      /\ c.operation = "settled" => child.state = "recording" /\ child.cutoff # None
  BY <1>1, Unaborted DEF Headed
<1>3. c.operation \in {"prepare", "begin", "samples", "freeze", "stop", "settled",
                       "cancel"}
  BY <1>1 DEF Command
<1>. HIDE DEF c
<1>4. CASE c.operation \in {"prepare", "cancel"}
  <2>1. /\ c.operation = "prepare" => child'.state = "prepared"
        /\ c.operation = "cancel" => child'.state = "cancelling"
    BY AfterHead DEF c
  <2>2. c.operation = "prepare" => stored'.frames = {} /\ read' = {}
    BY <1>1, StoredTaken DEF c
  <2>. QED
    BY <1>4, <2>1, <2>2 DEF Bounded, Framed
<1>5. CASE c.operation = "begin"
  <2>1. /\ child'.state = "recording" /\ child'.start = c.at
        /\ child'.watermark = c.at /\ child'.cutoff = None
        /\ child'.boundary = None /\ ~child'.settled
    BY <1>5, AfterHead DEF c
  <2>2. stored'.frames = stored.frames /\ pending' = {} /\ read' = read
    BY <1>1, <1>5, StoredTaken DEF c
  <2>3. stored.frames = {} /\ read = {}
    BY <1>2, <1>5, Unaborted DEF Framed
  <2>4. Bounded'
    BY <1>1, <1>5, <2>1 DEF Bounded, Stamped
  <2>. QED
    BY <2>1, <2>2, <2>3, <2>4 DEF Framed
<1>6. CASE c.operation \in {"samples", "freeze", "stop", "settled"}
  <2>1. /\ child.state = "recording"
        /\ child'.state = "recording" /\ child'.start = child.start
        /\ child'.watermark = IF c.operation \in {"samples", "stop"}
                              THEN c.at ELSE child.watermark
        /\ child'.cutoff = IF c.operation = "stop" THEN c.at ELSE child.cutoff
        /\ child'.boundary = IF c.operation \in {"freeze", "stop"}
                             THEN c.at ELSE child.boundary
        /\ child'.settled = IF c.operation = "settled" THEN TRUE ELSE child.settled
    BY <1>2, <1>6, AfterHead DEF c
  <2>2. /\ c.operation \in {"freeze", "stop"} => c.at = control.cutoff
        /\ c.operation = "settled" => control.confirmed
    BY <1>1 DEF Stamped
  <2>3. /\ stored'.frames = stored.frames /\ pending' = pending /\ read' = read
    BY <1>1, <1>6, StoredTaken DEF c
  <2>4. Bounded'
    BY <1>1, <1>2, <1>6, <2>1, <2>2, Unaborted DEF Bounded
  <2>5. /\ pending \subseteq read
        /\ \A r \in stored.frames : r \in read /\ child.start <= r /\ r < child.watermark
        /\ \A r \in read :
              child.start <= r /\ (child.boundary = None \/ r < child.boundary) =>
                  r \in stored.frames \cup pending
    BY <2>1, Unaborted DEF Framed
  <2>6. \A r \in stored.frames : r < child'.watermark
    <3>. TAKE r \in stored.frames
    <3>1. r \in Nat /\ r < child.watermark /\ child.watermark \in Nat
      <4>1. r \in Times /\ child.watermark \in Times
        BY Unaborted DEF TypeOK, StoredType, ChildType
      <4>. QED
        BY <2>5, <4>1, Numbers
    <3>2. CASE c.operation \in {"samples", "stop"}
      <4>1. Fits(c) /\ c.at \in Nat
        BY <1>1, <3>2, HeadFits DEF c
      <4>2. c.operation = "samples" => c.at >= child.watermark
        BY <3>1, <4>1 DEF Fits
      <4>3. c.operation = "stop" => c.at >= child.watermark
        BY <4>1 DEF Fits
      <4>. QED
        BY <2>1, <3>1, <3>2, <4>1, <4>2, <4>3
    <3>3. CASE c.operation \notin {"samples", "stop"}
      BY <2>1, <3>1, <3>3
    <3>. QED
      BY <3>2, <3>3
  <2>7. child'.boundary = child.boundary \/ child.boundary = None
    <3>1. child.boundary \in {None, control.cutoff}
      BY <2>1, Unaborted DEF Bounded
    <3>. QED
      BY <2>1, <2>2, <3>1
  <2>. QED
    BY <2>1, <2>3, <2>4, <2>5, <2>6, <2>7 DEF Framed
<1>. QED
  BY <1>3, <1>4, <1>5, <1>6

\* The writer: opened by a preparation, revoked by a cancellation.
LEMMA WrittenTaken ==
    ASSUME CaptureInv, ~abort, TakeCommand
    PROVE  Written' /\ Exact'
<1>. DEFINE c == inbox[1]
<1>1. /\ inbox # <<>> /\ c \in Command /\ final' = final
      /\ writer' = WriterAfter(c)
  BY HeadTaken
<1>2. /\ c.operation = "prepare" => child.state = "idle"
      /\ c.operation = "begin" => child.state = "prepared"
      /\ c.operation \in {"samples", "freeze", "stop", "settled"} =>
            child.state = "recording"
      /\ c.operation = "cancel" => child.state \in {"prepared", "recording"}
  BY <1>1, Unaborted DEF Headed
<1>3. c.operation \in {"prepare", "begin", "samples", "freeze", "stop", "settled",
                       "cancel"}
  BY <1>1 DEF Command
<1>4. /\ c.operation = "prepare" => child'.state = "prepared"
      /\ c.operation \in {"begin", "samples", "freeze", "stop", "settled"} =>
            child'.state = "recording"
      /\ c.operation = "cancel" => child'.state = "cancelling"
  <2>1. /\ c.operation = "prepare" => child'.state = "prepared"
        /\ c.operation = "cancel" => child'.state = "cancelling"
        /\ c.operation = "begin" => child'.state = "recording"
        /\ c.operation \in {"samples", "freeze", "stop", "settled"} =>
              child'.state = child.state
    BY AfterHead
  <2>. QED
    BY <1>2, <2>1
<1>. HIDE DEF c
<1>5. writer \in WriterType /\ Written
  BY Unaborted DEF TypeOK
<1>6. CASE c.operation = "prepare"
  <2>1. writer' = [verdict |-> "opening", done |-> FALSE]
    BY <1>1, <1>6 DEF WriterAfter
  <2>. QED
    BY <1>1, <1>2, <1>4, <1>5, <1>6, <2>1, Numbers DEF Written, Exact, Sealed
<1>7. CASE c.operation = "cancel"
  <2>1. writer' = Revoked
    BY <1>1, <1>7 DEF WriterAfter
  <2>2. writer.verdict \in {"opening", "open", "aborted", "failed"}
    BY <1>2, <1>5, <1>7 DEF Written
  <2>3. writer'.verdict \in {"aborted", "failed"} /\ final = None
    BY <1>2, <1>5, <1>7, <2>1, <2>2, RevokedWriter DEF Written
  <2>. QED
    BY <1>1, <1>4, <1>7, <2>3, Numbers DEF Written, Exact, Sealed
<1>8. CASE c.operation \in {"begin", "samples", "freeze", "stop", "settled"}
  <2>1. writer' = writer
    BY <1>1, <1>8 DEF WriterAfter
  <2>. QED
    BY <1>1, <1>2, <1>4, <1>5, <1>8, <2>1 DEF Written, Exact, Sealed
<1>. QED
  BY <1>3, <1>6, <1>7, <1>8

LEMMA TakeCapture ==
    ASSUME CaptureInv, ~abort, TakeCommand
    PROVE  CaptureInv'
<1>. DEFINE c == inbox[1]
<1>1. /\ inbox' \in Seq(Command) /\ Chain(inbox')
      /\ \A i \in DOMAIN inbox' : Stamped(inbox'[i], control)
      /\ pending' \in {pending, {}} /\ read' \in {read, {}} /\ early' \in {early, {}}
      /\ UNCHANGED <<now, arriving, stamped, control, outbox, abort, pc, final, refused>>
      /\ child' \in ChildType /\ writer' \in WriterType /\ stored' \in StoredType
  BY HeadTaken, AfterHead, StoredTaken
<1>2. TypeOK'
  <2>1. Cardinality({}) = 0 /\ PendingCapacity \in Nat
    BY FS_EmptySet, BoundsAssumption
  <2>2. pending' \subseteq stamped /\ Cardinality(pending') <= PendingCapacity
    <3>1. CASE pending' = pending
      BY <3>1, Unaborted DEF TypeOK
    <3>2. CASE pending' = {}
      BY <2>1, <3>2
    <3>. QED
      BY <1>1, <3>1, <3>2
  <2>. QED
    BY <1>1, <2>2, Unaborted DEF TypeOK
<1>3. Timely' /\ Stepped' /\ ~refused'
  BY <1>1, Unaborted DEF Timely, Stepped, Latest, CaptureInv
<1>4. Running'
  <2>1. /\ inbox # <<>> /\ c \in Command
    BY HeadTaken
  <2>2. c.operation \in {"samples", "freeze", "stop", "settled"} =>
           child.state = "recording"
    BY <2>1, Unaborted DEF Headed
  <2>3. child'.state \in {"prepared", "recording", "cancelling"}
    BY <2>1, <2>2, AfterHead DEF Command
  <2>. QED
    BY <2>3 DEF Running
<1>5. Talk'
  BY <1>1, HeadedTaken, LinkedTaken DEF Talk
<1>6. Content'
  BY SampledTaken, BoundedTaken, WrittenTaken DEF Content
<1>. QED
  BY <1>2, <1>3, <1>4, <1>5, <1>6 DEF CaptureInv

-----------------------------------------------------------------------------
(* The child: admitting frames, and sealing.                               *)

\* The acquisition, the batches in their order, and the release behind them.
LEMMA LogSealed ==
    ASSUME NEW S, NEW log \in Seq(S), NEW batches \in Seq(S), NEW a \in S, NEW r \in S,
           Len(log) = Len(batches) + 1, log[1] = a,
           \A k \in 1 .. Len(batches) : log[k + 1] = batches[k]
    PROVE  Append(log, r) = <<a>> \o batches \o <<r>>
<1>. DEFINE n == Len(batches)
            front == <<a>> \o batches
            whole == front \o <<r>>
            sealed == Append(log, r)
<1>1. n \in Nat
  OBVIOUS
<1>2. <<a>> \in Seq(S) /\ <<r>> \in Seq(S) /\ Len(<<a>>) = 1 /\ Len(<<r>>) = 1
      /\ <<a>>[1] = a /\ <<r>>[1] = r
  OBVIOUS
<1>3. /\ front \in Seq(S) /\ Len(front) = n + 1
      /\ \A i \in 1 .. n + 1 : front[i] = IF i <= 1 THEN <<a>>[i] ELSE batches[i - 1]
  <2>1. /\ front \in Seq(S) /\ Len(front) = Len(<<a>>) + n
        /\ \A i \in 1 .. Len(<<a>>) + n :
              front[i] = IF i <= Len(<<a>>) THEN <<a>>[i] ELSE batches[i - Len(<<a>>)]
    BY <1>2, ConcatProperties
  <2>. HIDE DEF front
  <2>. QED
    BY <1>1, <1>2, <2>1
<1>. HIDE DEF front
<1>4. /\ whole \in Seq(S) /\ Len(whole) = n + 2
      /\ \A i \in 1 .. n + 2 : whole[i] = IF i <= n + 1 THEN front[i] ELSE r
  <2>1. /\ whole \in Seq(S) /\ Len(whole) = Len(front) + Len(<<r>>)
        /\ \A i \in 1 .. Len(front) + Len(<<r>>) :
              whole[i] = IF i <= Len(front) THEN front[i] ELSE <<r>>[i - Len(front)]
    BY <1>2, <1>3, ConcatProperties
  <2>. HIDE DEF whole
  <2>2. /\ Len(whole) = n + 2
        /\ \A i \in 1 .. n + 2 :
              whole[i] = IF i <= n + 1 THEN front[i] ELSE <<r>>[i - (n + 1)]
    BY <1>1, <1>2, <1>3, <2>1
  <2>3. \A i \in 1 .. n + 2 : ~(i <= n + 1) => i - (n + 1) = 1
    BY <1>1
  <2>. QED
    BY <1>2, <2>1, <2>2, <2>3
<1>5. /\ sealed \in Seq(S) /\ Len(sealed) = n + 2
      /\ \A i \in 1 .. n + 1 : sealed[i] = log[i]
      /\ sealed[n + 2] = r
  <2>1. n + 1 + 1 = n + 2
    BY <1>1
  <2>. QED
    BY <1>1, <2>1, Appended
<1>. HIDE DEF sealed, whole, n
<1>6. \A i \in 1 .. n + 2 : sealed[i] = whole[i]
  <2>. TAKE i \in 1 .. n + 2
  <2>1. CASE i = 1
    <3>1. 1 \in 1 .. n + 1 /\ 1 \in 1 .. n + 2 /\ 1 <= n + 1
      BY <1>1
    <3>2. sealed[1] = a
      BY <1>5, <3>1
    <3>3. front[1] = a
      BY <1>2, <1>3, <3>1
    <3>4. whole[1] = a
      BY <1>4, <3>1, <3>3
    <3>. QED
      BY <2>1, <3>2, <3>4
  <2>2. CASE i \in 2 .. n + 1
    <3>1. i - 1 \in 1 .. n /\ (i - 1) + 1 = i
      BY <1>1, <2>2
    <3>2. log[i] = batches[i - 1]
      BY <3>1 DEF n
    <3>3. i \in 1 .. n + 1 /\ ~(i <= 1)
      BY <1>1, <2>2
    <3>. QED
      BY <1>1, <1>3, <1>4, <1>5, <3>2, <3>3
  <2>3. CASE i = n + 2
    BY <1>1, <1>4, <1>5, <2>3
  <2>. QED
    BY <1>1, <2>1, <2>2, <2>3
<1>7. sealed = whole
  BY <1>4, <1>5, <1>6, SeqEqual
<1>. QED
  BY <1>7 DEF sealed, whole, front

\* When the child is about to seal, all of the episode's commands are taken.
LEMMA SealedCommands ==
    ASSUME CaptureInv, ~abort, MaySeal
    PROVE  /\ inbox = <<>> /\ Taken = Len(control.sent)
           /\ control.confirmed /\ control.step \in {"sealing", "gone"}
           /\ control.step = "sealing" => outbox = <<>>
           /\ child.start \in Nat /\ child.cutoff \in Nat /\ child.cutoff \in Times
           /\ child.start \in Times
           /\ child.start <= child.cutoff
           /\ child.watermark = child.cutoff /\ child.boundary = child.cutoff
           /\ child.cutoff # None
<1>1. child.state = "recording" /\ child.cutoff # None /\ child.settled
  BY DEF MaySeal
<1>2. /\ child.start = control.start /\ control.start # None
      /\ child.cutoff = control.cutoff /\ control.confirmed
      /\ child.watermark = child.cutoff /\ child.boundary = child.cutoff
  BY <1>1, Unaborted DEF Bounded
<1>3. inbox = <<>>
  <2>. SUFFICES ASSUME inbox # <<>> PROVE FALSE
    OBVIOUS
  <2>. QED
    BY <1>1, Unaborted DEF Headed
<1>4. Taken = Len(control.sent)
  <2>1. /\ Taken \in 0 .. Len(control.sent) /\ Batched(inbox, control.sent, Taken)
        /\ DOMAIN control.sent = 1 .. Len(control.sent) /\ Len(control.sent) \in Nat
    BY <1>1, Unaborted, LenProperties DEF Sampled, Logged
  <2>2. DOMAIN inbox = {}
    <3>1. Len(inbox) = 0 /\ DOMAIN inbox = 1 .. Len(inbox)
      BY <1>3, Unaborted
    <3>. QED
      BY <3>1
  <2>3. \A k \in DOMAIN control.sent : ~(k > Taken)
    BY <2>1, <2>2 DEF Batched
  <2>4. Len(control.sent) # 0 => Len(control.sent) \in DOMAIN control.sent
    BY <2>1
  <2>. QED
    BY <2>1, <2>3, <2>4
<1>5. /\ control.step \in {"sealing", "gone"}
      /\ control.step = "sealing" => outbox = <<>>
  <2>1. control.step \notin {"preparing", "engaging", "recording", "stopping", "review"}
    BY <1>2, Unaborted DEF Stepped
  <2>2. control.step # "idle" /\ control.step # "cancelling"
    BY <1>1, <1>3, Unaborted DEF Linked, Cancelling
  <2>3. control.step = "sealing" => outbox = <<>>
    BY <1>1, Unaborted DEF Linked, Sealing
  <2>. QED
    BY <2>1, <2>2, <2>3, Unaborted DEF ControlType
<1>6. /\ control.start \in Times /\ control.cutoff \in Times /\ control.mark \in Times
      /\ control.start <= control.mark /\ control.mark < control.cutoff
  BY <1>1, <1>2, Unaborted, Numbers DEF Timely, ControlType
<1>7. control.start \in Nat /\ control.cutoff \in Nat /\ control.mark \in Nat
  BY <1>6, Numbers
<1>. QED
  BY <1>1, <1>2, <1>3, <1>4, <1>5, <1>6, <1>7

\* The log of a sealed episode.
LEMMA SealedLog ==
    ASSUME CaptureInv, ~abort, MaySeal
    PROVE  /\ Log("released", child.cutoff) =
                 <<<<"acquired", child.start>>>>
                     \o [i \in DOMAIN control.sent |-> <<"samples", control.sent[i]>>]
                     \o <<<<"released", child.cutoff>>>>
           /\ Log("released", child.cutoff) \in
                 Seq({"acquired", "samples", "released"} \X Times)
<1>. DEFINE Record == {"acquired", "samples", "released"} \X Times
            batches == [i \in DOMAIN control.sent |-> <<"samples", control.sent[i]>>]
            first == <<"acquired", child.start>>
            release == <<"released", child.cutoff>>
<1>1. child.state = "recording"
  BY DEF MaySeal
<1>2. /\ stored.log \in Seq(Record) /\ Len(stored.log) \in Nat
      /\ control.sent \in Seq(Times)
      /\ DOMAIN control.sent = 1 .. Len(control.sent) /\ Len(control.sent) \in Nat
      /\ \A k \in 1 .. Len(control.sent) : control.sent[k] \in Times
  BY Unaborted, LenProperties DEF TypeOK, StoredType
<1>3. first \in Record /\ release \in Record
  BY SealedCommands
<1>4. batches \in Seq(Record) /\ Len(batches) = Len(control.sent)
  <2>1. \A i \in 1 .. Len(control.sent) : <<"samples", control.sent[i]>> \in Record
    BY <1>2
  <2>. HIDE DEF Record
  <2>2. batches \in [1 .. Len(control.sent) -> Record]
    BY <1>2, <2>1
  <2>. QED
    BY <1>2, <2>2
<1>5. Log("released", child.cutoff) = Append(stored.log, release)
  BY SealedCommands DEF Log, Recordable
<1>6. /\ Len(stored.log) = Len(batches) + 1 /\ stored.log[1] = first
      /\ \A k \in 1 .. Len(batches) : stored.log[k + 1] = batches[k]
  <2>1. /\ Taken = Len(control.sent) /\ Taken = Len(stored.log) - 1
        /\ stored.log[1] = first
        /\ \A k \in 1 .. Taken : stored.log[k + 1] = <<"samples", control.sent[k]>>
    BY <1>1, Unaborted, SealedCommands DEF Logged, Taken
  <2>2. \A k \in 1 .. Len(control.sent) : batches[k] = <<"samples", control.sent[k]>>
    BY <1>2
  <2>. HIDE DEF batches, first
  <2>3. Len(stored.log) = Len(batches) + 1 /\ stored.log[1] = first
    BY <1>2, <1>4, <2>1
  <2>. QED
    BY <1>4, <2>1, <2>2, <2>3
<1>. HIDE DEF Record, batches, first, release
<1>7. Append(stored.log, release) = <<first>> \o batches \o <<release>>
  BY <1>2, <1>3, <1>4, <1>6, LogSealed
<1>8. Append(stored.log, release) \in Seq(Record)
  BY <1>2, <1>3, Appended
<1>. QED
  BY <1>5, <1>7, <1>8 DEF Record, batches, first, release

\* The frames that a step admits and holds back.
LEMMA StepFrames ==
    ASSUME CaptureInv, ~abort, NEW new \in SUBSET arriving,
           NEW all, all = pending \cup Kept(new), ~Overflows(all)
    PROVE  /\ new \subseteq stamped /\ all \subseteq stamped /\ all \subseteq Times
           /\ Waiting(all) \subseteq stamped
           /\ Cardinality(Waiting(all)) <= PendingCapacity
           /\ Waiting(all) \subseteq all /\ Admitted(all) \subseteq all
<1>1. /\ new \subseteq stamped /\ all \subseteq stamped /\ all \subseteq Times
      /\ Waiting(all) \subseteq all /\ Admitted(all) \subseteq all
  BY Unaborted DEF TypeOK, Kept, Waiting, Admitted
<1>2. Cardinality(Waiting(all)) \in Nat
  <2>1. IsFiniteSet(Times)
    BY BoundsAssumption, FS_Interval DEF Times
  <2>2. Waiting(all) \in SUBSET Times
    BY <1>1
  <2>3. IsFiniteSet(Waiting(all))
    BY <2>1, <2>2, FS_Subset
  <2>. QED
    BY <2>3, FS_CardinalityType
<1>3. Cardinality(Waiting(all)) <= PendingCapacity
  <2>1. ~(Cardinality(Waiting(all)) > PendingCapacity) /\ PendingCapacity \in Nat
    BY BoundsAssumption DEF Overflows
  <2>. QED
    BY <1>2, <2>1
<1>. QED
  BY <1>1, <1>3

\* A step that seals nothing.
LEMMA StepOpen ==
    ASSUME CaptureInv, ~abort, Step, ~MaySeal
    PROVE  CaptureInv'
<1>1. PICK new \in SUBSET arriving :
         LET all == pending \cup Kept(new) IN
         /\ Late(new) = {} /\ ~Overflows(all)
         /\ arriving' = arriving \ new
         /\ pending' = Waiting(all)
         /\ stored' = [frames |-> stored.frames \cup
                          (IF child.state = "recording"
                           THEN {r \in Admitted(all) : Recordable(r)} ELSE {}),
                       log |-> stored.log]
         /\ read' = IF child.state \in {"recording", "finalizing"}
                    THEN read \cup new ELSE read
         /\ early' = IF child.state = "prepared" THEN early \cup new ELSE early
  BY DEF Step
<1>2. /\ pc' = "poll"
      /\ UNCHANGED <<now, stamped, control, outbox, inbox, abort, child, writer, final,
                     refused>>
  BY DEF Step, controlVars
<1>. DEFINE all == pending \cup Kept(new)
<1>3. /\ new \subseteq stamped /\ all \subseteq stamped /\ all \subseteq Times
      /\ Waiting(all) \subseteq stamped
      /\ Cardinality(Waiting(all)) <= PendingCapacity
      /\ Waiting(all) \subseteq all /\ Admitted(all) \subseteq all
  BY <1>1, StepFrames
<1>4. /\ pending' = Waiting(all) /\ stored'.log = stored.log
      /\ stored'.frames = stored.frames \cup
            (IF child.state = "recording"
             THEN {r \in Admitted(all) : Recordable(r)} ELSE {})
      /\ Late(new) = {} /\ arriving' \subseteq arriving
      /\ read' = IF child.state \in {"recording", "finalizing"}
                 THEN read \cup new ELSE read
      /\ early' = IF child.state = "prepared" THEN early \cup new ELSE early
      /\ all = pending \cup Kept(new)
  BY <1>1
<1>5. stored' \in StoredType
  <2>1. stored \in StoredType
    BY Unaborted DEF TypeOK
  <2>2. stored'.frames \in SUBSET Times
    BY <1>3, <1>4, <2>1 DEF StoredType
  <2>3. stored'.log \in Seq({"acquired", "samples", "released"} \X Times)
    BY <1>4, <2>1 DEF StoredType
  <2>4. stored' = [frames |-> stored'.frames, log |-> stored'.log]
    BY <1>1
  <2>. QED
    BY <2>2, <2>3, <2>4 DEF StoredType
<1>. HIDE DEF all
<1>6. TypeOK'
  BY <1>2, <1>3, <1>4, <1>5, Unaborted DEF TypeOK
<1>7. Timely' /\ Stepped' /\ ~refused' /\ Running'
  BY <1>2, Unaborted DEF Timely, Stepped, Latest, Running, CaptureInv
<1>8. Talk'
  BY <1>2, Unaborted, TalkStable
<1>9. Sampled' /\ Logged' /\ Bounded' /\ Written'
  <2>1. Sampled' /\ Logged'
    BY <1>2, <1>4, Unaborted DEF Sampled, Logged, Taken
  <2>. QED
    BY <1>2, <2>1, Unaborted DEF Bounded, Written
<1>10. Framed'
  <2>1. CASE child.state = "prepared"
    BY <1>2, <1>4, <2>1, Unaborted DEF Framed
  <2>2. CASE child.state = "recording"
    <3>1. /\ pending \subseteq read
          /\ \A r \in stored.frames :
                r \in read /\ child.start <= r /\ r < child.watermark
          /\ \A r \in read :
                child.start <= r /\ (child.boundary = None \/ r < child.boundary) =>
                    r \in stored.frames \cup pending
      BY <2>2, Unaborted DEF Framed
    <3>2. read' = read \cup new
      BY <1>4, <2>2
    <3>3. all \subseteq read'
      BY <1>4, <3>1, <3>2 DEF Kept
    <3>4. \A r \in stored'.frames :
             r \in read' /\ child.start <= r /\ r < child.watermark
      BY <1>3, <1>4, <2>2, <3>1, <3>2, <3>3 DEF Admitted, Recordable
    <3>5. ASSUME NEW r \in read', child.start <= r,
                 child.boundary = None \/ r < child.boundary
          PROVE  r \in stored'.frames \cup pending'
      <4>1. r \in stored.frames \/ r \in all
        BY <1>4, <2>2, <3>1, <3>2, <3>5 DEF Kept
      <4>2. r \in all => r \in Admitted(all) \/ r \in Waiting(all)
        BY <3>5 DEF Admitted, Waiting
      <4>3. Recordable(r)
        BY <3>5 DEF Recordable
      <4>. QED
        BY <1>4, <2>2, <4>1, <4>2, <4>3
    <3>. QED
      BY <1>2, <1>3, <1>4, <2>2, <3>3, <3>4, <3>5 DEF Framed
  <2>3. CASE child.state \notin {"prepared", "recording"}
    BY <1>2, <2>3 DEF Framed
  <2>. QED
    BY <2>1, <2>2, <2>3
<1>11. Exact'
  <2>1. Sealed' => Sealed
    BY <1>2 DEF Sealed
  <2>2. ASSUME Sealed
        PROVE  stored'.frames = {r \in read' : child.start <= r /\ r < child.cutoff}
    <3>1. stored.frames = {r \in read : child.start <= r /\ r < child.cutoff}
      BY <2>2, Unaborted DEF Exact
    <3>2. stored'.frames = stored.frames
      BY <1>4, <2>2 DEF Sealed
    <3>3. CASE child.state = "finalizing"
      <4>1. {r \in new : child.start <= r /\ r < child.cutoff} = {}
        BY <1>4, <3>3 DEF Late
      <4>2. read' = read \cup new
        BY <1>4, <3>3
      <4>. QED
        BY <3>1, <3>2, <4>1, <4>2
    <3>4. CASE child.state = "idle"
      BY <1>4, <3>1, <3>2, <3>4
    <3>. QED
      BY <2>2, <3>3, <3>4 DEF Sealed
  <2>. QED
    BY <1>2, <1>4, <2>1, <2>2, Unaborted DEF Exact
<1>. QED
  BY <1>6, <1>7, <1>8, <1>9, <1>10, <1>11 DEF CaptureInv, Content

\* The step that seals the episode.
LEMMA StepSeals ==
    ASSUME CaptureInv, ~abort, Step, MaySeal
    PROVE  CaptureInv'
<1>1. PICK new \in SUBSET arriving :
         LET all == pending \cup Kept(new) IN
         /\ ~Overflows(all)
         /\ arriving' = arriving \ new
         /\ pending' = Waiting(all)
         /\ stored' = [frames |-> stored.frames \cup
                          (IF child.state = "recording"
                           THEN {r \in Admitted(all) : Recordable(r)} ELSE {}),
                       log |-> Log("released", child.cutoff)]
         /\ read' = IF child.state \in {"recording", "finalizing"}
                    THEN read \cup new ELSE read
         /\ early' = IF child.state = "prepared" THEN early \cup new ELSE early
  BY DEF Step
<1>2. /\ pc' = "poll" /\ final' = "called"
      /\ child' = [child EXCEPT !.state = "finalizing"]
      /\ UNCHANGED <<now, stamped, control, outbox, inbox, abort, writer, refused>>
  BY DEF Step, controlVars
<1>3. child.state = "recording" /\ child.cutoff # None /\ child.settled
  BY DEF MaySeal
<1>. DEFINE all == pending \cup Kept(new)
<1>4. /\ new \subseteq stamped /\ all \subseteq stamped /\ all \subseteq Times
      /\ Waiting(all) \subseteq stamped
      /\ Cardinality(Waiting(all)) <= PendingCapacity
      /\ Admitted(all) \subseteq all
  BY <1>1, StepFrames
<1>5. /\ pending' = Waiting(all) /\ arriving' \subseteq arriving
      /\ stored'.log = Log("released", child.cutoff)
      /\ stored'.frames = stored.frames \cup {r \in Admitted(all) : Recordable(r)}
      /\ stored' = [frames |-> stored'.frames, log |-> stored'.log]
      /\ read' = read \cup new /\ early' = early
      /\ all = pending \cup Kept(new)
  BY <1>1, <1>3
<1>. HIDE DEF all
<1>6. child \in ChildType /\ stored \in StoredType
  BY Unaborted DEF TypeOK
<1>7. /\ child' \in ChildType /\ child'.state = "finalizing"
      /\ child'.start = child.start /\ child'.watermark = child.watermark
      /\ child'.cutoff = child.cutoff /\ child'.boundary = child.boundary
      /\ child'.settled = child.settled /\ child'.acked = child.acked
  BY <1>2, <1>6 DEF ChildType
<1>8. stored' \in StoredType
  <2>1. stored'.frames \in SUBSET Times
    BY <1>4, <1>5, <1>6 DEF StoredType
  <2>2. stored'.log \in Seq({"acquired", "samples", "released"} \X Times)
    BY <1>5, SealedLog
  <2>. QED
    BY <1>5, <2>1, <2>2 DEF StoredType
<1>9. TypeOK'
  BY <1>2, <1>4, <1>5, <1>7, <1>8, Unaborted DEF TypeOK
<1>10. Timely' /\ Stepped' /\ ~refused' /\ Running'
  BY <1>2, <1>7, Unaborted DEF Timely, Stepped, Latest, Running, CaptureInv
<1>11. Talk'
  <2>1. inbox' = <<>> /\ DOMAIN inbox' = {} /\ Chain(inbox') /\ Headed'
    BY <1>2, SealedCommands, Unaborted DEF Headed
  <2>2. Linked'
    BY <1>2, <1>7, SealedCommands DEF Linked, Sealing
  <2>. QED
    BY <2>1, <2>2 DEF Talk
<1>12. Sampled' /\ Logged' /\ Bounded' /\ Framed' /\ Written'
  <2>1. Sampled' /\ Logged' /\ Framed'
    BY <1>7 DEF Sampled, Logged, Framed
  <2>2. Bounded'
    BY <1>2, <1>3, <1>7, SealedCommands, Unaborted DEF Bounded
  <2>3. Written'
    BY <1>2, <1>3, <1>7, Numbers, Unaborted DEF Written
  <2>. QED
    BY <2>1, <2>2, <2>3
<1>13. Exact'
  <2>1. /\ pending \subseteq read
        /\ \A r \in stored.frames :
              r \in read /\ child.start <= r /\ r < child.watermark
        /\ \A r \in read :
              child.start <= r /\ (child.boundary = None \/ r < child.boundary) =>
                  r \in stored.frames \cup pending
    BY <1>3, Unaborted DEF Framed
  <2>2. child.watermark = child.cutoff /\ child.boundary = child.cutoff
    BY SealedCommands
  <2>3. all \subseteq read'
    BY <1>5, <2>1 DEF Kept
  <2>4. ASSUME NEW r \in stored'.frames
        PROVE  r \in read' /\ child.start <= r /\ r < child.cutoff
    BY <1>4, <1>5, <2>1, <2>2, <2>3, <2>4 DEF Admitted, Recordable
  <2>5. ASSUME NEW r \in read', child.start <= r, r < child.cutoff
        PROVE  r \in stored'.frames
    <3>1. r \in stored.frames \/ r \in all
      BY <1>3, <1>5, <2>1, <2>2, <2>5 DEF Kept
    <3>2. r \in all => r \in Admitted(all) /\ Recordable(r)
      BY <2>2, <2>5 DEF Admitted, Recordable
    <3>. QED
      BY <1>5, <3>1, <3>2
  <2>6. stored'.frames = {r \in read' : child.start <= r /\ r < child.cutoff}
    BY <2>4, <2>5
  <2>7. stored'.log = <<<<"acquired", child.start>>>>
            \o [i \in DOMAIN control.sent |-> <<"samples", control.sent[i]>>]
            \o <<<<"released", child.cutoff>>>>
    BY <1>5, SealedLog
  <2>8. control' = control
    BY <1>2
  <2>. QED
    BY <1>7, <2>6, <2>7, <2>8 DEF Exact, Sealed
<1>. QED
  BY <1>9, <1>10, <1>11, <1>12, <1>13 DEF CaptureInv, Content

LEMMA TakeNoMoreCapture ==
    ASSUME CaptureInv, ~abort, TakeNoMore
    PROVE  CaptureInv'
<1>1. /\ pc' = "step"
      /\ UNCHANGED <<now, arriving, stamped, control, outbox, inbox, abort, child,
                     writer, final, pending, stored, read, early, refused>>
  BY DEF TakeNoMore, worldVars, controlVars, writerVars, episodeVars
<1>2. TypeOK' /\ Timely' /\ Stepped' /\ ~refused' /\ Running'
  BY <1>1, Unaborted DEF TypeOK, Timely, Stepped, Latest, Running, CaptureInv
<1>3. Talk' /\ Content'
  BY <1>1, Unaborted, TalkStable, ContentStable
<1>. QED
  BY <1>2, <1>3 DEF CaptureInv

-----------------------------------------------------------------------------
(* The child: its replies.                                                 *)

LEMMA Paired ==
    ASSUME NEW S, NEW a \in S, NEW b \in S
    PROVE  Append(<<a>>, b) = <<a, b>>
<1>1. <<a>> \in Seq(S) /\ Len(<<a>>) = 1
  OBVIOUS
<1>2. <<a, b>> \in Seq(S) /\ Len(<<a, b>>) = 2
  OBVIOUS
<1>3. Append(<<a>>, b) \in Seq(S) /\ Len(Append(<<a>>, b)) = 2
  BY <1>1, AppendProperties
<1>4. \A i \in 1 .. 2 : Append(<<a>>, b)[i] = <<a, b>>[i]
  BY <1>1, AppendProperties
<1>. QED
  BY <1>2, <1>3, <1>4, SeqEqual

\* One reply more.
LEMMA Replied ==
    ASSUME TypeOK, NEW reply \in {"prepare", "complete", "cancelled"},
           outbox' = Append(outbox, reply)
    PROVE  /\ outbox' \in Seq({"prepare", "complete", "cancelled"})
           /\ outbox = <<>> => outbox' = <<reply>>
           /\ outbox = <<"prepare">> => outbox' = <<"prepare", reply>>
<1>1. outbox' \in Seq({"prepare", "complete", "cancelled"})
  BY Appended DEF TypeOK
<1>2. outbox = <<>> => outbox' = <<reply>>
  OBVIOUS
<1>3. outbox = <<"prepare">> => outbox' = <<"prepare", reply>>
  BY Paired
<1>. QED
  BY <1>1, <1>2, <1>3

LEMMA PollNothingCapture ==
    ASSUME CaptureInv, ~abort, PollNothing
    PROVE  CaptureInv'
<1>1. /\ pc' = "take"
      /\ UNCHANGED <<now, arriving, stamped, control, inbox, abort, writer, final,
                     pending, stored, read, early, refused>>
  BY DEF PollNothing, worldVars, writerVars, episodeVars
<1>2. CASE UNCHANGED <<child, outbox>>
  <2>1. TypeOK' /\ Timely' /\ Stepped' /\ ~refused' /\ Running'
    BY <1>1, <1>2, Unaborted
       DEF TypeOK, Timely, Stepped, Latest, Running, CaptureInv
  <2>2. Talk' /\ Content'
    BY <1>1, <1>2, Unaborted, TalkStable, ContentStable
  <2>. QED
    BY <2>1, <2>2 DEF CaptureInv
<1>3. CASE /\ child.state = "prepared" /\ ~child.acked
           /\ child' = [child EXCEPT !.acked = TRUE] /\ Reply("prepare")
  <2>1. child \in ChildType
    BY Unaborted DEF TypeOK
  <2>2. /\ child' \in ChildType /\ child'.acked
        /\ child'.state = child.state /\ child'.start = child.start
        /\ child'.watermark = child.watermark /\ child'.cutoff = child.cutoff
        /\ child'.boundary = child.boundary /\ child'.settled = child.settled
    BY <1>3, <2>1 DEF ChildType
  <2>3. /\ outbox' \in Seq({"prepare", "complete", "cancelled"})
        /\ outbox = <<>> => outbox' = <<"prepare">>
    BY <1>3, Unaborted, Replied DEF Reply
  <2>4. TypeOK' /\ Timely' /\ Stepped' /\ ~refused' /\ Running'
    <3>1. TypeOK'
      BY <1>1, <2>2, <2>3, Unaborted DEF TypeOK
    <3>. QED
      BY <1>1, <1>3, <2>2, <3>1, Unaborted
         DEF Timely, Stepped, Latest, Running, CaptureInv
  <2>5. Linked'
    <3>1. /\ Asked => Asked'
          /\ ~Ready /\ ~Working /\ ~Sealing
          /\ Cancelling => Cancelling'
      BY <1>1, <1>3, <2>2, <2>3
         DEF Asked, Ready, Working, Sealing, Cancelling
    <3>2. Linked /\ control' = control
      BY <1>1, Unaborted
    <3>. QED
      BY <1>3, <3>1, <3>2 DEF Linked
  <2>6. Talk'
    <3>1. Headed'
      BY <1>1, <2>2, Unaborted DEF Headed
    <3>. QED
      BY <1>1, <2>5, <3>1, Unaborted DEF Talk
  <2>7. Content'
    <3>1. Sampled' /\ Logged'
      BY <1>1, <2>2, Unaborted DEF Sampled, Logged, Taken
    <3>2. Bounded' /\ Framed' /\ Written'
      BY <1>1, <2>2, Unaborted DEF Bounded, Framed, Written
    <3>3. Exact'
      BY <1>1, <2>2, Unaborted DEF Exact, Sealed
    <3>. QED
      BY <3>1, <3>2, <3>3 DEF Content
  <2>. QED
    BY <2>4, <2>6, <2>7 DEF CaptureInv
<1>. QED
  BY <1>2, <1>3 DEF PollNothing

LEMMA PollReportsCapture ==
    ASSUME CaptureInv, ~abort, PollReports
    PROVE  CaptureInv'
<1>. DEFINE reply == IF child.state = "finalizing" THEN "complete" ELSE "cancelled"
<1>1. /\ \/ child.state = "finalizing" /\ final = "result"
         \/ child.state = "cancelling" /\ writer.done
      /\ outbox' = Append(outbox, reply)
      /\ child' = [child EXCEPT !.state = "idle"] /\ final' = None /\ pc' = "take"
      /\ UNCHANGED <<now, arriving, stamped, control, inbox, abort, writer,
                     pending, stored, read, early, refused>>
  <2>1. CASE child.state = "finalizing" /\ final = "result" /\ Reply("complete")
    BY <2>1 DEF PollReports, Reply, worldVars, episodeVars
  <2>2. CASE child.state = "cancelling" /\ writer.done /\ Reply("cancelled")
    BY <2>2 DEF PollReports, Reply, worldVars, episodeVars
  <2>. QED
    BY <2>1, <2>2 DEF PollReports
<1>2. reply \in {"prepare", "complete", "cancelled"}
  OBVIOUS
<1>3. /\ outbox' \in Seq({"prepare", "complete", "cancelled"})
      /\ outbox = <<>> => outbox' = <<reply>>
      /\ outbox = <<"prepare">> => outbox' = <<"prepare", reply>>
  <2>. HIDE DEF reply
  <2>. QED
    BY <1>1, <1>2, Unaborted, Replied
<1>4. /\ child' \in ChildType /\ child'.state = "idle"
      /\ child'.start = child.start /\ child'.cutoff = child.cutoff
  BY <1>1, Unaborted DEF TypeOK, ChildType
<1>5. inbox = <<>>
  <2>1. inbox # <<>> => inbox[1] \in Command
    BY Unaborted, Shortened
  <2>. QED
    BY <1>1, <2>1, Unaborted DEF Headed, Command
<1>6. TypeOK' /\ Timely' /\ Stepped' /\ ~refused' /\ Running'
  <2>1. TypeOK'
    BY <1>1, <1>3, <1>4, Unaborted DEF TypeOK
  <2>. QED
    BY <1>1, <1>4, <2>1, Unaborted DEF Timely, Stepped, Latest, Running, CaptureInv
<1>7. Talk'
  <2>1. inbox' = <<>> /\ DOMAIN inbox' = {} /\ Chain(inbox') /\ Headed'
    BY <1>1, <1>5, Unaborted DEF Headed
  <2>2. Linked'
    <3>1. /\ ~Asked /\ ~Ready /\ ~Working
          /\ Sealing => Sealing'
          /\ Cancelling => Cancelling'
      BY <1>1, <1>3, <1>4, <1>5
         DEF Asked, Ready, Working, Sealing, Cancelling
    <3>2. Linked /\ control' = control
      BY <1>1, Unaborted
    <3>. QED
      BY <1>1, <3>1, <3>2, Unaborted DEF Linked, Stepped, Timely
  <2>. QED
    BY <2>1, <2>2 DEF Talk
<1>8. Sampled' /\ Logged' /\ Bounded' /\ Framed'
  BY <1>4 DEF Sampled, Logged, Bounded, Framed
<1>9. Written' /\ Exact'
  <2>1. /\ child.state = "finalizing" => writer.verdict = "committed" /\ writer.done
        /\ child.state = "cancelling" => writer.verdict \in {"aborted", "failed"}
    BY <1>1, Unaborted DEF Written
  <2>2. Written'
    BY <1>1, <1>4, <2>1, Numbers, Unaborted DEF Written
  <2>3. Sealed' => child.state = "finalizing"
    BY <1>1, <1>4, <2>1 DEF Sealed
  <2>4. Exact'
    BY <1>1, <1>4, <2>3, Unaborted DEF Exact, Sealed
  <2>. QED
    BY <2>2, <2>4
<1>. QED
  BY <1>6, <1>7, <1>8, <1>9 DEF CaptureInv, Content

-----------------------------------------------------------------------------
(* The theorems.                                                           *)

LEMMA InitCapture == Init => CaptureInv
<1>. SUFFICES ASSUME Init PROVE CaptureInv
  OBVIOUS
<1>1. 0 \in Times /\ None \in Time /\ 0 \in Nat
  BY Numbers DEF Times, Time
<1>2. TypeOK
  <2>1. Cardinality({}) = 0 /\ PendingCapacity \in Nat /\ MaxEpisodes \in Nat
    BY FS_EmptySet, BoundsAssumption
  <2>2. control \in ControlType /\ child \in ChildType /\ writer \in WriterType
    BY <1>1, <2>1 DEF Init, ControlType, ChildType, WriterType
  <2>3. stored \in StoredType
    BY DEF Init, NoEpisode, StoredType
  <2>4. inbox \in Seq(Command) /\ outbox \in Seq({"prepare", "complete", "cancelled"})
    BY DEF Init
  <2>5. pending \subseteq stamped /\ Cardinality(pending) <= PendingCapacity
    BY <2>1 DEF Init
  <2>. QED
    BY <1>1, <2>2, <2>3, <2>4, <2>5 DEF Init, TypeOK
<1>3. Timely /\ Stepped /\ ~refused /\ Running
  BY DEF Init, Timely, Stepped, Ascending, Running
<1>4. Talk
  BY DEF Init, Talk, Chain, Headed, Linked
<1>5. Content
  BY Numbers DEF Init, Content, Sampled, Logged, Bounded, Framed, Written, Exact, Sealed
<1>. QED
  BY <1>2, <1>3, <1>4, <1>5 DEF CaptureInv

LEMMA NextCapture == CaptureInv /\ [Next]_vars => CaptureInv'
<1>. SUFFICES ASSUME CaptureInv, [Next]_vars PROVE CaptureInv'
  OBVIOUS
<1>1. CASE ~abort /\ (Tick \/ FrameArrives)
  BY <1>1, WorldCapture
<1>2. CASE ~abort /\ Control
  BY <1>2, ControlCapture
<1>3. CASE ~abort /\ Writer
  BY <1>3, WriterCapture
<1>4. CASE ~abort /\ Loop
  BY <1>4, TakeCapture, TakeNoMoreCapture, StepOpen, StepSeals, FailCapture,
     PollNothingCapture, PollReportsCapture DEF Loop
<1>5. CASE ~abort /\ HeartbeatLost
  BY <1>5, FailCapture
<1>6. CASE ChildCloses
  BY <1>6, ClosesCapture
<1>7. CASE UNCHANGED vars
  <2>1. UNCHANGED <<now, arriving, stamped, control, outbox, inbox, abort, pc, child,
                    writer, final, pending, stored, read, early, refused>>
    BY <1>7 DEF vars, worldVars, controlVars, writerVars, episodeVars
  <2>2. TypeOK' /\ Timely' /\ Stepped' /\ (Running' <=> Running)
    BY <2>1 DEF CaptureInv, TypeOK, Timely, Stepped, Latest, Running
  <2>3. Talk => Talk'
    BY <2>1, TalkStable
  <2>4. Content => Content'
    BY <2>1, ContentStable
  <2>. QED
    BY <2>1, <2>2, <2>3, <2>4 DEF CaptureInv
<1>. QED
  BY <1>1, <1>2, <1>3, <1>4, <1>5, <1>6, <1>7 DEF Next

\* Whatever control, the cameras, the writer and the child do.
LEMMA AlwaysCapture == Spec => []CaptureInv
BY InitCapture, NextCapture, PTL DEF Spec

\* What is stored before the seal lies below the watermark, and so below the
\* cutoff of control, whether or not the child has heard of it.
LEMMA CaptureImplies ==
    ASSUME CaptureInv
    PROVE  WindowExact /\ ConfirmedBeforeSeal
<1>. SUFFICES ASSUME Running PROVE WindowExact /\ ConfirmedBeforeSeal
  BY DEF CaptureInv, Running, WindowExact, ConfirmedBeforeSeal, Sealed
<1>1. /\ Bounded /\ Framed /\ Exact /\ ~refused
      /\ TypeOK /\ Timely /\ Logged
  BY DEF CaptureInv, Content
<1>2. ConfirmedBeforeSeal
  BY <1>1 DEF Bounded, ConfirmedBeforeSeal
<1>3. ASSUME child.state = "finalizing", NEW r \in stored.frames
      PROVE  control.start <= r /\ (control.cutoff # None => r < control.cutoff)
  <2>1. child.start <= r /\ r < child.cutoff
    BY <1>1, <1>3 DEF Exact, Sealed
  <2>. QED
    BY <1>1, <1>3, <2>1 DEF Bounded
<1>4. ASSUME child.state = "recording", NEW r \in stored.frames
      PROVE  control.start <= r /\ (control.cutoff # None => r < control.cutoff)
  <2>1. child.start <= r /\ r < child.watermark
    BY <1>1, <1>4 DEF Framed
  <2>2. child.start = control.start /\ child.cutoff \in {None, control.cutoff}
    BY <1>1, <1>4 DEF Bounded
  <2>3. child.cutoff # None => child.watermark = control.cutoff
    BY <1>1, <1>4, <2>2 DEF Bounded
  <2>4. ASSUME child.cutoff = None, control.cutoff # None
        PROVE  r < control.cutoff
    <3>1. control.cutoff \in Nat /\ child.watermark <= control.cutoff
      BY <1>4, <2>4, ChildTimes
    <3>2. r \in Nat /\ child.watermark \in Nat
      <4>1. r \in Times /\ child.watermark \in Times
        BY <1>1 DEF TypeOK, StoredType, ChildType
      <4>. QED
        BY <4>1, Numbers
    <3>. QED
      BY <2>1, <3>1, <3>2
  <2>. QED
    BY <2>1, <2>2, <2>3, <2>4
<1>5. child.state = "finalizing" =>
         stored.log = <<<<"acquired", child.start>>>>
                         \o [i \in DOMAIN control.sent |-> <<"samples", control.sent[i]>>]
                         \o <<<<"released", child.cutoff>>>>
  BY <1>1 DEF Exact
<1>6. Sealed => stored.frames = {r \in read : child.start <= r /\ r < child.cutoff}
  BY <1>1 DEF Exact
<1>. QED
  BY <1>2, <1>3, <1>4, <1>5, <1>6 DEF WindowExact

(***************************************************************************)
(* Control and the recorder keep to their types: among them, the frames    *)
(* held back never exceed the capacity of _Capture.pending.                *)
(***************************************************************************)
THEOREM TypeCorrect == Spec => []TypeOK
<1>1. CaptureInv => TypeOK
  BY DEF CaptureInv
<1>. QED
  BY <1>1, AlwaysCapture, PTL

(***************************************************************************)
(* The episode that is sealed and reported holds exactly the frames of its *)
(* interval that _Capture.step read after begin was taken, its log is what *)
(* control sent between its acquisition and its release, and no frame from *)
(* outside the interval is stored at any moment before.                    *)
(***************************************************************************)
THEOREM WindowIsExact == Spec => []WindowExact
<1>. QED
  BY AlwaysCapture, CaptureImplies, PTL

(***************************************************************************)
(* _Capture never refuses a time or an order of the commands that          *)
(* CollectionSession sends, and seals only an episode whose hold control   *)
(* has confirmed.                                                          *)
(***************************************************************************)
THEOREM SealIsConfirmed == Spec => []ConfirmedBeforeSeal
<1>. QED
  BY AlwaysCapture, CaptureImplies, PTL
=============================================================================
