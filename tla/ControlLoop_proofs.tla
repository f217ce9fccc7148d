------------------------- MODULE ControlLoop_proofs -------------------------
(***************************************************************************)
(* What holds of the parts of ControlLoop for every value of their         *)
(* constants: what a confirmation of rest means, what the leader's reader  *)
(* makes of its mailbox, what a calibration keeps, and what the followers' *)
(* twin and the observer do with what they are offered.                    *)
(***************************************************************************)
EXTENDS ControlLoop, TLAPS

-----------------------------------------------------------------------------
(* The standstill policy.  The object forgets its samples; the inductive    *)
(* invariant Accounted names them again.  The last accepted sample p has    *)
(* only been repeated since, and an open window is an unbroken stretch of   *)
(* rest S that ends in p and begins at the sample the object remembers.     *)

\* The last accepted sample of h is the p-th.
Anchored(h, w, p) ==
    /\ p \in DOMAIN h
    /\ h[p].at = w.previous
    /\ \A k \in (p + 1) .. Len(h) : Repeated(w.previous, h[k].at)

\* The open window is the stretch S, which begins at i and ends at p.
Opened(h, w, p, S, i) ==
    /\ Anchored(h, w, p)
    /\ Rest(h, S)
    /\ p \in S /\ i \in S
    /\ \A j \in S : i <= j /\ j <= p
    /\ h[i].at = w.start

Accounted ==
    /\ TypeOK
    /\ window.previous # None => \E p \in Nat : Anchored(samples, window, p)
    /\ window.start # None =>
          \E p \in Nat, S \in SUBSET Nat, i \in Nat :
              Opened(samples, window, p, S, i)
    /\ HoldMeasured

-----------------------------------------------------------------------------

LEMMA InitAccounted == ASSUME Init PROVE Accounted
<1>1. /\ window = [previous |-> None, start |-> None]
      /\ samples = <<>> /\ confirmed = FALSE
  BY DEF Init, Fresher
<1>2. window \in [previous : Place \cup {None}, start : Place \cup {None}]
  BY <1>1
<1>3. samples \in Seq(Sample)
  BY <1>1
<1> QED BY <1>1, <1>2, <1>3 DEF Accounted, TypeOK, HoldMeasured

\* One update, whatever the sample: the object's new fields again describe
\* the longer history, and what it says is true of that history.
LEMMA UpdateAccounted ==
    ASSUME Accounted, NEW at \in Place, NEW slow \in BOOLEAN, Update(at, slow)
    PROVE  Accounted'
<1> DEFINE n == Len(samples) + 1
           h == samples'
<1>1. /\ window \in [previous : Place \cup {None}, start : Place \cup {None}]
      /\ window.start # None => window.previous # None
      /\ samples \in Seq(Sample)
      /\ None \notin Place
      /\ Fresh \in Nat /\ Stable \in Nat
  BY SettlingAssumption DEF Accounted, TypeOK
<1>2. /\ h = Append(samples, [at |-> at, slow |-> slow])
      /\ window' = Kept(window, at, slow)
      /\ confirmed' = Confirms(window, at, slow)
  BY DEF Update
<1>3. /\ h \in Seq(Sample)
      /\ Len(h) = n
      /\ n \in Nat /\ Len(samples) \in Nat
      /\ DOMAIN h = 1 .. n
      /\ DOMAIN samples = 1 .. Len(samples)
      /\ h[n].at = at /\ h[n].slow = slow
      /\ \A j \in DOMAIN samples : h[j] = samples[j]
      /\ \A j \in DOMAIN h : h[j].at \in Place
  <2>1. [at |-> at, slow |-> slow] \in Sample
    BY DEF Sample
  <2>2. h \in Seq(Sample) /\ Len(h) = n /\ n \in Nat /\ Len(samples) \in Nat
    BY <1>1, <1>2, <2>1
  <2>3. /\ DOMAIN h = 1 .. n
        /\ DOMAIN samples = 1 .. Len(samples)
        /\ h[n] = [at |-> at, slow |-> slow]
        /\ \A j \in DOMAIN samples : h[j] = samples[j]
    BY <1>1, <1>2, <2>1
  <2>4. \A j \in DOMAIN h : h[j] \in Sample
    BY <2>2, <2>3
  <2> QED BY <2>2, <2>3, <2>4 DEF Sample
<1> HIDE DEF h
<1>4. CASE Ignores(window, at)
  <2>1. window' = window /\ confirmed' = FALSE
    BY <1>2, <1>4 DEF Kept, Confirms
  <2>2. window.previous # None /\ Repeated(window.previous, at)
    BY <1>4 DEF Ignores
  <2>3. ASSUME NEW p \in Nat, Anchored(samples, window, p)
        PROVE  Anchored(h, window, p)
    <3>1. p \in DOMAIN h /\ h[p].at = window.previous
      BY <2>3, <1>3 DEF Anchored
    <3>2. ASSUME NEW k \in (p + 1) .. Len(h)
          PROVE  Repeated(window.previous, h[k].at)
      <4>1. CASE k = n  BY <4>1, <1>3, <2>2
      <4>2. CASE k # n
        <5>1. k \in (p + 1) .. Len(samples) /\ k \in DOMAIN samples
          BY <4>2, <1>3
        <5> QED BY <5>1, <2>3, <1>3 DEF Anchored
      <4> QED BY <4>1, <4>2
    <3> QED BY <3>1, <3>2 DEF Anchored
  <2>4. ASSUME NEW p \in Nat, NEW S \in SUBSET Nat, NEW i \in Nat,
               Opened(samples, window, p, S, i)
        PROVE  Opened(h, window, p, S, i)
    <3>1. Anchored(h, window, p)
      BY <2>3, <2>4 DEF Opened
    <3>2. S \subseteq DOMAIN samples /\ i \in S /\ p \in S
      BY <2>4 DEF Opened, Rest
    <3>3. \A a, b \in S : Linked(samples, a, b) => Linked(h, a, b)
      <4>1. \A k \in S : k \in DOMAIN samples /\ h[k] = samples[k]
        BY <3>2, <1>3
      <4> SUFFICES ASSUME NEW a \in S, NEW b \in S, Linked(samples, a, b)
                   PROVE  Linked(h, a, b)
        OBVIOUS
      <4>2. \A k \in (a + 1) .. (b - 1) : k \in DOMAIN samples /\ h[k] = samples[k]
        BY <4>1, <1>3
      <4> QED BY <4>1, <4>2 DEF Linked
    <3>4. Rest(h, S)
      BY <3>2, <3>3, <2>4, <1>3 DEF Opened, Rest
    <3> QED BY <3>1, <3>2, <3>4, <2>4, <1>3 DEF Opened
  <2>5. window'.previous # None => \E p \in Nat : Anchored(h, window', p)
    BY <2>1, <2>3 DEF Accounted
  <2>6. window'.start # None =>
            \E p \in Nat, S \in SUBSET Nat, i \in Nat : Opened(h, window', p, S, i)
    BY <2>1, <2>4 DEF Accounted
  <2> QED BY <2>1, <2>5, <2>6, <1>1, <1>3 DEF Accounted, TypeOK, HoldMeasured, h
<1>5. CASE ~Ignores(window, at) /\ ~slow
  <2>1. window' = [previous |-> at, start |-> None] /\ confirmed' = FALSE
    BY <1>2, <1>5 DEF Kept, Confirms
  <2>2. Anchored(h, window', n)
    BY <2>1, <1>3 DEF Anchored
  <2> QED BY <2>1, <2>2, <1>1, <1>3 DEF Accounted, TypeOK, HoldMeasured, h
<1>6. CASE ~Ignores(window, at) /\ slow
  <2>1. /\ window'.previous = at
        /\ window'.start = IF Reopens(window, at) THEN at ELSE window.start
        /\ window'.start \in Place
        /\ window' \in [previous : Place \cup {None}, start : Place \cup {None}]
    BY <1>1, <1>2, <1>6 DEF Kept, Reopens
  <2>2. Anchored(h, window', n)
    BY <2>1, <1>3 DEF Anchored
  <2>3. \E S \in SUBSET Nat, i \in Nat : Opened(h, window', n, S, i)
    <3>1. CASE Reopens(window, at)
      <4>1. Rest(h, {n})
        <5>1. n \in DOMAIN h /\ h[n].slow /\ ~(n < n)
          BY <1>3, <1>6
        <5> QED BY <5>1 DEF Rest
      <4> QED BY <4>1, <2>1, <2>2, <3>1, <1>3 DEF Opened
    <3>2. CASE ~Reopens(window, at)
      <4>1. /\ window.start # None /\ window.previous # None
            /\ ~Broken(window.previous, at)
            /\ ~Repeated(window.previous, at)
            /\ window.previous \in Place
            /\ window'.start = window.start
        BY <3>2, <1>1, <1>6, <2>1 DEF Reopens, Ignores
      <4>2. \A c \in Clocks : Gap(window.previous, at, c) \in 1 .. Fresh
        BY <4>1, <1>1 DEF Broken, Repeated, Gap, Clocks, Place
      <4>3. PICK p \in Nat, S \in SUBSET Nat, i \in Nat :
                Opened(samples, window, p, S, i)
        BY <4>1 DEF Accounted
      <4>4. /\ S \subseteq DOMAIN samples /\ p \in S /\ i \in S
            /\ \A j \in S : i <= j /\ j <= p
            /\ \A j \in S : samples[j].slow
            /\ samples[i].at = window.start
            /\ samples[p].at = window.previous
        BY <4>3 DEF Opened, Anchored, Rest
      <4>5. Linked(h, p, n)
        <5>1. \A c \in Clocks : Gap(h[p].at, h[n].at, c) \in 1 .. Fresh
          BY <4>2, <4>4, <1>3
        <5>2. \A k \in (p + 1) .. (n - 1) : Repeated(h[p].at, h[k].at)
          BY <4>3, <4>4, <1>3 DEF Opened, Anchored
        <5> QED BY <5>1, <5>2 DEF Linked
      <4>6. ASSUME NEW a \in S \cup {n}, NEW b \in S \cup {n}, a < b,
                   \A k \in S \cup {n} : k <= a \/ b <= k
            PROVE  Linked(h, a, b)
        <5>1. CASE b = n
          <6>1. a \in S /\ p <= a /\ a <= p /\ a \in Nat
            BY <5>1, <4>4, <4>6, <1>3
          <6> QED BY <6>1, <5>1, <4>5
        <5>2. CASE b # n
          <6>1. a \in S /\ b \in S
            BY <5>2, <4>4, <4>6, <1>3
          <6>2. Linked(samples, a, b)
            BY <6>1, <4>3, <4>6 DEF Opened, Rest
          <6>3. a \in 1 .. Len(samples) /\ b \in 1 .. Len(samples)
            BY <6>1, <4>4, <1>3
          <6> QED BY <6>2, <6>3, <1>3 DEF Linked
        <5> QED BY <5>1, <5>2
      <4>7. Rest(h, S \cup {n})
        <5>1. S \cup {n} \subseteq DOMAIN h
          <6>1. S \subseteq 1 .. Len(samples) /\ DOMAIN h = 1 .. n
            BY <4>4, <1>3
          <6>2. n \in 1 .. n /\ 1 .. Len(samples) \subseteq 1 .. n
            BY <1>3
          <6> QED BY <6>1, <6>2
        <5>2. \A j \in S \cup {n} : h[j].slow
          BY <4>4, <1>3, <1>6
        <5> QED BY <5>1, <5>2, <4>6 DEF Rest
      <4>8. Opened(h, window', n, S \cup {n}, i)
        BY <4>1, <4>4, <4>7, <2>2, <1>3 DEF Opened
      <4> QED BY <4>8, <1>3
    <3> QED BY <3>1, <3>2
  <2>4. confirmed' =>
            \E S \in SUBSET DOMAIN h :
                /\ Rest(h, S)
                /\ Len(h) \in S
                /\ \E i \in S : (\A j \in S : i <= j) /\ Spans(h, i, Len(h))
    <3> SUFFICES ASSUME confirmed'
                 PROVE \E S \in SUBSET DOMAIN h :
                          /\ Rest(h, S)
                          /\ Len(h) \in S
                          /\ \E i \in S :
                                (\A j \in S : i <= j) /\ Spans(h, i, Len(h))
      OBVIOUS
    <3>1. PICK S \in SUBSET Nat, i \in Nat : Opened(h, window', n, S, i)
      BY <2>3
    <3>2. \A c \in Clocks : Gap(window'.start, at, c) >= Stable
      BY <1>2 DEF Confirms
    <3>3. Spans(h, i, n)
      BY <3>1, <3>2, <1>3 DEF Spans, Opened
    <3> QED BY <3>1, <3>3, <1>3 DEF Opened, Rest
  <2>5. TypeOK'
    BY <2>1, <1>1, <1>2, <1>3 DEF TypeOK, h, Confirms
  <2>6. /\ \E p \in Nat : Anchored(h, window', p)
        /\ \E p \in Nat, S \in SUBSET Nat, i \in Nat : Opened(h, window', p, S, i)
    BY <2>2, <2>3, <1>3
  <2> QED BY <2>4, <2>5, <2>6 DEF Accounted, HoldMeasured, h
<1> QED BY <1>4, <1>5, <1>6

\* Every step is an update at some place.
LEMMA NextUpdates ==
    ASSUME TypeOK, Next
    PROVE  \E at \in Place, slow \in BOOLEAN : Update(at, slow)
<1>1. Last \in Place
  <2>1. CASE samples = <<>>
    BY <2>1 DEF Last, Place
  <2>2. CASE samples # <<>>
    <3>1. samples \in Seq(Sample)
      BY DEF TypeOK
    <3>2. samples[Len(samples)] \in Sample
      BY <2>2, <3>1
    <3> QED BY <2>2, <3>2 DEF Last, Sample
  <2> QED BY <2>1, <2>2
<1>2. PICK jump \in Jumps \X Jumps, slow \in BOOLEAN :
          Update(<<Last[1] + jump[1], Last[2] + jump[2]>>, slow)
  BY DEF Next
<1>3. <<Last[1] + jump[1], Last[2] + jump[2]>> \in Place
  <2>1. Last[1] \in Int /\ Last[2] \in Int
    BY <1>1 DEF Place
  <2>2. jump[1] \in Int /\ jump[2] \in Int
    BY StandstillAssumption
  <2> QED BY <2>1, <2>2 DEF Place
<1> QED BY <1>2, <1>3

LEMMA StepAccounted == ASSUME Accounted, [Next]_vars PROVE Accounted'
<1>1. CASE Next
  <2>1. PICK at \in Place, slow \in BOOLEAN : Update(at, slow)
    BY <1>1, NextUpdates DEF Accounted
  <2> QED BY <2>1, UpdateAccounted
<1>2. CASE UNCHANGED vars
  BY <1>2 DEF vars, Accounted, TypeOK, HoldMeasured
<1> QED BY <1>1, <1>2

\* Standing still is only ever said at the end of an unbroken stretch of slow
\* samples, Stable long on both clocks (settling.Standstill.update).
THEOREM HoldIsMeasured == Spec => []HoldMeasured
<1>1. Init => Accounted                  BY InitAccounted
<1>2. Accounted /\ [Next]_vars => Accounted'  BY StepAccounted
<1>3. Accounted => HoldMeasured          BY DEF Accounted
<1> QED BY <1>1, <1>2, <1>3, PTL DEF Spec

-----------------------------------------------------------------------------
(* The other direction needs no history of the window, only where it       *)
(* starts: a run of steady samples has moved the window's last sample to   *)
(* its own end and has not moved its start past the run's second sample.   *)

\* Samples i to n of h are slow and advance on both clocks within Fresh.
Steady(h, i, n) ==
    /\ \A j \in i .. n : h[j].slow
    /\ \A j \in i .. (n - 1), c \in Clocks : Gap(h[j].at, h[j + 1].at, c) \in 1 .. Fresh

NotAfter(p, q) == \A c \in Clocks : p[c] <= q[c]

\* The window has followed every steady run that reaches the last sample.
Followed(h, w) ==
    \A i \in DOMAIN h : i < Len(h) /\ Steady(h, i, Len(h)) =>
        /\ w.previous = h[Len(h)].at
        /\ w.start # None
        /\ NotAfter(w.start, h[i + 1].at)

Granting ==
    /\ TypeOK
    /\ window.start # None => NotAfter(window.start, window.previous)
    /\ samples # <<>> =>
          /\ window.previous # None
          /\ \/ window.previous = samples[Len(samples)].at
             \/ Repeated(window.previous, samples[Len(samples)].at)
    /\ Followed(samples, window)
    /\ HoldGranted

\* A sample that advances on both clocks is accepted whatever came before: if
\* the last one was passed over, this one is still no repetition.
LEMMA AdvanceAccepted ==
    ASSUME NEW p \in Place, NEW q \in Place, NEW r \in Place,
           p = q \/ Repeated(p, q),
           \A c \in Clocks : Gap(q, r, c) \in 1 .. Fresh
    PROVE  ~Repeated(p, r) /\ (p = q => ~Broken(p, r))
<1>1. \A c \in Clocks : p[c] \in Int /\ q[c] \in Int /\ r[c] \in Int
  BY DEF Clocks, Place
<1>2. \A c \in Clocks : Gap(p, q, c) >= 0
  <2>1. CASE p = q
    BY <1>1, <2>1 DEF Gap
  <2>2. CASE Repeated(p, q)
    BY <1>1, <2>2 DEF Repeated, Broken, Gap
  <2> QED BY <2>1, <2>2
<1>3. \A c \in Clocks : Gap(p, r, c) # 0
  BY <1>1, <1>2, SettlingAssumption DEF Gap
<1>4. ~Repeated(p, r)
  BY <1>3 DEF Repeated
<1>5. p = q => ~Broken(p, r)
  BY <1>1, SettlingAssumption DEF Broken, Gap
<1> QED BY <1>4, <1>5

\* One update of the object.
LEMMA UpdateGranting ==
    ASSUME Granting, NEW at \in Place, NEW slow \in BOOLEAN, Update(at, slow)
    PROVE  Granting'
<1> DEFINE n == Len(samples) + 1
           h == samples'
<1>1. /\ window \in [previous : Place \cup {None}, start : Place \cup {None}]
      /\ window.start # None => window.previous # None
      /\ samples \in Seq(Sample)
      /\ None \notin Place
      /\ Fresh \in Nat /\ Stable \in Nat
  BY SettlingAssumption DEF Granting, TypeOK
<1>2. /\ h = Append(samples, [at |-> at, slow |-> slow])
      /\ window' = Kept(window, at, slow)
      /\ confirmed' = Confirms(window, at, slow)
  BY DEF Update
<1>3. /\ h \in Seq(Sample)
      /\ Len(h) = n
      /\ n \in Nat /\ Len(samples) \in Nat
      /\ DOMAIN h = 1 .. n
      /\ DOMAIN samples = 1 .. Len(samples)
      /\ h[n].at = at /\ h[n].slow = slow
      /\ \A j \in DOMAIN samples : h[j] = samples[j]
      /\ \A j \in DOMAIN h : h[j].at \in Place
  <2>1. [at |-> at, slow |-> slow] \in Sample
    BY DEF Sample
  <2>2. h \in Seq(Sample) /\ Len(h) = n /\ n \in Nat /\ Len(samples) \in Nat
    BY <1>1, <1>2, <2>1
  <2>3. /\ DOMAIN h = 1 .. n
        /\ DOMAIN samples = 1 .. Len(samples)
        /\ h[n] = [at |-> at, slow |-> slow]
        /\ \A j \in DOMAIN samples : h[j] = samples[j]
    BY <1>1, <1>2, <2>1
  <2>4. \A j \in DOMAIN h : h[j] \in Sample
    BY <2>2, <2>3
  <2> QED BY <2>2, <2>3, <2>4 DEF Sample
<1> HIDE DEF h
<1>4. \A p \in Place : p[1] \in Int /\ p[2] \in Int
  BY DEF Place
<1>5. TypeOK'
  BY <1>1, <1>2, <1>3 DEF TypeOK, Kept, Reopens, Ignores, Confirms, h
<1>6. /\ window'.previous # None
      /\ window'.previous = at \/ Repeated(window'.previous, at)
  BY <1>1, <1>2 DEF Kept, Ignores
<1>7. window'.start # None => NotAfter(window'.start, window'.previous)
  <2>1. CASE Ignores(window, at)
    BY <1>2, <2>1 DEF Kept, Granting
  <2>2. CASE ~Ignores(window, at) /\ ~slow
    BY <1>2, <2>2 DEF Kept
  <2>3. CASE ~Ignores(window, at) /\ slow /\ Reopens(window, at)
    BY <1>2, <1>4, <2>3 DEF Kept, NotAfter, Clocks
  <2>4. CASE ~Ignores(window, at) /\ slow /\ ~Reopens(window, at)
    <3>1. /\ window.start \in Place /\ window.previous \in Place /\ ~Broken(window.previous, at)
          /\ NotAfter(window.start, window.previous)
          /\ window'.start = window.start /\ window'.previous = at
      BY <1>1, <1>2, <2>4 DEF Kept, Reopens, Granting
    <3> QED BY <1>4, <3>1 DEF NotAfter, Broken, Gap, Clocks
  <2> QED BY <2>1, <2>2, <2>3, <2>4
<1>8. ASSUME NEW i \in 1 .. Len(samples), Steady(h, i, n)
      PROVE  /\ window'.previous = at /\ slow /\ ~Ignores(window, at)
             /\ window'.start # None /\ window'.start \in Place
             /\ NotAfter(window'.start, h[i + 1].at)
  <2> DEFINE last == samples[Len(samples)].at
  <2>1. /\ samples # <<>> /\ Len(samples) \in DOMAIN samples /\ last = h[Len(samples)].at
        /\ last \in Place
    BY <1>1, <1>3
  <2>2. slow /\ \A c \in Clocks : Gap(last, at, c) \in 1 .. Fresh
    <3>1. n \in i .. n /\ Len(samples) \in i .. (n - 1) /\ Len(samples) + 1 = n
      BY <1>3
    <3> QED BY <1>3, <1>8, <2>1, <3>1 DEF Steady
  <2>3. window.previous \in Place /\ (window.previous = last \/ Repeated(window.previous, last))
    BY <1>1, <2>1 DEF Granting
  <2> HIDE DEF last
  <2>4. ~Repeated(window.previous, at) /\ (window.previous = last => ~Broken(window.previous, at))
    BY <2>1, <2>2, <2>3, AdvanceAccepted
  <2>5. ~Ignores(window, at) /\ window'.previous = at
        /\ window'.start = (IF Reopens(window, at) THEN at ELSE window.start)
    BY <1>2, <2>2, <2>4 DEF Ignores, Kept
  <2>6. window'.start # None /\ window'.start \in Place
    BY <1>1, <2>5 DEF Reopens
  <2>7. CASE i = Len(samples)
    <3>1. h[i + 1].at = window'.previous
      BY <1>3, <2>5, <2>7
    <3> QED BY <1>7, <2>2, <2>5, <2>6, <3>1
  <2>8. CASE i < Len(samples)
    <3>1. Steady(samples, i, Len(samples))
      <4>1. \A j \in i .. Len(samples) : j \in i .. n /\ j \in DOMAIN samples
        BY <1>3
      <4>2. \A j \in i .. (Len(samples) - 1) :
               j \in i .. (n - 1) /\ j \in DOMAIN samples /\ j + 1 \in DOMAIN samples
        BY <1>3
      <4> QED BY <1>3, <1>8, <4>1, <4>2 DEF Steady
    <3>2. /\ window.previous = last /\ window.start # None
          /\ NotAfter(window.start, samples[i + 1].at)
      BY <1>3, <2>8, <3>1 DEF Granting, Followed, last
    <3>3. window'.start = window.start
      BY <2>4, <2>5, <3>2 DEF Reopens
    <3>4. h[i + 1] = samples[i + 1]
      <4>1. i + 1 \in DOMAIN samples
        BY <1>3, <2>8
      <4> QED BY <1>3, <4>1
    <3> QED BY <2>2, <2>5, <2>6, <3>2, <3>3, <3>4
  <2> QED BY <2>7, <2>8
<1>9. Followed(h, window')
  <2> SUFFICES ASSUME NEW i \in DOMAIN h, i < n, Steady(h, i, n)
               PROVE  /\ window'.previous = h[n].at
                      /\ window'.start # None
                      /\ NotAfter(window'.start, h[i + 1].at)
    BY <1>3 DEF Followed
  <2>1. i \in 1 .. Len(samples)
    BY <1>3
  <2> QED BY <1>3, <1>8, <2>1
<1>10. ASSUME NEW i \in DOMAIN h, i + 1 < n, Steady(h, i, n), Spans(h, i + 1, n)
       PROVE  confirmed'
  <2>1. i \in 1 .. Len(samples) /\ i + 1 \in DOMAIN h
    BY <1>3, <1>10
  <2>2. /\ slow /\ ~Ignores(window, at) /\ window'.start \in Place
        /\ NotAfter(window'.start, h[i + 1].at)
    BY <1>8, <1>10, <2>1
  <2>3. \A c \in Clocks : Gap(window'.start, at, c) >= Stable
    <3>1. h[i + 1].at \in Place /\ \A c \in Clocks : Gap(h[i + 1].at, at, c) >= Stable
      BY <1>3, <1>10, <2>1 DEF Spans
    <3>2. ASSUME NEW c \in Clocks PROVE Gap(window'.start, at, c) >= Stable
      <4>1. window'.start[c] <= h[i + 1].at[c] /\ at[c] - h[i + 1].at[c] >= Stable
        BY <2>2, <3>1 DEF NotAfter, Gap
      <4>2. window'.start[c] \in Int /\ h[i + 1].at[c] \in Int /\ at[c] \in Int
        BY <1>4, <2>2, <3>1 DEF Clocks
      <4> QED BY <1>1, <4>1, <4>2 DEF Gap
    <3> QED BY <3>2
  <2> QED BY <1>2, <2>2, <2>3 DEF Confirms
<1>11. HoldGranted'
  <2> SUFFICES ASSUME NEW i \in DOMAIN h, i + 1 < Len(h),
                      \A j \in i .. Len(h) : h[j].slow,
                      \A j \in i .. (Len(h) - 1), c \in Clocks :
                          Gap(h[j].at, h[j + 1].at, c) \in 1 .. Fresh,
                      Spans(h, i + 1, Len(h))
               PROVE  confirmed'
    BY DEF HoldGranted, h
  <2>1. Steady(h, i, n)
    BY <1>3 DEF Steady
  <2> QED BY <1>3, <1>10, <2>1
<1> QED BY <1>3, <1>5, <1>6, <1>7, <1>9, <1>11 DEF Granting, h

\* A hold is said as soon as the samples show it (settling.Standstill.update):
\* after any history, whatever the window kept of it.
THEOREM HoldIsGranted == Spec => []HoldGranted
<1>1. Init => Granting
  <2> SUFFICES ASSUME Init PROVE Granting
    OBVIOUS
  <2>1. TypeOK
    BY InitAccounted DEF Accounted
  <2>2. samples = <<>> /\ DOMAIN samples = {} /\ window.start = None
    BY DEF Init, Fresher
  <2> QED BY <2>1, <2>2 DEF Granting, Followed, HoldGranted
<1>2. Granting /\ [Next]_vars => Granting'
  <2> SUFFICES ASSUME Granting, [Next]_vars PROVE Granting'
    OBVIOUS
  <2>1. CASE Next
    <3>1. PICK at \in Place, slow \in BOOLEAN : Update(at, slow)
      BY <2>1, NextUpdates DEF Granting
    <3> QED BY <3>1, UpdateGranting
  <2>2. CASE UNCHANGED vars
    BY <2>2 DEF vars, Granting, TypeOK, Followed, HoldGranted
  <2> QED BY <2>1, <2>2
<1>3. Granting => HoldGranted
  BY DEF Granting
<1> QED BY <1>1, <1>2, <1>3, PTL DEF Spec

-----------------------------------------------------------------------------

-----------------------------------------------------------------------------
(* The leader's mailbox, its reader and its consumer.                       *)

Mailboxes ==
    [newest : LeaderSamples \cup {None}, pending : Seq(LeaderSamples), fault : BOOLEAN,
     health : [start : Int, end : Int, torque : BOOLEAN] \cup {None}]
Readers ==
    [step : {"off", "opening", "first_health", "wait", "sync", "health", "exited"},
     n : Int, start : Int, due : Int, ready : BOOLEAN, stop : BOOLEAN]
Consumers ==
    [mode : {"control", "capture"},
     step : {"new", "starting", "open", "view", "view_leading", "drain", "drain_leading",
             "leading", "evidence", "write", "closing", "closed", "not_joined"},
     at : Int, recent : Seq(LeaderSamples), batch : Seq(LeaderSamples),
     reading : LeaderSamples \cup {None}, fault : BOOLEAN, dropped : BOOLEAN]

LeaderTyped ==
    /\ now \in Int
    /\ mailbox \in Mailboxes
    /\ reader \in Readers
    /\ consumer \in Consumers
    /\ intent \in [sample : LeaderSamples, at : Int, fault : BOOLEAN] \cup {None}
    /\ acquired \in Seq(LeaderSamples) /\ written \in Seq(LeaderSamples)

Leading == {"leading", "view_leading", "drain_leading"}
Ended == {"closing", "closed", "not_joined"}

\* What the consumer knows: a call that passed the view began before a fault,
\* and an engagement goes on from the sample of its last intent.
IntentHeld(box, c, i) ==
    /\ c.step \in {"view", "view_leading", "drain", "drain_leading"} /\ c.fault => box.fault
    /\ c.step \in {"drain", "drain_leading"} => ~c.fault
    /\ c.step \in Leading => i # None /\ c.reading = i.sample
    /\ c.step \notin Leading \cup Ended => i = None

\* What a capture has written, taken and not taken yet is what was acquired,
\* all of it unless the mailbox refused some.
CaptureHeld(box, c, r, acq, wrt) ==
    /\ c.batch # <<>> => c.step = "write"
    /\ c.step \in {"evidence", "write"} => c.mode = "capture"
    /\ c.mode = "capture" =>
         /\ c.step \notin Leading \cup {"view", "drain"}
         /\ c.step = "write" => c.batch # <<>>
         /\ c.step = "closed" => r.step = "exited" /\ box.pending = <<>>
         /\ ~c.dropped =>
              LET kept == wrt \o c.batch \o box.pending
              IN  Leader!IsPrefix(kept, acq) /\ (kept # acq => box.fault)

LeaderOrdered ==
    /\ LeaderTyped
    /\ IntentHeld(mailbox, consumer, intent)
    /\ CaptureHeld(mailbox, consumer, reader, acquired, written)

LeaderLive ==
    intent' # intent =>
         /\ Leader!StillFresh(intent'.sample, intent'.at) /\ ~intent'.fault
         /\ intent # None => \/ intent'.sample = intent.sample
                             \/ Leader!Advances(intent.sample, intent'.sample)

-----------------------------------------------------------------------------
(* The sequences of a capture.                                              *)

LEMMA PrefixSelf ==
    ASSUME NEW S, NEW s \in Seq(S) PROVE Leader!IsPrefix(s, s)
  BY DEF Leader!IsPrefix

LEMMA PrefixAppended ==
    ASSUME NEW S, NEW s \in Seq(S), NEW t \in Seq(S), NEW x \in S, Leader!IsPrefix(s, t)
    PROVE  Leader!IsPrefix(s, Append(t, x))
  BY DEF Leader!IsPrefix

LEMMA KeptAppended ==
    ASSUME NEW S, NEW a \in Seq(S), NEW b \in Seq(S), NEW x \in S
    PROVE  a \o Append(b, x) = Append(a \o b, x)
  OBVIOUS

LEMMA KeptWritten ==
    ASSUME NEW S, NEW w \in Seq(S), NEW b \in Seq(S), b # <<>>
    PROVE  /\ Append(w, Head(b)) \o Tail(b) = w \o b
           /\ Head(b) \in S /\ Tail(b) \in Seq(S)
           /\ Len(b) = 1 <=> Tail(b) = <<>>
<1>1. Head(b) \in S /\ Tail(b) \in Seq(S) /\ Len(Tail(b)) = Len(b) - 1 /\ Len(b) \in Nat
  OBVIOUS
<1>5. Len(b) = 1 <=> Tail(b) = <<>>
  BY <1>1
<1> DEFINE l == Append(w, Head(b)) \o Tail(b)
           r == w \o b
<1>2. l \in Seq(S) /\ r \in Seq(S) /\ Len(l) = Len(r)
  BY <1>1
<1>3. ASSUME NEW i \in 1 .. Len(l) PROVE l[i] = r[i]
  <2>1. CASE i <= Len(w)
    BY <1>1, <2>1
  <2>2. CASE i = Len(w) + 1
    BY <1>1, <2>2
  <2>3. CASE i > Len(w) + 1
    BY <1>1, <2>3
  <2> QED BY <1>1, <1>2, <2>1, <2>2, <2>3
<1>4. l = r
  <2> HIDE DEF l, r
  <2> QED BY <1>2, <1>3
<1> QED BY <1>1, <1>4, <1>5

LEMMA KeptTaken ==
    ASSUME NEW S, NEW w \in Seq(S), NEW p \in Seq(S)
    PROVE  w \o <<>> \o p = w \o p /\ (w \o p) \o <<>> = w \o p
  OBVIOUS

-----------------------------------------------------------------------------

LEMMA LeaderInit == ASSUME Leader!Init PROVE LeaderOrdered
<1>1. /\ mailbox \in Mailboxes /\ mailbox.pending = <<>> /\ mailbox.fault = FALSE
      /\ reader \in Readers
      /\ now = 0 /\ intent = None /\ acquired = <<>> /\ written = <<>>
  BY DEF Leader!Init, Mailboxes, Readers
<1>2. consumer \in Consumers /\ consumer.step = "new" /\ consumer.batch = <<>>
  BY DEF Leader!Init, Consumers
<1>3. LeaderTyped
  BY <1>1, <1>2 DEF LeaderTyped
<1>4. IntentHeld(mailbox, consumer, intent)
  BY <1>1, <1>2 DEF IntentHeld, Leading
<1>5. CaptureHeld(mailbox, consumer, reader, acquired, written)
  <2> DEFINE none == <<>>
  <2>2. none \in Seq(LeaderSamples) /\ none \o none \o none = none
    OBVIOUS
  <2>1. Leader!IsPrefix(none, none)
    BY <2>2, PrefixSelf
  <2> QED BY <1>1, <1>2, <2>1, <2>2 DEF CaptureHeld, Leading
<1> QED BY <1>3, <1>4, <1>5 DEF LeaderOrdered

\* The reader, or the clock: the consumer and its intent stay, a fault stays,
\* and a reader that has ended does not go on.
LEMMA LeaderReads ==
    ASSUME LeaderOrdered, mailbox' \in Mailboxes, reader' \in Readers, now' \in Int,
           UNCHANGED <<consumer, intent, acquired, written>>,
           mailbox'.pending = mailbox.pending, mailbox.fault => mailbox'.fault,
           reader.step = "exited" => reader'.step = "exited"
    PROVE  LeaderOrdered' /\ LeaderLive
<1>1. LeaderTyped'
  BY DEF LeaderOrdered, LeaderTyped
<1>2. IntentHeld(mailbox', consumer', intent')
  BY DEF LeaderOrdered, IntentHeld
<1>3. CaptureHeld(mailbox', consumer', reader', acquired', written')
  BY DEF LeaderOrdered, CaptureHeld
<1> QED BY <1>1, <1>2, <1>3 DEF LeaderOrdered, LeaderLive

LEMMA LeaderPublishes ==
    ASSUME LeaderOrdered, Leader!ReaderPublishes PROVE LeaderOrdered' /\ LeaderLive
<1> DEFINE sample == [n |-> reader.n + 1, start |-> reader.start, end |-> now]
           published == [mailbox EXCEPT !.newest = sample, !.pending = Append(@, sample)]
           refused == [mailbox EXCEPT !.fault = TRUE]
<1>1. /\ mailbox \in Mailboxes /\ reader \in Readers /\ consumer \in Consumers /\ now \in Int
      /\ acquired \in Seq(LeaderSamples) /\ written \in Seq(LeaderSamples)
      /\ mailbox.pending \in Seq(LeaderSamples) /\ consumer.batch \in Seq(LeaderSamples)
  BY DEF LeaderOrdered, LeaderTyped, Mailboxes, Consumers
<1>2. sample \in LeaderSamples
  BY <1>1 DEF Readers, LeaderSamples
<1> HIDE DEF sample
<1>3. /\ reader.step = "sync" /\ UNCHANGED <<now, consumer, written, intent>>
      /\ acquired' = IF consumer.mode = "capture" THEN Append(acquired, sample) ELSE acquired
      /\ \/ ~mailbox.fault /\ mailbox' = published
         \/ mailbox' = refused
  BY DEF Leader!ReaderPublishes, Leader!Publish, Leader!Refuses, Leader!Faulted,
     Leader!OthersThanReader, sample
<1>4. published \in Mailboxes /\ published.fault = mailbox.fault
      /\ published.pending = Append(mailbox.pending, sample)
  <2>1. Append(mailbox.pending, sample) \in Seq(LeaderSamples)
    BY <1>1, <1>2
  <2> QED BY <1>1, <1>2, <2>1 DEF Mailboxes
<1>5. refused \in Mailboxes /\ refused.fault = TRUE /\ refused.pending = mailbox.pending
  BY <1>1 DEF Mailboxes
<1>6. reader' \in Readers
  <2>1. \/ Leader!ReaderEnds
        \/ \E step \in {"health", "wait"} :
              reader' = [reader EXCEPT !.n = @ + 1, !.ready = TRUE, !.start = now, !.step = step]
    BY DEF Leader!ReaderPublishes
  <2>2. CASE Leader!ReaderEnds
    BY <1>1, <2>2 DEF Leader!ReaderEnds, Readers
  <2>3. ASSUME NEW step \in {"health", "wait"},
               reader' = [reader EXCEPT !.n = @ + 1, !.ready = TRUE, !.start = now, !.step = step]
        PROVE  reader' \in Readers
    <3>1. reader.n + 1 \in Int
      BY <1>1 DEF Readers
    <3> DEFINE n == reader.n + 1
    <3>2. reader' = [reader EXCEPT !.n = n, !.ready = TRUE, !.start = now, !.step = step]
      BY <1>1, <2>3 DEF Readers
    <3> HIDE DEF n
    <3> QED BY <1>1, <3>1, <3>2 DEF Readers, n
  <2> QED BY <2>1, <2>2, <2>3
<1> HIDE DEF published, refused
<1>7. acquired' \in Seq(LeaderSamples)
  BY <1>1, <1>2, <1>3
<1>8. LeaderTyped'
  BY <1>3, <1>4, <1>5, <1>6, <1>7 DEF LeaderOrdered, LeaderTyped
<1>9. IntentHeld(mailbox', consumer', intent')
  BY <1>3, <1>4, <1>5 DEF LeaderOrdered, IntentHeld
<1>10. CaptureHeld(mailbox', consumer', reader', acquired', written')
  <2> DEFINE w == written \o consumer.batch
             kept == w \o mailbox.pending
  <2>1. CaptureHeld(mailbox, consumer, reader, acquired, written)
    BY DEF LeaderOrdered
  <2>2. w \in Seq(LeaderSamples) /\ kept \in Seq(LeaderSamples)
    BY <1>1
  <2>3. CASE consumer.mode = "capture" /\ ~consumer.dropped
    <3>1. /\ Leader!IsPrefix(kept, acquired) /\ (kept # acquired => mailbox.fault)
          /\ acquired' = Append(acquired, sample) /\ consumer.step # "closed"
      BY <1>3, <2>1, <2>3 DEF CaptureHeld
    <3>2. CASE ~mailbox.fault /\ mailbox' = published
      <4>1. w \o mailbox'.pending = acquired'
        <5>1. kept = acquired /\ mailbox'.pending = Append(mailbox.pending, sample)
          BY <1>4, <3>1, <3>2
        <5>2. w \o Append(mailbox.pending, sample) = Append(kept, sample)
          <6> HIDE DEF w
          <6> QED BY <1>1, <1>2, <2>2, KeptAppended
        <5> HIDE DEF w, kept
        <5> QED BY <3>1, <5>1, <5>2
      <4>2. Leader!IsPrefix(acquired', acquired')
        BY <1>7, PrefixSelf
      <4> QED BY <1>3, <2>1, <2>3, <3>1, <4>1, <4>2 DEF CaptureHeld
    <3>3. CASE mailbox' = refused
      <4>1. w \o mailbox'.pending = kept /\ mailbox'.fault
        BY <1>5, <3>3
      <4> HIDE DEF kept
      <4>2. Leader!IsPrefix(kept, acquired')
        BY <1>1, <1>2, <2>2, <3>1, PrefixAppended
      <4> QED BY <1>3, <2>1, <2>3, <3>1, <4>1, <4>2 DEF CaptureHeld
    <3> QED BY <1>3, <3>2, <3>3
  <2>4. CASE ~(consumer.mode = "capture" /\ ~consumer.dropped)
    BY <1>3, <2>1, <2>4 DEF CaptureHeld
  <2> QED BY <2>3, <2>4
<1> QED BY <1>3, <1>8, <1>9, <1>10 DEF LeaderOrdered, LeaderLive

LEMMA LeaderReaderStep ==
    ASSUME LeaderOrdered,
           \/ Leader!Tick \/ Leader!ReaderFails \/ Leader!ReaderOpens \/ Leader!ReaderHealth
           \/ Leader!ReaderSyncs \/ Leader!ReaderStops
    PROVE  LeaderOrdered' /\ LeaderLive
<1>1. /\ mailbox \in Mailboxes /\ reader \in Readers /\ now \in Int /\ HealthEvery \in Int
  BY LoopAssumption DEF LeaderOrdered, LeaderTyped
<1>2. UNCHANGED <<consumer, intent, acquired, written>> /\ now' \in Int
  BY <1>1 DEF Leader!Tick, Leader!ReaderFails, Leader!ReaderOpens, Leader!ReaderHealth,
     Leader!ReaderSyncs, Leader!ReaderStops, Leader!OthersThanReader
<1>3. reader' \in Readers /\ (reader.step = "exited" => reader'.step = "exited")
  <2>1. CASE Leader!ReaderHealth
    <3> DEFINE due == now + HealthEvery
    <3>1. due \in Int
      BY <1>1
    <3>2. \/ reader' = [reader EXCEPT !.step = "exited", !.ready = TRUE]
          \/ reader' = [reader EXCEPT !.step = "wait", !.due = due]
      BY <2>1 DEF Leader!ReaderHealth, Leader!ReaderEnds
    <3> HIDE DEF due
    <3>3. reader.step # "exited"
      BY <2>1 DEF Leader!ReaderHealth
    <3> QED BY <1>1, <3>1, <3>2, <3>3 DEF Readers
  <2>2. CASE ~Leader!ReaderHealth
    BY <1>1, <2>2 DEF Leader!Tick, Leader!ReaderFails, Leader!ReaderOpens,
       Leader!ReaderSyncs, Leader!ReaderStops, Leader!ReaderEnds, Readers
  <2> QED BY <2>1, <2>2
<1>4. /\ mailbox' \in Mailboxes /\ mailbox'.pending = mailbox.pending
      /\ mailbox.fault => mailbox'.fault
  <2>1. CASE Leader!ReaderFails
    BY <1>1, <2>1 DEF Leader!ReaderFails, Leader!Faulted, Mailboxes
  <2>2. CASE Leader!ReaderHealth
    <3>1. \/ mailbox' = mailbox
          \/ \E torque \in BOOLEAN : mailbox' =
                [mailbox EXCEPT !.health = [start |-> reader.start, end |-> now, torque |-> torque]]
      BY <2>2 DEF Leader!ReaderHealth
    <3>2. reader.start \in Int
      BY <1>1 DEF Readers
    <3> QED BY <1>1, <3>1, <3>2 DEF Mailboxes
  <2>3. CASE ~Leader!ReaderFails /\ ~Leader!ReaderHealth
    BY <1>1, <2>3 DEF Leader!Tick, Leader!ReaderOpens, Leader!ReaderSyncs, Leader!ReaderStops
  <2> QED BY <2>1, <2>2, <2>3
<1> QED BY <1>2, <1>3, <1>4, LeaderReads
-----------------------------------------------------------------------------
(* The consumer.                                                            *)

\* A consumer that closes the source, or goes on without a new intent.
LEMMA LeaderGoesOn ==
    ASSUME LeaderOrdered, mailbox' \in Mailboxes, reader' \in Readers, consumer' \in Consumers,
           UNCHANGED <<now, intent, acquired, written>>,
           IntentHeld(mailbox', consumer', intent'),
           CaptureHeld(mailbox', consumer', reader', acquired', written')
    PROVE  LeaderOrdered' /\ LeaderLive
<1>1. LeaderTyped'
  BY DEF LeaderOrdered, LeaderTyped
<1> QED BY <1>1 DEF LeaderOrdered, LeaderLive

\* Only a control consumer takes samples without writing them.
LEMMA LeaderCloses ==
    ASSUME LeaderOrdered, NEW box, Leader!Closing(box),
           UNCHANGED <<now, intent, acquired, written>>,
           consumer.step # "write",
           \/ box \in {mailbox, Leader!Faulted(mailbox)}
           \/ /\ consumer.step \in {"drain", "drain_leading"}
              /\ box = [mailbox EXCEPT !.pending = <<>>]
    PROVE  LeaderOrdered' /\ LeaderLive
<1>1. /\ mailbox \in Mailboxes /\ reader \in Readers /\ consumer \in Consumers
      /\ CaptureHeld(mailbox, consumer, reader, acquired, written)
  BY DEF LeaderOrdered, LeaderTyped
<1>2. mailbox.pending \in Seq(LeaderSamples) /\ <<>> \in Seq(LeaderSamples)
  BY <1>1 DEF Mailboxes
<1>3. /\ mailbox' = [box EXCEPT !.fault = TRUE]
      /\ reader' = [reader EXCEPT !.stop = TRUE]
      /\ consumer' = [consumer EXCEPT !.step = "closing", !.batch = <<>>]
  BY DEF Leader!Closing, Leader!Faulted
<1>4. /\ mailbox' \in Mailboxes /\ mailbox'.fault = TRUE
      /\ \/ mailbox'.pending = mailbox.pending
         \/ consumer.step \in {"drain", "drain_leading"}
  <2>1. box \in Mailboxes /\ (\/ box.pending = mailbox.pending
                              \/ consumer.step \in {"drain", "drain_leading"})
    BY <1>1, <1>2 DEF Mailboxes, Leader!Faulted
  <2> QED BY <1>3, <2>1 DEF Mailboxes
<1>5. reader' \in Readers
  BY <1>1, <1>3 DEF Readers
<1>6. /\ consumer' \in Consumers /\ consumer'.step = "closing" /\ consumer'.batch = <<>>
      /\ consumer'.mode = consumer.mode /\ consumer'.dropped = consumer.dropped
  BY <1>1, <1>2, <1>3 DEF Consumers
<1>7. IntentHeld(mailbox', consumer', intent')
  BY <1>6 DEF IntentHeld, Leading, Ended
<1>8. CaptureHeld(mailbox', consumer', reader', acquired', written')
  <2>1. consumer.batch = <<>>
    BY <1>1 DEF CaptureHeld
  <2>2. CASE consumer.mode = "capture"
    <3>1. mailbox'.pending = mailbox.pending
      BY <1>1, <1>4, <2>2 DEF CaptureHeld, Leading
    <3> QED BY <1>1, <1>4, <1>6, <2>1, <2>2, <3>1 DEF CaptureHeld, Leading
  <2>3. CASE consumer.mode # "capture"
    BY <1>6, <2>3 DEF CaptureHeld
  <2> QED BY <2>2, <2>3
<1> QED BY <1>4, <1>5, <1>6, <1>7, <1>8, LeaderGoesOn

\* The consumer's own step, beside its mailbox and its reader's.
LEMMA LeaderMoves ==
    ASSUME LeaderOrdered, UNCHANGED <<now, mailbox, intent, acquired, written>>,
           \/ reader' = reader
           \/ reader' = [reader EXCEPT !.step = "opening"] /\ reader.step # "exited",
           NEW to \in {"starting", "open", "view", "view_leading", "drain", "drain_leading",
                       "evidence"},
           \/ consumer' = [consumer EXCEPT !.step = to] /\ to \notin {"view", "view_leading"}
           \/ /\ consumer' = [consumer EXCEPT !.step = to, !.at = now, !.fault = mailbox.fault]
              /\ to \in {"view", "view_leading"},
           consumer.step \notin {"write", "closing", "closed", "not_joined"},
           to \in Leading <=> consumer.step \in Leading,
           to \in {"drain", "drain_leading"} => /\ consumer.step \in {"view", "view_leading"}
                                                /\ ~mailbox.fault,
           to \in Leading \cup {"view", "drain"} => consumer.mode = "control",
           to = "evidence" => consumer.mode = "capture"
    PROVE  LeaderOrdered' /\ LeaderLive
<1>1. /\ mailbox \in Mailboxes /\ reader \in Readers /\ consumer \in Consumers /\ now \in Int
      /\ IntentHeld(mailbox, consumer, intent)
      /\ CaptureHeld(mailbox, consumer, reader, acquired, written)
  BY DEF LeaderOrdered, LeaderTyped
<1>2. reader' \in Readers
  BY <1>1 DEF Readers
<1>3. /\ consumer' \in Consumers /\ consumer'.step = to /\ consumer'.batch = consumer.batch
      /\ consumer'.mode = consumer.mode /\ consumer'.dropped = consumer.dropped
      /\ consumer'.reading = consumer.reading
      /\ consumer'.fault = IF to \in {"view", "view_leading"} THEN mailbox.fault ELSE consumer.fault
  BY <1>1 DEF Consumers, Mailboxes
<1>4. IntentHeld(mailbox', consumer', intent')
  BY <1>1, <1>3 DEF IntentHeld, Leading, Ended
<1>5. CaptureHeld(mailbox', consumer', reader', acquired', written')
  BY <1>1, <1>3 DEF CaptureHeld, Leading
<1> QED BY <1>1, <1>2, <1>3, <1>4, <1>5, LeaderGoesOn

LEMMA LeaderControls ==
    ASSUME LeaderOrdered,
           \/ Leader!Start \/ Leader!StartReturns \/ Leader!StartTimesOut \/ Leader!CloseStarts
           \/ Leader!CallBegins \/ Leader!CallViews \/ Leader!CaptureViews \/ Leader!CaptureIdles
    PROVE  LeaderOrdered' /\ LeaderLive
<1>1. UNCHANGED <<now, intent, acquired, written>>
  BY DEF Leader!Start, Leader!StartReturns, Leader!StartTimesOut, Leader!CloseStarts,
     Leader!CallBegins, Leader!CallViews, Leader!CaptureViews, Leader!CaptureIdles, Leader!Quiet
<1>2. consumer.step \notin {"write", "closing", "closed", "not_joined"}
  BY DEF Leader!Start, Leader!StartReturns, Leader!StartTimesOut, Leader!CloseStarts,
     Leader!CallBegins, Leader!CallViews, Leader!CaptureViews, Leader!CaptureIdles, Leader!At
<1>3. consumer \in Consumers
  BY DEF LeaderOrdered, LeaderTyped
<1>4. Leader!Viewed(mailbox, now) \in {mailbox, Leader!Faulted(mailbox)}
  BY DEF Leader!Viewed
<1>5. CASE Leader!Closing(mailbox) \/ Leader!Closing(Leader!Viewed(mailbox, now))
  BY <1>1, <1>2, <1>4, <1>5, LeaderCloses
<1>6. CASE Leader!Start
  <2>1. /\ reader' = [reader EXCEPT !.step = "opening"] /\ reader.step # "exited"
        /\ consumer' = [consumer EXCEPT !.step = "starting"] /\ consumer.step = "new"
        /\ mailbox' = mailbox
    BY <1>6 DEF Leader!Start, Leader!ReaderTo, Leader!ConsumerTo, Leader!At
  <2> QED BY <1>1, <1>2, <2>1, LeaderMoves DEF Leading
<1>7. CASE (Leader!StartReturns \/ Leader!CaptureIdles) /\ ~Leader!Closing(mailbox)
  <2>1. /\ consumer' = [consumer EXCEPT !.step = "open"]
        /\ consumer.step \in {"starting", "evidence"}
        /\ mailbox' = mailbox /\ reader' = reader
    BY <1>7 DEF Leader!StartReturns, Leader!CaptureIdles, Leader!ConsumerTo, Leader!At
  <2> QED BY <1>1, <1>2, <2>1, LeaderMoves DEF Leading
<1>8. CASE Leader!CallBegins
  <2> DEFINE to == IF consumer.step = "open" THEN "view" ELSE "view_leading"
  <2>1. /\ consumer' = [consumer EXCEPT !.step = to, !.at = now, !.fault = mailbox.fault]
        /\ consumer.mode = "control"
        /\ consumer.step \in {"open", "leading"}
        /\ mailbox' = mailbox /\ reader' = reader
    BY <1>8 DEF Leader!CallBegins, Leader!At, Leader!Control
  <2>2. /\ to \in {"view", "view_leading"} /\ (to \in Leading <=> consumer.step \in Leading)
    BY <2>1 DEF Leading
  <2> HIDE DEF to
  <2> QED BY <1>1, <1>2, <2>1, <2>2, LeaderMoves
<1>9. CASE Leader!CallViews /\ ~Leader!Closing(Leader!Viewed(mailbox, now))
  <2> DEFINE to == IF consumer.step = "view_leading" THEN "drain_leading" ELSE "drain"
  <2>1. /\ consumer' = [consumer EXCEPT !.step = to] /\ ~mailbox.fault
        /\ consumer.step \in {"view", "view_leading"}
        /\ mailbox' = mailbox /\ reader' = reader
    BY <1>9 DEF Leader!CallViews, Leader!At, Leader!ConsumerTo, Leader!Engaged, Leader!Viewable,
       Leader!NotReady
  <2>2. to \in {"drain", "drain_leading"} /\ (to \in Leading <=> consumer.step \in Leading)
    BY <2>1 DEF Leading
  <2>3. consumer.mode = "control"
    BY <1>3, <2>1 DEF LeaderOrdered, CaptureHeld, Leading, Consumers
  <2> HIDE DEF to
  <2> QED BY <1>1, <1>2, <2>1, <2>2, <2>3, LeaderMoves
<1>10. CASE Leader!CaptureViews /\ ~Leader!Closing(Leader!Viewed(mailbox, now))
  <2>1. /\ consumer' = [consumer EXCEPT !.step = "evidence"] /\ consumer.step = "open"
        /\ consumer.mode = "capture"
        /\ mailbox' = mailbox /\ reader' = reader
    BY <1>10 DEF Leader!CaptureViews, Leader!At, Leader!ConsumerTo, Leader!Capture
  <2> QED BY <1>1, <1>2, <2>1, LeaderMoves DEF Leading
<1> QED BY <1>5, <1>6, <1>7, <1>8, <1>9, <1>10 DEF Leader!StartTimesOut, Leader!CloseStarts

-----------------------------------------------------------------------------
(* The two calls of the control loop that make intents.                     *)

\* What a call reads was complete when it began.
LEMMA LeaderRetained ==
    ASSUME LeaderOrdered
    PROVE  /\ Leader!Retained \in Seq(LeaderSamples)
           /\ \A i \in DOMAIN Leader!Retained : Leader!Retained[i] \in LeaderSamples
<1> DEFINE all == consumer.recent \o mailbox.pending
<1>1. all \in Seq(LeaderSamples)
  BY DEF LeaderOrdered, LeaderTyped, Mailboxes, Consumers
<1> HIDE DEF all
<1>2. Leader!Retained = IF Len(all) <= 16 THEN all ELSE SubSeq(all, Len(all) - 16 + 1, Len(all))
  BY DEF Leader!Retained, Leader!Deque, all
<1>3. Leader!Retained \in Seq(LeaderSamples)
  BY <1>1, <1>2
<1> QED BY <1>3

LEMMA LeaderLeads ==
    ASSUME LeaderOrdered, NEW i \in DOMAIN Leader!Retained,
           Leader!Leads(Leader!Retained[i]), Leader!Drains,
           UNCHANGED <<now, reader, acquired, written>>,
           consumer.step \in {"drain", "drain_leading"},
           Leader!StillFresh(Leader!Retained[i], consumer.at),
           intent # None => \/ Leader!Retained[i] = intent.sample
                            \/ Leader!Advances(intent.sample, Leader!Retained[i])
    PROVE  LeaderOrdered' /\ LeaderLive
<1> DEFINE sample == Leader!Retained[i]
           kept == Leader!Retained
           made == [sample |-> sample, at |-> consumer.at, fault |-> consumer.fault]
<1>1. /\ mailbox \in Mailboxes /\ consumer \in Consumers /\ reader \in Readers
      /\ IntentHeld(mailbox, consumer, intent)
      /\ CaptureHeld(mailbox, consumer, reader, acquired, written)
  BY DEF LeaderOrdered, LeaderTyped
<1>2. sample \in LeaderSamples /\ kept \in Seq(LeaderSamples) /\ <<>> \in Seq(LeaderSamples)
  BY LeaderRetained
<1>3. /\ consumer' = [consumer EXCEPT !.step = "leading", !.reading = sample, !.recent = kept]
      /\ intent' = made
      /\ mailbox' = [mailbox EXCEPT !.pending = <<>>]
  BY DEF Leader!Leads, Leader!Intent, Leader!Drains
<1> HIDE DEF kept, sample
<1>4. mailbox' \in Mailboxes
  BY <1>1, <1>2, <1>3 DEF Mailboxes
<1>5. /\ consumer' \in Consumers /\ consumer'.step = "leading" /\ consumer'.reading = sample
      /\ consumer'.mode = consumer.mode /\ consumer'.batch = consumer.batch
  BY <1>1, <1>2, <1>3 DEF Consumers
<1>6. consumer.mode # "capture" /\ consumer.batch = <<>> /\ ~consumer.fault
  BY <1>1 DEF CaptureHeld, IntentHeld, Leading
<1>7. made \in [sample : LeaderSamples, at : Int, fault : BOOLEAN] /\ made # None
      /\ made.sample = sample /\ made.at = consumer.at /\ ~made.fault
  <2>1. made \in [sample : LeaderSamples, at : Int, fault : BOOLEAN]
    BY <1>1, <1>2 DEF Consumers
  <2> QED BY <1>6, <2>1, LoopAssumption
<1> HIDE DEF made
<1>8. LeaderTyped'
  BY <1>3, <1>4, <1>5, <1>7 DEF LeaderOrdered, LeaderTyped
<1>9. IntentHeld(mailbox', consumer', intent')
  BY <1>3, <1>5, <1>7 DEF IntentHeld, Leading, Ended
<1>10. CaptureHeld(mailbox', consumer', reader', acquired', written')
  BY <1>5, <1>6 DEF CaptureHeld
<1>11. LeaderLive
  BY <1>3, <1>7 DEF LeaderLive, sample
<1> QED BY <1>8, <1>9, <1>10, <1>11 DEF LeaderOrdered

LEMMA LeaderEngages == ASSUME LeaderOrdered, Leader!Engage PROVE LeaderOrdered' /\ LeaderLive
<1>1. /\ consumer.step = "drain" /\ UNCHANGED <<now, acquired, written>>
  BY DEF Leader!Engage, Leader!At
<1>2. CASE Leader!Closing([mailbox EXCEPT !.pending = <<>>]) /\ UNCHANGED intent
  BY <1>1, <1>2, LeaderCloses
<1>3. ASSUME NEW i \in DOMAIN Leader!Retained, Leader!GoodReference(consumer.at), Leader!Drains,
             reader' = reader, Leader!IsNewest(i, consumer.at), Leader!Leads(Leader!Retained[i])
      PROVE  LeaderOrdered' /\ LeaderLive
  <2>1. Leader!StillFresh(Leader!Retained[i], consumer.at)
    BY <1>3 DEF Leader!GoodReference, Leader!IsNewest
  <2>2. intent = None
    BY <1>1 DEF LeaderOrdered, IntentHeld, Leading, Ended
  <2> QED BY <1>1, <1>3, <2>1, <2>2, LeaderLeads
<1>4. CASE /\ consumer' = [consumer EXCEPT !.step = "open", !.recent = Leader!Retained]
           /\ Leader!Drains /\ UNCHANGED <<intent, reader>>
  <2> DEFINE kept == Leader!Retained
  <2>1. /\ mailbox \in Mailboxes /\ consumer \in Consumers /\ reader \in Readers
        /\ IntentHeld(mailbox, consumer, intent)
        /\ CaptureHeld(mailbox, consumer, reader, acquired, written)
    BY DEF LeaderOrdered, LeaderTyped
  <2>2. kept \in Seq(LeaderSamples) /\ <<>> \in Seq(LeaderSamples)
    BY LeaderRetained
  <2> HIDE DEF kept
  <2>3. mailbox' \in Mailboxes
    BY <1>4, <2>1, <2>2 DEF Mailboxes, Leader!Drains
  <2>4. /\ consumer' \in Consumers /\ consumer'.step = "open" /\ consumer'.mode = consumer.mode
        /\ consumer'.batch = consumer.batch
    BY <1>4, <2>1, <2>2 DEF Consumers, kept
  <2>5. IntentHeld(mailbox', consumer', intent')
    BY <1>1, <1>4, <2>1, <2>4 DEF IntentHeld, Leading, Ended
  <2>6. CaptureHeld(mailbox', consumer', reader', acquired', written')
    BY <1>1, <2>1, <2>4 DEF CaptureHeld, Leading
  <2> QED BY <1>1, <1>4, <2>1, <2>3, <2>4, <2>5, <2>6, LeaderGoesOn
<1> QED BY <1>2, <1>3, <1>4 DEF Leader!Engage

LEMMA LeaderFollows == ASSUME LeaderOrdered, Leader!Follow PROVE LeaderOrdered' /\ LeaderLive
<1>1. /\ consumer.step = "drain_leading" /\ UNCHANGED <<now, acquired, written>>
  BY DEF Leader!Follow, Leader!At
<1>2. CASE Leader!Closing([mailbox EXCEPT !.pending = <<>>]) /\ UNCHANGED intent
  BY <1>1, <1>2, LeaderCloses
<1>3. ASSUME NEW i \in DOMAIN Leader!Retained, Leader!Drains, reader' = reader,
             Leader!IsNewest(i, consumer.at), Leader!Usable(Leader!Retained[i], consumer.at),
             Leader!Leads(Leader!Retained[i])
      PROVE  LeaderOrdered' /\ LeaderLive
  <2>1. intent # None /\ consumer.reading = intent.sample
    BY <1>1 DEF LeaderOrdered, IntentHeld, Leading
  <2>2. Leader!Retained[i].end <= consumer.at
    BY <1>3 DEF Leader!IsNewest, Leader!Readings
  <2>3. Leader!StillFresh(Leader!Retained[i], consumer.at)
    BY <1>3, <2>2 DEF Leader!Usable, Leader!StillFresh
  <2>4. \/ Leader!Retained[i] = intent.sample
        \/ Leader!Advances(intent.sample, Leader!Retained[i])
    BY <1>3, <2>1 DEF Leader!Usable
  <2> QED BY <1>1, <1>3, <2>3, <2>4, LeaderLeads
<1> QED BY <1>2, <1>3 DEF Leader!Follow

-----------------------------------------------------------------------------
(* The capture, and the end of the source.                                  *)

LEMMA LeaderDrains ==
    ASSUME LeaderOrdered, Leader!CaptureDrains
    PROVE  LeaderOrdered' /\ LeaderLive
<1> DEFINE p == mailbox.pending
<1>1. /\ mailbox \in Mailboxes /\ consumer \in Consumers /\ reader \in Readers
      /\ IntentHeld(mailbox, consumer, intent)
      /\ CaptureHeld(mailbox, consumer, reader, acquired, written)
      /\ written \in Seq(LeaderSamples) /\ p \in Seq(LeaderSamples)
      /\ <<>> \in Seq(LeaderSamples)
  BY DEF LeaderOrdered, LeaderTyped, Mailboxes
<1>2. /\ consumer.step = "evidence" /\ p # <<>>
      /\ consumer' = [consumer EXCEPT !.step = "write", !.batch = p]
      /\ mailbox' = [mailbox EXCEPT !.pending = <<>>]
      /\ UNCHANGED <<now, intent, acquired, written, reader>>
  BY DEF Leader!CaptureDrains, Leader!At, Leader!Quiet
<1> HIDE DEF p
<1>3. /\ mailbox' \in Mailboxes /\ mailbox'.pending = <<>> /\ mailbox'.fault = mailbox.fault
      /\ consumer' \in Consumers /\ consumer'.step = "write" /\ consumer'.batch = p
      /\ consumer'.mode = consumer.mode /\ consumer'.dropped = consumer.dropped
  BY <1>1, <1>2 DEF Mailboxes, Consumers
<1>4. IntentHeld(mailbox', consumer', intent')
  BY <1>1, <1>2, <1>3 DEF IntentHeld, Leading, Ended
<1>5. consumer.batch = <<>>
  BY <1>1, <1>2 DEF CaptureHeld
<1>6. written \o consumer'.batch \o mailbox'.pending = written \o consumer.batch \o mailbox.pending
  BY <1>1, <1>3, <1>5, KeptTaken DEF p
<1>7. CaptureHeld(mailbox', consumer', reader', acquired', written')
  <2> DEFINE kept == written \o consumer.batch \o mailbox.pending
  <2>1. written' \o consumer'.batch \o mailbox'.pending = kept
    BY <1>2, <1>6
  <2> HIDE DEF kept
  <2>2. consumer.mode = "capture" /\ ~consumer.dropped =>
          Leader!IsPrefix(kept, acquired) /\ (kept # acquired => mailbox.fault)
    BY <1>1 DEF CaptureHeld, kept
  <2>3. consumer.mode = "capture"
    BY <1>1, <1>2 DEF CaptureHeld
  <2> QED BY <1>2, <1>3, <2>1, <2>2, <2>3 DEF CaptureHeld, Leading
<1> QED BY <1>1, <1>2, <1>3, <1>4, <1>7, LeaderGoesOn

LEMMA LeaderWrites ==
    ASSUME LeaderOrdered, Leader!CaptureWrites
    PROVE  LeaderOrdered' /\ LeaderLive
<1> DEFINE b == consumer.batch
           w == Append(written, Head(b))
           to == IF Len(b) = 1 THEN "open" ELSE "write"
<1>1. /\ consumer \in Consumers /\ reader \in Readers
      /\ IntentHeld(mailbox, consumer, intent)
      /\ CaptureHeld(mailbox, consumer, reader, acquired, written)
      /\ written \in Seq(LeaderSamples) /\ b \in Seq(LeaderSamples)
  BY DEF LeaderOrdered, LeaderTyped, Consumers
<1>2. /\ consumer.step = "write" /\ written' = w
      /\ consumer' = [consumer EXCEPT !.batch = Tail(b), !.step = to]
      /\ UNCHANGED <<now, intent, acquired, mailbox, reader>>
  BY <1>1 DEF Leader!CaptureWrites, Leader!At, Consumers
<1>3. consumer.mode = "capture" /\ b # <<>>
  BY <1>1, <1>2 DEF CaptureHeld
<1>4. /\ w \o Tail(b) = written \o b /\ w \in Seq(LeaderSamples)
      /\ Tail(b) \in Seq(LeaderSamples) /\ (Len(b) = 1 <=> Tail(b) = <<>>)
  <2> HIDE DEF b
  <2> QED BY <1>1, <1>3, KeptWritten
<1> HIDE DEF w
<1>5. /\ consumer' \in Consumers /\ consumer'.step = to /\ consumer'.batch = Tail(b)
      /\ consumer'.mode = consumer.mode /\ consumer'.dropped = consumer.dropped
  <2> DEFINE t == Tail(b)
  <2>1. t \in Seq(LeaderSamples) /\ to \in {"open", "write"}
    BY <1>4
  <2> HIDE DEF t, to
  <2> QED BY <1>1, <1>2, <2>1 DEF Consumers, t
<1>6. IntentHeld(mailbox', consumer', intent')
  BY <1>1, <1>2, <1>5 DEF IntentHeld, Leading, Ended
<1>7. CaptureHeld(mailbox', consumer', reader', acquired', written')
  <2> DEFINE kept == written \o consumer.batch \o mailbox.pending
  <2>1. written' \o consumer'.batch \o mailbox'.pending = kept
    BY <1>2, <1>4, <1>5
  <2> HIDE DEF kept
  <2>2. ~consumer.dropped =>
          Leader!IsPrefix(kept, acquired) /\ (kept # acquired => mailbox.fault)
    BY <1>1, <1>3 DEF CaptureHeld, kept
  <2>3. /\ consumer'.batch # <<>> <=> consumer'.step = "write"
        /\ consumer'.step \in {"open", "write"}
    BY <1>4, <1>5
  <2> HIDE DEF b, to
  <2> QED BY <1>2, <1>3, <1>5, <2>1, <2>2, <2>3 DEF CaptureHeld, Leading
<1>8. LeaderTyped'
  BY <1>2, <1>4, <1>5 DEF LeaderOrdered, LeaderTyped
<1> QED BY <1>2, <1>6, <1>7, <1>8 DEF LeaderOrdered, LeaderLive

LEMMA LeaderBreaks ==
    ASSUME LeaderOrdered, Leader!CaptureBreaks
    PROVE  LeaderOrdered' /\ LeaderLive
<1>1. /\ mailbox \in Mailboxes /\ consumer \in Consumers /\ reader \in Readers
      /\ <<>> \in Seq(LeaderSamples)
  BY DEF LeaderOrdered, LeaderTyped
<1>2. /\ mailbox' = [mailbox EXCEPT !.fault = TRUE]
      /\ reader' = [reader EXCEPT !.stop = TRUE]
      /\ consumer' = [consumer EXCEPT !.step = "closing", !.batch = <<>>, !.dropped = TRUE]
      /\ UNCHANGED <<now, intent, acquired, written>>
  BY DEF Leader!CaptureBreaks, Leader!Faulted, Leader!Quiet
<1>3. /\ mailbox' \in Mailboxes /\ reader' \in Readers
      /\ consumer' \in Consumers /\ consumer'.step = "closing" /\ consumer'.batch = <<>>
      /\ consumer'.dropped = TRUE
  BY <1>1, <1>2 DEF Mailboxes, Readers, Consumers
<1>4. IntentHeld(mailbox', consumer', intent')
  BY <1>3 DEF IntentHeld, Leading, Ended
<1>5. CaptureHeld(mailbox', consumer', reader', acquired', written')
  BY <1>3 DEF CaptureHeld, Leading
<1> QED BY <1>2, <1>3, <1>4, <1>5, LeaderGoesOn

LEMMA LeaderJoins == ASSUME LeaderOrdered, Leader!CloseJoins PROVE LeaderOrdered' /\ LeaderLive
<1> DEFINE p == mailbox.pending
           w == written \o p
<1>1. /\ mailbox \in Mailboxes /\ consumer \in Consumers /\ reader \in Readers
      /\ CaptureHeld(mailbox, consumer, reader, acquired, written)
      /\ written \in Seq(LeaderSamples) /\ p \in Seq(LeaderSamples)
      /\ <<>> \in Seq(LeaderSamples)
  BY DEF LeaderOrdered, LeaderTyped, Mailboxes
<1>2. /\ consumer.step = "closing" /\ UNCHANGED <<now, intent, acquired, reader>>
      /\ \/ /\ reader.step = "exited" /\ consumer' = [consumer EXCEPT !.step = "closed"]
            /\ \/ /\ consumer.mode = "capture" /\ written' = w
                  /\ mailbox' = [mailbox EXCEPT !.pending = <<>>]
               \/ consumer.mode # "capture" /\ UNCHANGED <<written, mailbox>>
         \/ /\ consumer' = [consumer EXCEPT !.step = "not_joined"]
            /\ UNCHANGED <<written, mailbox>>
  BY DEF Leader!CloseJoins, Leader!At, Leader!ConsumerTo
<1>3. consumer.batch = <<>> /\ w \in Seq(LeaderSamples)
  BY <1>1, <1>2 DEF CaptureHeld
<1>4. written \o <<>> \o p = w /\ w \o <<>> \o <<>> = w
  BY <1>1, <1>3, KeptTaken
<1> HIDE DEF w
<1>5. /\ mailbox' \in Mailboxes /\ mailbox'.fault = mailbox.fault
      /\ consumer' \in Consumers /\ consumer'.step \in {"closed", "not_joined"}
      /\ consumer'.batch = <<>>
      /\ consumer'.mode = consumer.mode /\ consumer'.dropped = consumer.dropped
      /\ written' \in Seq(LeaderSamples)
  BY <1>1, <1>2, <1>3 DEF Mailboxes, Consumers
<1>6. IntentHeld(mailbox', consumer', intent')
  BY <1>5 DEF IntentHeld, Leading, Ended
<1>7. CaptureHeld(mailbox', consumer', reader', acquired', written')
  <2>1. CASE consumer.mode = "capture"
    <3>1. written' \o consumer'.batch \o mailbox'.pending = w
      <4>1. CASE written' = w /\ mailbox' = [mailbox EXCEPT !.pending = <<>>]
        <5>1. mailbox'.pending = <<>>
          BY <1>1, <4>1 DEF Mailboxes
        <5> QED BY <1>4, <1>5, <4>1, <5>1
      <4>2. CASE UNCHANGED <<written, mailbox>>
        BY <1>4, <1>5, <4>2
      <4> QED BY <1>2, <2>1, <4>1, <4>2
    <3>2. ~consumer.dropped => Leader!IsPrefix(w, acquired) /\ (w # acquired => mailbox.fault)
      BY <1>1, <1>3, <1>4, <2>1 DEF CaptureHeld
    <3>3. consumer'.step = "closed" => reader'.step = "exited" /\ mailbox'.pending = <<>>
      BY <1>1, <1>2, <1>5, <2>1 DEF Mailboxes, Consumers
    <3> QED BY <1>2, <1>5, <2>1, <3>1, <3>2, <3>3 DEF CaptureHeld, Leading
  <2>2. CASE consumer.mode # "capture"
    BY <1>3, <1>5, <2>2 DEF CaptureHeld
  <2> QED BY <2>1, <2>2
<1>8. LeaderTyped'
  BY <1>2, <1>5 DEF LeaderOrdered, LeaderTyped
<1> QED BY <1>2, <1>6, <1>7, <1>8 DEF LeaderOrdered, LeaderLive

-----------------------------------------------------------------------------

LEMMA LeaderStep ==
    ASSUME LeaderOrdered, [Leader!Next]_(Leader!vars) PROVE LeaderOrdered' /\ LeaderLive
<1>1. CASE UNCHANGED Leader!vars
  BY <1>1 DEF Leader!vars, LeaderOrdered, LeaderTyped, IntentHeld, CaptureHeld, LeaderLive
<1>2. CASE Leader!Next
  BY <1>2, LeaderReaderStep, LeaderPublishes, LeaderControls, LeaderEngages, LeaderFollows,
     LeaderDrains, LeaderWrites, LeaderBreaks, LeaderJoins DEF Leader!Next
<1> QED BY <1>1, <1>2

LEMMA LeaderAlwaysOrdered == Leader!Spec => []LeaderOrdered
<1>1. Leader!Init => LeaderOrdered
  BY LeaderInit
<1>2. LeaderOrdered /\ [Leader!Next]_(Leader!vars) => LeaderOrdered'
  BY LeaderStep
<1> QED BY <1>1, <1>2, PTL DEF Leader!Spec

(* The evidence of a leader capture is whole: what was written, what is     *)
(* about to be and what waits in the mailbox is every acquisition, in order *)
(* up to the first one refused, and a refusal is latched.  For every        *)
(* capacity, whatever the reader and the capture's thread do in between.    *)
THEOREM EvidenceIsWhole == Leader!Spec => []EvidenceWhole
<1>1. LeaderOrdered => EvidenceWhole
  BY DEF LeaderOrdered, CaptureHeld, EvidenceWhole, Leader!EvidenceWhole, Leader!Capture,
     Leader!At
<1> QED BY <1>1, LeaderAlwaysOrdered, PTL

(* Every intent is made of a sample that was complete and fresh when the    *)
(* call began, that is the one of the intent before or follows it within    *)
(* Fresh, from a source that had not failed.                                *)
THEOREM IntentsAreLive == Leader!Spec => IntentsLive
<1>1. LeaderOrdered /\ [Leader!Next]_(Leader!vars) => [LeaderLive]_(Leader!vars)
  BY LeaderStep
<1>2. [LeaderLive]_(Leader!vars) => [LeaderLive]_(Leader!vars)
  OBVIOUS
<1> QED BY <1>1, LeaderAlwaysOrdered, PTL DEF Leader!Spec, IntentsLive, Leader!IntentsLive,
        LeaderLive

-----------------------------------------------------------------------------
(* The calibration traversal: the images and the dwells of its poses.       *)

Images == {f \in [receipt : Int, exposure : Int] : f.exposure <= f.receipt}
Readbacks == [received : Int, stationary : BOOLEAN]
KeptImages == [frame : Images, actual : Readbacks]

TraversalTyped ==
    /\ now \in Int /\ loop \in [next : {"step", "poll"}, at : Int] /\ loop.at <= now
    /\ traversal \in [state : {"moving", "approaching", "capturing", "complete", "failed"},
                      index : Nat, seen : BOOLEAN, controller : {"route", "hold", "fault"}]
    /\ checkpoint \in [state : {"none", "approaching", "capturing"},
                       settled : Int \cup {None}, start : Int \cup {None}]
    /\ feedback \in Seq(Readbacks)
    /\ camera \in [frame : Images \cup {None}, last : Int, queue : Seq(Images)]
    /\ selected \in [1 .. Poses -> KeptImages \cup {None}]
    /\ results \in Seq(Int)

\* The checkpoint belongs to the pose the traversal is at.
AtPose(t, c, n) ==
    /\ n <= Poses
    /\ t.state \in {"moving", "approaching", "capturing"} => t.index = n + 1 /\ t.index <= Poses
    /\ t.state = "moving" => c.state = "none" /\ c.settled = None /\ c.start = None
    /\ t.state \in {"approaching", "capturing"} => c.state = t.state /\ t.controller = "hold"

\* Since the checkpoint settled, and Settle before its dwell, every readback
\* was still.
StandsStill(c, fb, at) ==
    /\ \A i \in DOMAIN fb : fb[i].received <= at
    /\ c.settled # None =>
         \A i \in DOMAIN fb : fb[i].received >= c.settled => fb[i].stationary
    /\ c.state = "capturing" => /\ c.settled # None /\ c.start # None
                                /\ c.start - c.settled >= Settle
    /\ c.state # "capturing" => c.start = None

\* The image o supports the dwell that began at start.
Supported(o, start) ==
    /\ o.frame.receipt - o.actual.received \in 0 .. Lag /\ o.actual.stationary
    /\ start <= o.frame.exposure /\ o.frame.exposure <= o.frame.receipt
    /\ o.frame.receipt < start + Dwell

\* Every completed pose has its image, and its dwell was over before the
\* readbacks of the next.
PosesDone(sel, res, at) ==
    /\ \A p \in 1 .. Len(res) : /\ sel[p] # None /\ Supported(sel[p], res[p])
                                /\ res[p] + Dwell <= at
    /\ \A p \in 2 .. Len(res) : sel[p].actual.received >= res[p - 1] + Dwell

Beyond(time, res) == \A p \in 1 .. Len(res) : time >= res[p] + Dwell

\* The pose the traversal is at.
PoseTaken(t, c, fb, sel, res) ==
    t.state \in {"moving", "approaching", "capturing"} =>
        /\ \A i \in DOMAIN fb : Beyond(fb[i].received, res)
        /\ \A p \in 1 .. Poses : p > t.index => sel[p] = None
        /\ sel[t.index] # None => /\ t.state = "capturing" /\ Supported(sel[t.index], c.start)
                                  /\ Beyond(sel[t.index].actual.received, res)
        /\ t.seen => sel[t.index] # None

TraversalOrdered ==
    /\ TraversalTyped
    /\ AtPose(traversal, checkpoint, Len(results))
    /\ traversal.state \in {"moving", "approaching", "capturing"} =>
          StandsStill(checkpoint, feedback, loop.at)
    /\ PosesDone(selected, results, loop.at)
    /\ PoseTaken(traversal, checkpoint, feedback, selected, results)

TraversalRuns == traversal.state \in {"moving", "approaching", "capturing"}

-----------------------------------------------------------------------------

LEMMA TraversalInit == ASSUME Traversal!Init PROVE TraversalOrdered
<1>1. /\ now = 0 /\ loop \in [next : {"step", "poll"}, at : Int] /\ loop.at = 0
      /\ traversal \in [state : {"moving", "approaching", "capturing", "complete", "failed"},
                        index : Nat, seen : BOOLEAN, controller : {"route", "hold", "fault"}]
      /\ traversal.state = "moving" /\ traversal.index = 1 /\ traversal.seen = FALSE
  BY DEF Traversal!Init
<1>2. /\ checkpoint \in [state : {"none", "approaching", "capturing"},
                         settled : Int \cup {None}, start : Int \cup {None}]
      /\ checkpoint.state = "none" /\ checkpoint.settled = None /\ checkpoint.start = None
  BY DEF Traversal!Init, Traversal!NoCheckpoint
<1>3. /\ feedback = <<>> /\ results = <<>> /\ selected = [p \in 1 .. Poses |-> None]
      /\ feedback \in Seq(Readbacks) /\ results \in Seq(Int)
  BY DEF Traversal!Init
<1>4. camera \in [frame : Images \cup {None}, last : Int, queue : Seq(Images)]
  <2>1. <<>> \in Seq(Images)
    OBVIOUS
  <2> QED BY <2>1 DEF Traversal!Init, Traversal!NoCamera
<1>5. selected \in [1 .. Poses -> KeptImages \cup {None}]
  BY <1>3
<1>6. TraversalTyped
  BY <1>1, <1>2, <1>3, <1>4, <1>5 DEF TraversalTyped
<1>7. AtPose(traversal, checkpoint, Len(results)) /\ StandsStill(checkpoint, feedback, loop.at)
  BY <1>1, <1>2, <1>3, LoopAssumption DEF AtPose, StandsStill
<1>8. PosesDone(selected, results, loop.at)
  BY <1>3 DEF PosesDone
<1>9. PoseTaken(traversal, checkpoint, feedback, selected, results)
  BY <1>1, <1>3, LoopAssumption DEF PoseTaken
<1> QED BY <1>6, <1>7, <1>8, <1>9 DEF TraversalOrdered

\* The clock, the camera and the place in the loop matter to no pose.
LEMMA TraversalFrame ==
    ASSUME TraversalOrdered,
           UNCHANGED <<traversal, checkpoint, feedback, selected, results>>,
           now' \in Int, now' >= now, loop' \in [next : {"step", "poll"}, at : Int],
           loop'.at = loop.at,
           camera' \in [frame : Images \cup {None}, last : Int, queue : Seq(Images)]
    PROVE  TraversalOrdered'
<1>1. TraversalTyped'
  <2>1. now \in Int /\ loop.at \in Int /\ loop.at <= now
    BY DEF TraversalOrdered, TraversalTyped
  <2>2. loop'.at <= now'
    BY <2>1
  <2> QED BY <2>2 DEF TraversalOrdered, TraversalTyped
<1> QED BY <1>1 DEF TraversalOrdered

LEMMA TraversalFails ==
    ASSUME TraversalOrdered, Traversal!Fails, UNCHANGED now,
           loop' \in [next : {"step", "poll"}, at : Int], loop'.at \in {loop.at, now}
    PROVE  TraversalOrdered'
<1>1. /\ now \in Int /\ loop.at \in Int /\ loop.at <= now
      /\ traversal \in [state : {"moving", "approaching", "capturing", "complete", "failed"},
                        index : Nat, seen : BOOLEAN, controller : {"route", "hold", "fault"}]
  BY DEF TraversalOrdered, TraversalTyped
<1>2. /\ traversal' \in [state : {"moving", "approaching", "capturing", "complete", "failed"},
                         index : Nat, seen : BOOLEAN, controller : {"route", "hold", "fault"}]
      /\ traversal'.state = "failed"
  BY <1>1 DEF Traversal!Fails
<1>3. checkpoint' \in [state : {"none", "approaching", "capturing"},
                       settled : Int \cup {None}, start : Int \cup {None}]
  BY DEF Traversal!Fails, Traversal!NoCheckpoint
<1>4. /\ feedback' = <<>> /\ results' = <<>> /\ feedback' \in Seq(Readbacks)
      /\ results' \in Seq(Int)
  BY DEF Traversal!Fails
<1>5. camera' \in [frame : Images \cup {None}, last : Int, queue : Seq(Images)]
  <2>1. <<>> \in Seq(Images)
    OBVIOUS
  <2> QED BY <2>1 DEF Traversal!Fails, Traversal!NoCamera
<1>6. selected' \in [1 .. Poses -> KeptImages \cup {None}]
  BY DEF Traversal!Fails
<1>7. TraversalTyped'
  BY <1>1, <1>2, <1>3, <1>4, <1>5, <1>6 DEF TraversalTyped
<1>8. AtPose(traversal', checkpoint', Len(results'))
  BY <1>2, <1>4, LoopAssumption DEF AtPose
<1>9. PosesDone(selected', results', loop'.at)
  BY <1>4 DEF PosesDone
<1>10. PoseTaken(traversal', checkpoint', feedback', selected', results')
  BY <1>2 DEF PoseTaken
<1> QED BY <1>2, <1>7, <1>8, <1>9, <1>10 DEF TraversalOrdered

-----------------------------------------------------------------------------
(* The camera worker, and the loop.                                         *)

LEMMA TraversalGoesOn ==
    ASSUME TraversalOrdered,
           \/ Traversal!Tick \/ Traversal!Grab \/ Traversal!Offer \/ Traversal!NoImage
    PROVE  TraversalOrdered'
<1>1. /\ now \in Int /\ loop \in [next : {"step", "poll"}, at : Int]
      /\ camera \in [frame : Images \cup {None}, last : Int, queue : Seq(Images)]
  BY DEF TraversalOrdered, TraversalTyped
<1>2. CASE Traversal!Tick
  BY <1>1, <1>2, TraversalFrame DEF Traversal!Tick
<1>3. CASE Traversal!NoImage
  <2>1. loop' \in [next : {"step", "poll"}, at : Int] /\ loop'.at = loop.at
    BY <1>1, <1>3 DEF Traversal!NoImage
  <2> QED BY <1>1, <1>3, <2>1, TraversalFrame DEF Traversal!NoImage
<1>4. CASE Traversal!Grab
  <2>1. PICK exposure \in {now - 1, now} :
           camera' = [camera EXCEPT !.last = now,
                          !.frame = [receipt |-> now, exposure |-> exposure]]
    BY <1>4 DEF Traversal!Grab
  <2> DEFINE f == [receipt |-> now, exposure |-> exposure]
  <2>2. f \in Images
    BY <1>1 DEF Images
  <2> HIDE DEF f
  <2>3. camera' = [camera EXCEPT !.last = now, !.frame = f]
    BY <2>1 DEF f
  <2>4. camera' \in [frame : Images \cup {None}, last : Int, queue : Seq(Images)]
    BY <1>1, <2>2, <2>3
  <2> QED BY <1>1, <1>4, <2>4, TraversalFrame DEF Traversal!Grab, Traversal!CameraOnly
<1>5. CASE Traversal!Offer
  <2> DEFINE q == IF Len(camera.queue) < ImageQueue THEN Append(camera.queue, camera.frame)
                  ELSE camera.queue
  <2>1. camera.frame \in Images /\ camera.queue \in Seq(Images)
    BY <1>1, <1>5 DEF Traversal!Offer
  <2>2. q \in Seq(Images)
    BY <2>1
  <2>3. camera' = [camera EXCEPT !.frame = None, !.queue = q]
    BY <1>1, <1>5 DEF Traversal!Offer
  <2> HIDE DEF q
  <2>4. camera' \in [frame : Images \cup {None}, last : Int, queue : Seq(Images)]
    BY <1>1, <2>2, <2>3
  <2> QED BY <1>1, <1>5, <2>4, TraversalFrame DEF Traversal!Offer, Traversal!CameraOnly
<1> QED BY <1>2, <1>3, <1>4, <1>5

-----------------------------------------------------------------------------
(* A readback of the controller.                                            *)

\* What a readback adds to the pose, whatever the checkpoint makes of it.
LEMMA TraversalReads ==
    ASSUME TraversalOrdered, TraversalRuns, loop.at < now, NEW s \in Readbacks, s.received = now,
           NEW fb, fb = Append(feedback, s)
    PROVE  /\ fb \in Seq(Readbacks)
           /\ \A i \in DOMAIN fb : fb[i] = s \/ (i \in DOMAIN feedback /\ fb[i] = feedback[i])
           /\ \A i \in DOMAIN fb : /\ fb[i].received <= now
                                          /\ Beyond(fb[i].received, results)
           /\ PosesDone(selected, results, now)
<1>1. /\ feedback \in Seq(Readbacks) /\ now \in Int /\ loop.at \in Int /\ results \in Seq(Int)
      /\ StandsStill(checkpoint, feedback, loop.at) /\ PosesDone(selected, results, loop.at)
      /\ \A i \in DOMAIN feedback : Beyond(feedback[i].received, results)
  BY DEF TraversalOrdered, TraversalTyped, TraversalRuns, PoseTaken
<1>2. fb \in Seq(Readbacks)
  BY <1>1
<1>3. \A i \in DOMAIN fb : fb[i] = s \/ (i \in DOMAIN feedback /\ fb[i] = feedback[i])
  <2>1. /\ Len(fb) = Len(feedback) + 1 /\ Len(feedback) \in Nat /\ DOMAIN fb = 1 .. Len(fb)
        /\ DOMAIN feedback = 1 .. Len(feedback) /\ fb[Len(feedback) + 1] = s
        /\ \A i \in 1 .. Len(feedback) : fb[i] = feedback[i]
    BY <1>1
  <2>2. ASSUME NEW i \in DOMAIN fb
        PROVE  i \in 1 .. Len(feedback) \/ i = Len(feedback) + 1
    BY <2>1
  <2> QED BY <2>1, <2>2
<1>4. \A p \in 1 .. Len(results) : results[p] + Dwell <= now
  <2>1. Dwell \in Int
    BY LoopAssumption
  <2>2. \A p \in 1 .. Len(results) : results[p] \in Int /\ results[p] + Dwell <= loop.at
    BY <1>1 DEF PosesDone
  <2> QED BY <1>1, <2>1, <2>2
<1>5. ASSUME NEW i \in DOMAIN fb
      PROVE  fb[i].received <= now /\ Beyond(fb[i].received, results)
  <2>1. CASE fb[i] = s
    BY <1>1, <1>4, <2>1 DEF Beyond
  <2>2. CASE i \in DOMAIN feedback /\ fb[i] = feedback[i]
    <3>1. feedback[i] \in Readbacks /\ feedback[i].received <= loop.at
      BY <1>1, <2>2 DEF StandsStill
    <3> QED BY <1>1, <2>2, <3>1 DEF Readbacks
  <2> QED BY <1>3, <2>1, <2>2
<1>6. PosesDone(selected, results, now)
  BY <1>1, <1>4 DEF PosesDone
<1> QED BY <1>2, <1>3, <1>5, <1>6

LEMMA TraversalRoute ==
    ASSUME TraversalOrdered, TraversalRuns, loop.at < now, NEW s \in Readbacks, s.received = now,
           Traversal!StepRoute(s), UNCHANGED now, loop' = [next |-> "poll", at |-> now]
    PROVE  TraversalOrdered'
<1>1. /\ traversal.controller = "route" /\ feedback' = Append(feedback, s)
      /\ UNCHANGED <<traversal, checkpoint, results, camera, selected>>
  BY DEF Traversal!StepRoute
<1>2. /\ feedback' \in Seq(Readbacks)
      /\ \A i \in DOMAIN feedback' : /\ feedback'[i].received <= now
                                     /\ Beyond(feedback'[i].received, results)
      /\ PosesDone(selected, results, now)
  BY <1>1, TraversalReads
<1>3. now \in Int /\ loop' \in [next : {"step", "poll"}, at : Int] /\ loop'.at = now
  BY DEF TraversalOrdered, TraversalTyped
<1>4. /\ checkpoint.state = "none" /\ checkpoint.settled = None /\ checkpoint.start = None
  BY <1>1 DEF TraversalOrdered, TraversalRuns, AtPose
<1>5. TraversalTyped'
  BY <1>1, <1>2, <1>3 DEF TraversalOrdered, TraversalTyped
<1>6. StandsStill(checkpoint', feedback', loop'.at)
  BY <1>1, <1>2, <1>3, <1>4 DEF StandsStill
<1>7. PoseTaken(traversal', checkpoint', feedback', selected', results')
  BY <1>1, <1>2 DEF TraversalOrdered, PoseTaken
<1> QED BY <1>1, <1>2, <1>3, <1>5, <1>6, <1>7 DEF TraversalOrdered

\* The checkpoint after a readback that does not fail it.
LEMMA CheckpointUpdated ==
    ASSUME TraversalOrdered, TraversalRuns, loop.at < now, NEW s \in Readbacks, s.received = now,
           NEW c, c = Traversal!Updated(s), ~Traversal!Moved(s), NEW fb, fb = Append(feedback, s)
    PROVE  /\ c \in [state : {"none", "approaching", "capturing"},
                     settled : Int \cup {None}, start : Int \cup {None}]
           /\ c.state \in {"approaching", "capturing"}
           /\ checkpoint.state = "capturing" => c.state = "capturing" /\ c.start = checkpoint.start
           /\ StandsStill(c, fb, now)
           /\ c.start # None => c.state = "capturing"
<1>1. /\ feedback \in Seq(Readbacks) /\ now \in Int /\ loop.at \in Int
      /\ checkpoint \in [state : {"none", "approaching", "capturing"},
                         settled : Int \cup {None}, start : Int \cup {None}]
      /\ StandsStill(checkpoint, feedback, loop.at)
      /\ Settle \in Int /\ None \notin Int
  BY LoopAssumption DEF TraversalOrdered, TraversalTyped, TraversalRuns
<1> DEFINE settled == IF ~s.stationary THEN None
                      ELSE IF checkpoint.settled = None THEN now ELSE checkpoint.settled
           capture == checkpoint.state # "capturing" /\ settled # None /\ now - settled >= Settle
           state == IF capture \/ checkpoint.state = "capturing" THEN "capturing"
                    ELSE "approaching"
           start == IF capture THEN now ELSE checkpoint.start
<1>2. c = [state |-> state, settled |-> settled, start |-> start]
  BY DEF Traversal!Updated, Traversal!Stationary
<1>3. checkpoint.state = "capturing" => s.stationary
  BY DEF Traversal!Moved, Traversal!Stationary
<1>4. settled \in Int \cup {None} /\ start \in Int \cup {None}
      /\ state \in {"approaching", "capturing"}
  BY <1>1
<1>5. /\ checkpoint.state = "capturing" =>
           /\ settled = checkpoint.settled /\ start = checkpoint.start
           /\ state = "capturing" /\ settled # None /\ start # None /\ start - settled >= Settle
      /\ (state = "capturing" /\ checkpoint.state # "capturing") =>
           start = now /\ settled # None /\ now - settled >= Settle
      /\ state # "capturing" => start = None
  BY <1>1, <1>3 DEF StandsStill
<1>6. settled # None => s.stationary /\ (settled = now \/ settled = checkpoint.settled)
  OBVIOUS
<1> HIDE DEF settled, capture, state, start
<1>7. /\ c.state = state /\ c.settled = settled /\ c.start = start
      /\ c \in [state : {"none", "approaching", "capturing"},
                settled : Int \cup {None}, start : Int \cup {None}]
  BY <1>2, <1>4
<1>8. /\ \A i \in DOMAIN fb : fb[i] = s \/ (i \in DOMAIN feedback /\ fb[i] = feedback[i])
      /\ \A i \in DOMAIN fb : fb[i].received <= now
  BY TraversalReads
<1>9. ASSUME settled # None, NEW i \in DOMAIN fb, fb[i].received >= settled
      PROVE  fb[i].stationary
  <2>1. CASE fb[i] = s
    BY <1>6, <1>9, <2>1
  <2>2. CASE i \in DOMAIN feedback /\ fb[i] = feedback[i]
    <3>1. feedback[i] \in Readbacks /\ feedback[i].received <= loop.at
      BY <1>1, <2>2 DEF StandsStill
    <3>2. settled # now
      BY <1>1, <1>9, <2>2, <3>1 DEF Readbacks
    <3>3. settled = checkpoint.settled
      BY <1>6, <1>9, <3>2
    <3> QED BY <1>1, <1>9, <2>2, <3>3 DEF StandsStill
  <2> QED BY <1>8, <2>1, <2>2
<1>10. StandsStill(c, fb, now)
  <2>1. state = "capturing" => settled # None /\ start # None /\ start - settled >= Settle
    BY <1>1, <1>5
  <2> QED BY <1>5, <1>7, <1>8, <1>9, <2>1 DEF StandsStill
<1> QED BY <1>4, <1>5, <1>7, <1>10

LEMMA TraversalHolds ==
    ASSUME TraversalOrdered, TraversalRuns, loop.at < now, NEW s \in Readbacks, s.received = now,
           Traversal!StepHold(s), UNCHANGED now, loop' = [next |-> "poll", at |-> now]
    PROVE  TraversalOrdered'
<1> DEFINE c == Traversal!Updated(s)
<1>1. /\ now \in Int /\ loop' \in [next : {"step", "poll"}, at : Int] /\ loop'.at = now
      /\ traversal \in [state : {"moving", "approaching", "capturing", "complete", "failed"},
                        index : Nat, seen : BOOLEAN, controller : {"route", "hold", "fault"}]
      /\ results \in Seq(Int) /\ selected \in [1 .. Poses -> KeptImages \cup {None}]
      /\ AtPose(traversal, checkpoint, Len(results))
      /\ PoseTaken(traversal, checkpoint, feedback, selected, results)
      /\ traversal.index = Len(results) + 1 /\ traversal.index \in 1 .. Poses
  BY DEF TraversalOrdered, TraversalTyped, TraversalRuns, AtPose
<1>2. CASE Traversal!Fails
  BY <1>1, <1>2, TraversalFails
<1>3. CASE /\ ~Traversal!Moved(s) /\ checkpoint' = c
           /\ traversal' = [traversal EXCEPT !.state = c.state, !.controller = "hold"]
           /\ feedback' = Append(feedback, s) /\ UNCHANGED <<results, camera, selected>>
  <2>1. /\ c \in [state : {"none", "approaching", "capturing"},
                  settled : Int \cup {None}, start : Int \cup {None}]
        /\ c.state \in {"approaching", "capturing"}
        /\ checkpoint.state = "capturing" => c.state = "capturing" /\ c.start = checkpoint.start
        /\ StandsStill(c, feedback', now)
    BY <1>3, CheckpointUpdated
  <2> HIDE DEF c
  <2>2. /\ feedback' \in Seq(Readbacks)
        /\ \A i \in DOMAIN feedback' : Beyond(feedback'[i].received, results)
        /\ PosesDone(selected, results, now)
    BY <1>3, TraversalReads
  <2>3. /\ traversal' \in [state : {"moving", "approaching", "capturing", "complete", "failed"},
                           index : Nat, seen : BOOLEAN, controller : {"route", "hold", "fault"}]
        /\ traversal'.state = c.state /\ traversal'.controller = "hold"
        /\ traversal'.index = traversal.index /\ traversal'.seen = traversal.seen
    BY <1>1, <1>3, <2>1
  <2>4. TraversalTyped'
    BY <1>1, <1>3, <2>1, <2>2, <2>3 DEF TraversalOrdered, TraversalTyped
  <2>5. AtPose(traversal', checkpoint', Len(results'))
    BY <1>1, <1>3, <2>1, <2>3 DEF AtPose
  <2>6. selected[traversal.index] # None =>
          /\ c.state = "capturing" /\ Supported(selected[traversal.index], c.start)
          /\ Beyond(selected[traversal.index].actual.received, results)
    BY <1>1, <2>1 DEF PoseTaken, AtPose, TraversalRuns
  <2>7. PoseTaken(traversal', checkpoint', feedback', selected', results')
    BY <1>1, <1>3, <2>2, <2>3, <2>6 DEF PoseTaken, TraversalRuns
  <2> QED BY <1>1, <1>3, <2>1, <2>2, <2>4, <2>5, <2>7 DEF TraversalOrdered
<1>4. CASE /\ ~Traversal!Moved(s) /\ Traversal!DwellOver(c) /\ traversal.seen
           /\ Traversal!NextPose(c) /\ UNCHANGED <<camera, selected>>
  <2> DEFINE n == Len(results)
             k == traversal.index
  <2>1. /\ c \in [state : {"none", "approaching", "capturing"},
                  settled : Int \cup {None}, start : Int \cup {None}]
        /\ checkpoint.state = "capturing" => c.start = checkpoint.start
        /\ c.start # None /\ now >= c.start + Dwell /\ Dwell \in Int
    <3>1. c.start # None /\ now >= c.start + Dwell
      BY <1>4 DEF Traversal!DwellOver
    <3>2. c = Traversal!Updated(s)
      OBVIOUS
    <3>3. PICK fb : fb = Append(feedback, s)
      OBVIOUS
    <3> HIDE DEF c
    <3>4. /\ c \in [state : {"none", "approaching", "capturing"},
                    settled : Int \cup {None}, start : Int \cup {None}]
          /\ checkpoint.state = "capturing" => c.start = checkpoint.start
      BY <1>4, <3>2, <3>3, CheckpointUpdated
    <3> QED BY <3>1, <3>4, LoopAssumption
  <2> HIDE DEF c
  <2>2. /\ selected[k] # None /\ Supported(selected[k], c.start)
        /\ Beyond(selected[k].actual.received, results)
        /\ \A p \in 1 .. Poses : p > k => selected[p] = None
    BY <1>1, <1>4, <2>1 DEF PoseTaken, TraversalRuns, AtPose
  <2>3. /\ results' = Append(results, c.start) /\ c.start \in Int
        /\ checkpoint' \in [state : {"none", "approaching", "capturing"},
                            settled : Int \cup {None}, start : Int \cup {None}]
        /\ checkpoint'.state = "none" /\ checkpoint'.settled = None /\ checkpoint'.start = None
    BY <1>4, <2>1 DEF Traversal!NextPose, Traversal!NoCheckpoint
  <2>4. /\ n \in Nat /\ k = n + 1 /\ Poses \in Nat /\ k <= Poses
        /\ results' \in Seq(Int) /\ Len(results') = n + 1
        /\ \A p \in 1 .. n : results'[p] = results[p] /\ results[p] \in Int
        /\ results'[n + 1] = c.start
    BY <1>1, <2>3, LoopAssumption
  <2>5. /\ feedback' \in Seq(Readbacks) /\ TraversalTyped
    <3>1. feedback' = feedback \/ feedback' = <<>>
      BY <1>4 DEF Traversal!NextPose
    <3>2. TraversalTyped
      BY DEF TraversalOrdered
    <3>3. feedback' \in Seq(Readbacks)
      <4>1. CASE feedback' = <<>>
        BY <4>1
      <4>2. CASE feedback' = feedback
        BY <3>2, <4>2 DEF TraversalTyped
      <4> QED BY <3>1, <4>1, <4>2
    <3> QED BY <3>2, <3>3
  <2> HIDE DEF n, k
  <2>6. PosesDone(selected, results', now)
    <3>1. PosesDone(selected, results, loop.at) /\ loop.at \in Int
      BY <2>5 DEF TraversalOrdered, TraversalTyped
    <3>2. ASSUME NEW p \in 1 .. n + 1
          PROVE  /\ selected[p] # None /\ Supported(selected[p], results'[p])
                 /\ results'[p] + Dwell <= now
      <4>1. CASE p \in 1 .. n
        <5>1. /\ selected[p] # None /\ Supported(selected[p], results[p])
              /\ results[p] + Dwell <= loop.at
          BY <3>1, <4>1 DEF PosesDone, n
        <5> QED BY <1>1, <2>1, <2>4, <3>1, <4>1, <5>1
      <4>2. CASE p = n + 1
        BY <1>1, <2>1, <2>2, <2>3, <2>4, <4>2
      <4> QED BY <2>4, <4>1, <4>2
    <3>3. ASSUME NEW p \in 2 .. n + 1
          PROVE  selected[p].actual.received >= results'[p - 1] + Dwell
      <4>1. p - 1 \in 1 .. n /\ results'[p - 1] = results[p - 1]
        BY <2>4
      <4>2. CASE p \in 2 .. n
        BY <3>1, <4>1, <4>2 DEF PosesDone, n
      <4>3. CASE p = n + 1
        BY <2>2, <2>4, <4>1, <4>3 DEF Beyond, n
      <4> QED BY <2>4, <4>2, <4>3
    <3> QED BY <2>4, <3>2, <3>3 DEF PosesDone
  <2>7. CASE Traversal!Completed
    <3>1. /\ traversal' = [traversal EXCEPT !.state = "complete", !.index = @ + 1]
          /\ n + 1 = Poses
      BY <1>4, <2>7 DEF Traversal!NextPose, Traversal!Completed, n
    <3>2. k + 1 \in Nat /\ k = traversal.index
      BY <2>4 DEF k
    <3>3. /\ traversal' \in [state : {"moving", "approaching", "capturing", "complete", "failed"},
                             index : Nat, seen : BOOLEAN, controller : {"route", "hold", "fault"}]
          /\ traversal'.state = "complete"
      <4> DEFINE next == k + 1
      <4>1. traversal' = [traversal EXCEPT !.state = "complete", !.index = next]
        BY <1>1, <3>1 DEF k
      <4> HIDE DEF next
      <4> QED BY <1>1, <3>2, <4>1 DEF next
    <3>4. TraversalTyped'
      BY <1>1, <1>4, <2>3, <2>4, <2>5, <3>3 DEF TraversalTyped
    <3>5. AtPose(traversal', checkpoint', Len(results'))
      BY <2>4, <3>1, <3>3 DEF AtPose
    <3>6. PoseTaken(traversal', checkpoint', feedback', selected', results')
      BY <3>3 DEF PoseTaken
    <3> QED BY <1>1, <1>4, <2>6, <3>3, <3>4, <3>5, <3>6 DEF TraversalOrdered
  <2>8. CASE ~Traversal!Completed
    <3>1. /\ traversal' = [state |-> "moving", index |-> k + 1, seen |-> FALSE,
                           controller |-> "route"]
          /\ n + 1 # Poses /\ feedback' = <<>>
      BY <1>4, <2>8 DEF Traversal!NextPose, Traversal!Completed, n, k
    <3> DEFINE next == k + 1
    <3>2. next \in Nat /\ next = (n + 1) + 1 /\ next \in 1 .. Poses /\ next > k
      BY <2>4, <3>1
    <3>3. /\ traversal' \in [state : {"moving", "approaching", "capturing", "complete", "failed"},
                             index : Nat, seen : BOOLEAN, controller : {"route", "hold", "fault"}]
          /\ traversal'.state = "moving" /\ traversal'.index = next /\ traversal'.seen = FALSE
      <4> HIDE DEF next
      <4>1. traversal' = [state |-> "moving", index |-> next, seen |-> FALSE,
                          controller |-> "route"]
        BY <3>1 DEF next
      <4> QED BY <3>2, <4>1
    <3> HIDE DEF next
    <3>4. TraversalTyped'
      BY <1>1, <1>4, <2>3, <2>4, <2>5, <3>3 DEF TraversalTyped
    <3>5. AtPose(traversal', checkpoint', Len(results'))
      BY <2>3, <2>4, <3>2, <3>3 DEF AtPose
    <3>6. \A p \in 1 .. Poses : p >= next => selected[p] = None
      BY <2>2, <2>4, <3>2
    <3>7. PoseTaken(traversal', checkpoint', feedback', selected', results')
      BY <1>4, <3>1, <3>2, <3>3, <3>6 DEF PoseTaken
    <3>8. StandsStill(checkpoint', feedback', loop'.at)
      BY <2>3, <3>1 DEF StandsStill
    <3> QED BY <1>1, <1>4, <2>6, <3>3, <3>4, <3>5, <3>7, <3>8 DEF TraversalOrdered
  <2> QED BY <2>7, <2>8
<1> QED BY <1>2, <1>3, <1>4 DEF Traversal!StepHold

-----------------------------------------------------------------------------
(* An image of the camera.                                                  *)

LEMMA TraversalKeeps ==
    ASSUME TraversalOrdered, TraversalRuns, camera.queue # <<>>, NEW i \in DOMAIN feedback,
           Traversal!Considered(Head(camera.queue)),
           Traversal!Pairs(i, Head(camera.queue).receipt),
           ~Traversal!Unsupported(Head(camera.queue), feedback[i]),
           Traversal!Keeps(Head(camera.queue), feedback[i]),
           loop' = [loop EXCEPT !.next = "step"], UNCHANGED now
    PROVE  TraversalOrdered'
<1> DEFINE frame == Head(camera.queue)
           s == feedback[i]
           rest == Tail(camera.queue)
           k == traversal.index
           o == [frame |-> frame, actual |-> s]
           start == checkpoint.start
<1>1. /\ camera \in [frame : Images \cup {None}, last : Int, queue : Seq(Images)]
      /\ camera.queue \in Seq(Images) /\ feedback \in Seq(Readbacks)
      /\ loop \in [next : {"step", "poll"}, at : Int] /\ now \in Int
      /\ traversal \in [state : {"moving", "approaching", "capturing", "complete", "failed"},
                        index : Nat, seen : BOOLEAN, controller : {"route", "hold", "fault"}]
      /\ selected \in [1 .. Poses -> KeptImages \cup {None}] /\ results \in Seq(Int)
      /\ checkpoint \in [state : {"none", "approaching", "capturing"},
                         settled : Int \cup {None}, start : Int \cup {None}]
      /\ k \in 1 .. Poses /\ k = Len(results) + 1
  BY DEF TraversalOrdered, TraversalTyped, TraversalRuns, AtPose
<1>2. frame \in Images /\ rest \in Seq(Images) /\ s \in Readbacks
  BY <1>1
<1>3. /\ traversal.state = "capturing" /\ start # None /\ start \in Int
      /\ Dwell \in Int /\ Lag \in Int
      /\ frame.receipt >= start /\ frame.receipt <= start + Dwell - 1
      /\ s.received <= frame.receipt /\ frame.receipt - s.received <= Lag /\ s.stationary
  <2>1. traversal.state = "capturing" /\ frame.receipt \in start .. (start + Dwell - 1)
    BY DEF Traversal!Considered, Traversal!InWindow
  <2>2. start \in Int /\ start # None
    BY <1>1, <2>1 DEF TraversalOrdered, TraversalRuns, AtPose, StandsStill
  <2>3. s.received <= frame.receipt
    BY DEF Traversal!Pairs, Traversal!Preceding
  <2>4. ~(frame.receipt - s.received > Lag) /\ s.stationary
    BY DEF Traversal!Unsupported, Traversal!Stationary
  <2>5. Dwell \in Int /\ Lag \in Int /\ frame.receipt \in Int /\ s.received \in Int
    BY <1>2, LoopAssumption DEF Images, Readbacks, CameraFrames
  <2> HIDE DEF frame, s, start
  <2> QED BY <2>1, <2>2, <2>3, <2>4, <2>5
<1>4. /\ camera' = [camera EXCEPT !.queue = rest]
      /\ traversal' = [traversal EXCEPT !.seen = @ \/ Traversal!Exposed(frame)]
      /\ \E sharper \in IF selected[k] = None THEN {TRUE} ELSE BOOLEAN :
           selected' = IF Traversal!Exposed(frame) /\ sharper
                       THEN [selected EXCEPT ![k] = o] ELSE selected
      /\ UNCHANGED <<checkpoint, feedback, results>>
  BY <1>1 DEF Traversal!Keeps, Traversal!Dequeued
<1>5. o \in KeptImages /\ o.frame = frame /\ o.actual = s
  BY <1>2 DEF KeptImages
<1>6. Traversal!Exposed(frame) => Supported(o, start)
  <2>1. Traversal!Exposed(frame) => frame.exposure >= start
    BY DEF Traversal!Exposed
  <2>2. frame.receipt \in Int /\ frame.exposure \in Int /\ frame.exposure <= frame.receipt
        /\ s.received \in Int
    BY <1>2 DEF Images, Readbacks
  <2> HIDE DEF frame, s, o, start
  <2> QED BY <1>3, <1>5, <2>1, <2>2 DEF Supported
<1>7. Beyond(s.received, results)
  BY <1>3 DEF TraversalOrdered, PoseTaken
<1> DEFINE exposed == Traversal!Exposed(frame)
<1>8. exposed \in BOOLEAN
  BY DEF Traversal!Exposed
<1> HIDE DEF frame, s, rest, o, start, exposed
<1>9. \/ exposed /\ selected' = [selected EXCEPT ![k] = o]
      \/ (exposed => selected[k] # None) /\ selected' = selected
  BY <1>4, <1>8 DEF exposed
<1>10. /\ camera' \in [frame : Images \cup {None}, last : Int, queue : Seq(Images)]
       /\ loop' \in [next : {"step", "poll"}, at : Int] /\ loop'.at = loop.at
  BY <1>1, <1>2, <1>4
<1>11. /\ traversal' \in [state : {"moving", "approaching", "capturing", "complete", "failed"},
                          index : Nat, seen : BOOLEAN, controller : {"route", "hold", "fault"}]
       /\ traversal'.state = "capturing" /\ traversal'.index = k
       /\ traversal'.controller = traversal.controller
       /\ traversal'.seen = (traversal.seen \/ exposed)
  BY <1>1, <1>3, <1>4, <1>8 DEF exposed
<1>12. /\ selected' \in [1 .. Poses -> KeptImages \cup {None}]
       /\ \A p \in 1 .. Poses : p # k => selected'[p] = selected[p]
       /\ selected'[k] = o \/ selected'[k] = selected[k]
       /\ selected'[k] = o => exposed \/ selected'[k] = selected[k]
       /\ exposed \/ selected[k] # None => selected'[k] # None
  <2>1. o # None
    BY <1>5, LoopAssumption DEF KeptImages, Images, Readbacks, CameraFrames
  <2>2. CASE exposed /\ selected' = [selected EXCEPT ![k] = o]
    BY <1>1, <1>5, <2>1, <2>2
  <2>3. CASE (exposed => selected[k] # None) /\ selected' = selected
    BY <1>1, <2>3
  <2> QED BY <1>9, <2>2, <2>3
<1>13. /\ selected[k] # None => /\ Supported(selected[k], start)
                                /\ Beyond(selected[k].actual.received, results)
       /\ traversal.seen => selected[k] # None
       /\ \A p \in 1 .. Poses : p > k => selected[p] = None
       /\ \A j \in DOMAIN feedback : Beyond(feedback[j].received, results)
  BY <1>3 DEF TraversalOrdered, PoseTaken, start
<1>14. selected'[k] # None => /\ Supported(selected'[k], start)
                              /\ Beyond(selected'[k].actual.received, results)
  BY <1>5, <1>6, <1>7, <1>12, <1>13 DEF exposed
<1>15. TraversalTyped'
  BY <1>4, <1>10, <1>11, <1>12 DEF TraversalOrdered, TraversalTyped
<1>16. AtPose(traversal', checkpoint', Len(results'))
  BY <1>1, <1>3, <1>4, <1>11 DEF TraversalOrdered, AtPose
<1>17. PosesDone(selected', results', loop'.at)
  <2> DEFINE n == Len(results)
  <2>1. n \in Nat /\ k = n + 1 /\ k <= Poses /\ Poses \in Nat
    BY <1>1, LoopAssumption
  <2> HIDE DEF n, k
  <2>2. PosesDone(selected, results, loop.at) /\ results' = results
    BY <1>4 DEF TraversalOrdered
  <2>3. \A p \in 1 .. n : selected'[p] = selected[p]
    BY <1>12, <2>1
  <2> QED BY <1>10, <2>1, <2>2, <2>3 DEF PosesDone, n
<1>18. PoseTaken(traversal', checkpoint', feedback', selected', results')
  <2>1. \A p \in 1 .. Poses : p > k => selected'[p] = None
    BY <1>12, <1>13
  <2>2. traversal'.seen => selected'[k] # None
    BY <1>8, <1>11, <1>12, <1>13
  <2> HIDE DEF k
  <2> QED BY <1>4, <1>11, <1>13, <1>14, <2>1, <2>2 DEF PoseTaken, start
<1> QED BY <1>3, <1>4, <1>10, <1>11, <1>15, <1>16, <1>17, <1>18
        DEF TraversalOrdered, TraversalRuns

LEMMA TraversalImage == ASSUME TraversalOrdered, Traversal!Image PROVE TraversalOrdered'
<1> DEFINE frame == Head(camera.queue)
<1>1. /\ TraversalRuns /\ camera.queue # <<>> /\ loop' = [loop EXCEPT !.next = "step"]
      /\ UNCHANGED now
      /\ \/ /\ camera' = [camera EXCEPT !.queue = Tail(camera.queue)]
            /\ UNCHANGED <<traversal, checkpoint, feedback, selected, results>>
         \/ /\ Traversal!Considered(frame)
            /\ \E i \in DOMAIN feedback :
                 /\ Traversal!Pairs(i, frame.receipt)
                 /\ IF Traversal!Unsupported(frame, feedback[i]) THEN Traversal!Fails
                    ELSE Traversal!Keeps(frame, feedback[i])
  BY DEF Traversal!Image, Traversal!Running, TraversalRuns, Traversal!Dequeued, TraversalOrdered,
     TraversalTyped
<1>2. /\ loop \in [next : {"step", "poll"}, at : Int] /\ now \in Int
      /\ camera \in [frame : Images \cup {None}, last : Int, queue : Seq(Images)]
  BY DEF TraversalOrdered, TraversalTyped
<1>3. loop' \in [next : {"step", "poll"}, at : Int] /\ loop'.at = loop.at
  BY <1>1, <1>2
<1>4. CASE /\ camera' = [camera EXCEPT !.queue = Tail(camera.queue)]
           /\ UNCHANGED <<traversal, checkpoint, feedback, selected, results>>
  <2> DEFINE rest == Tail(camera.queue)
  <2>1. rest \in Seq(Images)
    BY <1>1, <1>2
  <2> HIDE DEF rest
  <2>2. camera' \in [frame : Images \cup {None}, last : Int, queue : Seq(Images)]
    BY <1>2, <1>4, <2>1 DEF rest
  <2> QED BY <1>1, <1>2, <1>3, <1>4, <2>2, TraversalFrame
<1>5. CASE Traversal!Fails
  BY <1>1, <1>3, <1>5, TraversalFails
<1>6. ASSUME NEW i \in DOMAIN feedback, Traversal!Considered(frame),
             Traversal!Pairs(i, frame.receipt), ~Traversal!Unsupported(frame, feedback[i]),
             Traversal!Keeps(frame, feedback[i])
      PROVE  TraversalOrdered'
  BY <1>1, <1>6, TraversalKeeps
<1> QED BY <1>1, <1>4, <1>5, <1>6

-----------------------------------------------------------------------------

LEMMA TraversalStep ==
    ASSUME TraversalOrdered, [Traversal!Next]_(Traversal!vars) PROVE TraversalOrdered'
<1>1. CASE UNCHANGED Traversal!vars
  BY <1>1 DEF Traversal!vars, TraversalOrdered, TraversalTyped
<1>2. CASE Traversal!Step
  <2>1. /\ TraversalRuns /\ now > loop.at /\ loop' = [next |-> "poll", at |-> now]
        /\ UNCHANGED now
    BY <1>2 DEF Traversal!Step, Traversal!Running, TraversalRuns
  <2>2. now \in Int /\ loop.at \in Int
    BY DEF TraversalOrdered, TraversalTyped
  <2>3. PICK s \in Traversal!Readings : Traversal!StepRoute(s) \/ Traversal!StepHold(s)
    BY <1>2 DEF Traversal!Step
  <2>4. s \in Readbacks /\ s.received = now
    BY <2>2, <2>3 DEF Traversal!Readings, Readbacks
  <2> QED BY <2>1, <2>2, <2>3, <2>4, TraversalRoute, TraversalHolds
<1>3. CASE Traversal!Interrupted
  BY <1>3, TraversalFails DEF Traversal!Interrupted, TraversalOrdered, TraversalTyped
<1> QED BY <1>1, <1>2, <1>3, TraversalGoesOn, TraversalImage DEF Traversal!Next

LEMMA TraversalAlwaysOrdered == Traversal!Spec => []TraversalOrdered
<1>1. Traversal!Init => TraversalOrdered
  BY TraversalInit
<1>2. TraversalOrdered /\ [Traversal!Next]_(Traversal!vars) => TraversalOrdered'
  BY TraversalStep
<1> QED BY <1>1, <1>2, PTL DEF Traversal!Spec

(* Every image a calibration keeps is evidence of its pose: taken and       *)
(* exposed in the dwell of that pose, after a still readback of it, and     *)
(* later than all of the pose before; and in a dwell the arm has stood      *)
(* still, in every readback, from Settle before it.  For every route and    *)
(* every dwell, however long images wait for the detection and the queue.   *)
THEOREM EvidenceIsOfPose == Traversal!Spec => []EvidenceOfPose
<1>1. ASSUME TraversalOrdered PROVE EvidenceOfPose
  <2> DEFINE n == Len(results)
  <2>1. /\ selected \in [1 .. Poses -> KeptImages \cup {None}] /\ results \in Seq(Int)
        /\ n \in Nat /\ n <= Poses /\ Poses \in Nat /\ Dwell \in Nat /\ Lag \in Nat
        /\ Settle \in Nat
        /\ PosesDone(selected, results, loop.at)
    BY <1>1, LoopAssumption DEF TraversalOrdered, TraversalTyped, AtPose
  <2>2. \A p \in 1 .. n : selected[p] # None /\ Traversal!Supports(selected[p], results[p])
    BY <2>1 DEF PosesDone, Supported, Traversal!Supports, Traversal!Stationary
  <2>3. traversal.state = "capturing" /\ selected[traversal.index] # None =>
          Traversal!Supports(selected[traversal.index], checkpoint.start)
    BY <1>1 DEF TraversalOrdered, PoseTaken, Supported, Traversal!Supports, Traversal!Stationary
  <2>4. ASSUME NEW p \in 2 .. n
        PROVE  /\ selected[p].actual.received > selected[p - 1].actual.received
               /\ selected[p].frame.receipt > selected[p - 1].frame.receipt
    <3> DEFINE a == selected[p]
               b == selected[p - 1]
               r == results[p - 1]
    <3>1. p \in 1 .. n /\ p - 1 \in 1 .. n /\ p \in 1 .. Poses /\ p - 1 \in 1 .. Poses
      BY <2>1
    <3>2. a \in KeptImages /\ b \in KeptImages /\ r \in Int
      <4>1. a # None /\ b # None BY <2>2, <3>1
      <4> QED BY <2>1, <3>1, <4>1
    <3>3. Supported(a, results[p]) /\ Supported(b, r) /\ a.actual.received >= r + Dwell
      BY <2>1, <3>1 DEF PosesDone
    <3> HIDE DEF a, b, r
    <3>4. /\ a.actual.received \in Int /\ a.frame.receipt \in Int
          /\ b.actual.received \in Int /\ b.frame.receipt \in Int
      BY <3>2 DEF KeptImages, Images, Readbacks
    <3>5. /\ a.frame.receipt >= a.actual.received /\ b.frame.receipt >= b.actual.received
          /\ b.frame.receipt < r + Dwell
      <4>1. /\ a.frame.receipt - a.actual.received \in 0 .. Lag
            /\ b.frame.receipt - b.actual.received \in 0 .. Lag
            /\ b.frame.receipt < r + Dwell
        BY <3>3 DEF Supported
      <4>2. /\ a.frame.receipt - a.actual.received >= 0
            /\ b.frame.receipt - b.actual.received >= 0
        BY <4>1
      <4> QED BY <3>4, <4>1, <4>2
    <3>6. a.actual.received > b.actual.received /\ a.frame.receipt > b.frame.receipt
      BY <2>1, <3>2, <3>3, <3>4, <3>5
    <3> QED BY <3>6 DEF a, b
  <2>5. ASSUME traversal.state = "capturing"
        PROVE  /\ traversal.controller = "hold"
               /\ \A i \in DOMAIN feedback :
                    feedback[i].received >= checkpoint.start - Settle => feedback[i].stationary
    <3>1. /\ traversal.controller = "hold" /\ checkpoint.state = "capturing"
          /\ StandsStill(checkpoint, feedback, loop.at) /\ feedback \in Seq(Readbacks)
          /\ checkpoint \in [state : {"none", "approaching", "capturing"},
                             settled : Int \cup {None}, start : Int \cup {None}]
      BY <1>1, <2>5 DEF TraversalOrdered, TraversalTyped, AtPose
    <3> DEFINE a == checkpoint.start
               b == checkpoint.settled
    <3>2. a \in Int /\ b \in Int /\ a - b >= Settle /\ b # None
      BY <3>1 DEF StandsStill
    <3>3. \A i \in DOMAIN feedback : feedback[i].received >= b => feedback[i].stationary
      BY <3>1, <3>2 DEF StandsStill
    <3> HIDE DEF a, b
    <3>4. ASSUME NEW i \in DOMAIN feedback, feedback[i].received >= a - Settle
          PROVE  feedback[i].stationary
      <4>1. feedback[i] \in Readbacks
        BY <3>1
      <4>2. feedback[i].received \in Int
        BY <4>1 DEF Readbacks
      <4> QED BY <2>1, <3>2, <3>3, <3>4, <4>2
    <3> QED BY <3>1, <3>4 DEF a
  <2> QED BY <2>2, <2>3, <2>4, <2>5 DEF EvidenceOfPose, Traversal!EvidenceOfPose,
          Traversal!Stationary
<1> QED BY <1>1, TraversalAlwaysOrdered, PTL

-----------------------------------------------------------------------------
(* The group of followers and its twin.                                     *)

Operations == {"motion", "stop"}
TwinStates ==
    [at : {"opening", "waiting", "executing", "ended"}, command : Nat \cup {None},
     executed : Seq(Nat), fault : BOOLEAN, stop : BOOLEAN]

TwinTyped ==
    /\ commands \in Seq(Operations)
    /\ group \in [at : {"idle", "clear", "put", "closed"}, accepted : SUBSET Nat]
    /\ pending \in Nat \cup {None}
    /\ twin \in TwinStates
    /\ twin.at = "executing" <=> twin.command # None

\* The commands that twin t has executed are in order and of those of offers.
Executed(t, offers) ==
    \A i \in DOMAIN t.executed :
        /\ t.executed[i] \in offers
        /\ i > 1 => t.executed[i - 1] < t.executed[i]

\* What twin t has done and does comes before command n.
Behind(t, n) ==
    /\ \A i \in DOMAIN t.executed : t.executed[i] < n
    /\ t.command # None => t.command < n

\* Command n is the one that waits in p, or else the one that twin t does,
\* or else the last that it did.
LastGiven(t, p, n) ==
    \/ p = n
    \/ p = None /\ t.command = n
    \/ p = None /\ t.command = None /\ t.executed # <<>> /\ t.executed[Len(t.executed)] = n

\* Of commands up to the last, those of offers go through p to twin t.
Given(at, p, t, offers, last) ==
    /\ offers \subseteq 1 .. last
    /\ Executed(t, offers)
    /\ t.command # None =>
          t.command \in offers /\ \A i \in DOMAIN t.executed : t.executed[i] < t.command
    /\ p # None => p \in offers /\ Behind(t, p)
    /\ at \in {"clear", "put"} =>
          last \in offers /\ Behind(t, last) /\ (p # None => p < last)
    /\ at = "put" => p = None
    /\ (at \in {"idle", "closed"} /\ t.at # "ended" /\ offers # {}) =>
          \E n \in offers : (\A m \in offers : m <= n) /\ LastGiven(t, p, n)

TwinOrdered ==
    /\ TwinTyped
    /\ group.accepted \subseteq 1 .. Len(commands)
    /\ Given(group.at, pending, twin, Twins!Offered, Len(commands))

-----------------------------------------------------------------------------

LEMMA TwinsBegin == ASSUME Twins!Init PROVE TwinOrdered
<1>1. /\ commands = <<>> /\ pending = None
      /\ group = [at |-> "idle", accepted |-> {}]
      /\ twin = [at |-> "opening", command |-> None, executed |-> <<>>, fault |-> FALSE,
                 stop |-> FALSE]
  BY DEF Twins!Init
<1>2. Twins!Offered = {} BY <1>1 DEF Twins!Offered
<1>3. TwinTyped BY <1>1, LoopAssumption DEF TwinTyped, TwinStates, Operations
<1>4. Given(group.at, pending, twin, {}, 0)
  BY <1>1 DEF Given, Executed, Behind
<1> QED BY <1>1, <1>2, <1>3, <1>4 DEF TwinOrdered

\* The steps of the queue and the twin leave the commands alone.
LEMMA SameOffers ==
    ASSUME UNCHANGED commands, group'.accepted = group.accepted
    PROVE  Twins!Offered' = Twins!Offered
BY DEF Twins!Offered

LEMMA TwinCommanded == ASSUME TwinOrdered, Twins!Command PROVE TwinOrdered'
<1> DEFINE L == Len(commands)
<1>1. PICK operation \in Operations, accepted \in BOOLEAN :
        /\ commands' = Append(commands, operation)
        /\ group' = [at |-> IF Twins!Offers(operation, accepted) THEN "clear" ELSE "idle",
                     accepted |-> IF accepted THEN group.accepted \cup {L + 1}
                                  ELSE group.accepted]
  BY DEF Twins!Command, Twins!Operations, Operations, Twins!Last
<1>2. group.at = "idle" /\ UNCHANGED <<pending, twin>> BY DEF Twins!Command
<1>3. TwinTyped /\ group.accepted \subseteq 1 .. L
  BY DEF TwinOrdered
<1>4. commands \in Seq(Operations) /\ L \in Nat BY <1>3 DEF TwinTyped
<1>5. /\ commands' \in Seq(Operations) /\ Len(commands') = L + 1
      /\ \A i \in 1 .. L : commands'[i] = commands[i]
      /\ commands'[L + 1] = operation
  BY <1>1, <1>4
<1>6. group'.accepted \subseteq 1 .. (L + 1)
  BY <1>1, <1>3, <1>4
<1>7. TwinTyped'
  <2>1. group' \in [at : {"idle", "clear", "put", "closed"}, accepted : SUBSET Nat]
    BY <1>1, <1>3, <1>4 DEF TwinTyped
  <2> QED BY <2>1, <1>2, <1>3, <1>5 DEF TwinTyped
<1> DEFINE O == Twins!Offered
           Q == Twins!Offered'
<1>8. DOMAIN commands = 1 .. L /\ DOMAIN commands' = 1 .. (L + 1) BY <1>4, <1>5
<1>9. O \subseteq 1 .. L /\ Q \subseteq 1 .. (L + 1) BY <1>8 DEF Twins!Offered
<1>10. \A n \in 1 .. L : n \in Q <=> n \in O
  <2> TAKE n \in 1 .. L
  <2>1. n \in 1 .. (L + 1) /\ n # L + 1 BY <1>4
  <2>2. n \in group'.accepted <=> n \in group.accepted BY <1>1, <2>1
  <2> QED BY <2>1, <2>2, <1>5, <1>8 DEF Twins!Offered
<1>11. L + 1 \in Q <=> Twins!Offers(operation, accepted)
  <2>1. L + 1 \in 1 .. (L + 1) /\ L + 1 \notin 1 .. L BY <1>4
  <2>2. L + 1 \in group'.accepted <=> accepted BY <2>1, <1>1, <1>3
  <2> QED BY <2>1, <2>2, <1>5, <1>8 DEF Twins!Offered, Twins!Offers
<1>12. Given("idle", pending, twin, O, L) BY <1>2 DEF TwinOrdered
<1>13. pending \in Nat \cup {None} /\ twin \in TwinStates BY <1>3 DEF TwinTyped
<1> HIDE DEF L, O, Q
<1>14. ASSUME Twins!Offers(operation, accepted)
       PROVE  Given("clear", pending, twin, Q, L + 1)
  <2>1. L + 1 \in Q /\ O \subseteq Q BY <1>14, <1>9, <1>10, <1>11
  <2>2. \A n \in O : n \in Nat /\ n < L + 1 BY <1>4, <1>9
  <2>3. Executed(twin, Q) BY <1>12, <2>1 DEF Given, Executed
  <2>4. twin.command # None => twin.command \in O BY <1>12 DEF Given
  <2>5. \A i \in DOMAIN twin.executed : twin.executed[i] \in O
    BY <1>12 DEF Given, Executed
  <2>6. Behind(twin, L + 1) BY <2>2, <2>4, <2>5 DEF Behind
  <2>7. pending # None => pending \in O /\ Behind(twin, pending) BY <1>12 DEF Given
  <2>8. twin.command # None =>
            \A i \in DOMAIN twin.executed : twin.executed[i] < twin.command
    BY <1>12 DEF Given
  <2> QED BY <1>9, <2>1, <2>2, <2>3, <2>4, <2>6, <2>7, <2>8 DEF Given
<1>15. ASSUME ~Twins!Offers(operation, accepted)
       PROVE  Given("idle", pending, twin, Q, L + 1)
  <2>1. Q = O
    <3>1. L + 1 \notin Q BY <1>15, <1>11
    <3>2. \A n \in 1 .. (L + 1) : n \in 1 .. L \/ n = L + 1 BY <1>4
    <3>3. \A n \in 1 .. L : n \in 1 .. (L + 1) BY <1>4
    <3> QED BY <3>1, <3>2, <1>9, <1>10
  <2> QED BY <2>1, <1>9, <1>12 DEF Given
<1>16. Given(group'.at, pending', twin', Q, L + 1)
  BY <1>1, <1>2, <1>14, <1>15 DEF L
<1> QED BY <1>5, <1>6, <1>7, <1>16 DEF TwinOrdered, L, Q

LEMMA TwinOffered ==
    ASSUME TwinOrdered, Twins!OfferClears \/ Twins!OfferPuts PROVE TwinOrdered'
<1> DEFINE L == Len(commands)
           O == Twins!Offered
<1>1. TwinTyped /\ Given(group.at, pending, twin, O, L) BY DEF TwinOrdered
<1>2. UNCHANGED <<commands, twin>> /\ group'.accepted = group.accepted
  BY <1>1 DEF Twins!OfferClears, Twins!OfferPuts, TwinTyped
<1>3. Twins!Offered' = O BY <1>2, SameOffers
<1>4. L \in Nat /\ O \subseteq 1 .. L BY <1>1 DEF TwinTyped, Given
<1>5. CASE Twins!OfferClears
  <2>1. group.at = "clear" /\ group'.at = "put" /\ pending' = None
    BY <1>1, <1>5 DEF Twins!OfferClears, TwinTyped
  <2>2. TwinTyped' BY <1>1, <1>2, <1>5, <2>1 DEF Twins!OfferClears, TwinTyped
  <2> HIDE DEF L, O
  <2>3. Given("put", None, twin, O, L) BY <1>1, <2>1 DEF Given
  <2> QED BY <1>2, <1>3, <2>1, <2>2, <2>3 DEF TwinOrdered, L, O
<1>6. CASE Twins!OfferPuts
  <2>1. group.at = "put" /\ group'.at = "idle" BY <1>1, <1>6 DEF Twins!OfferPuts, TwinTyped
  <2>2. pending = None /\ L \in O /\ Behind(twin, L) BY <1>1, <2>1 DEF Given
  <2>3. pending' = L BY <1>6, <2>2 DEF Twins!OfferPuts, Twins!Last
  <2>4. TwinTyped' BY <1>1, <1>2, <1>4, <1>6, <2>3 DEF Twins!OfferPuts, TwinTyped
  <2> HIDE DEF L, O
  <2>5. \A m \in O : m <= L BY <1>4
  <2>6. LastGiven(twin, L, L) BY DEF LastGiven
  <2>7. Given("idle", L, twin, O, L) BY <1>1, <2>2, <2>5, <2>6 DEF Given
  <2> QED BY <1>2, <1>3, <2>1, <2>3, <2>4, <2>7 DEF TwinOrdered, L, O
<1> QED BY <1>5, <1>6

LEMMA TwinClosed == ASSUME TwinOrdered, Twins!GroupCloses PROVE TwinOrdered'
<1>1. TwinTyped /\ group.at = "idle" BY DEF TwinOrdered, Twins!GroupCloses
<1>2. /\ UNCHANGED <<commands, pending>>
      /\ group' = [group EXCEPT !.at = "closed"] /\ twin' = [twin EXCEPT !.stop = TRUE]
  BY DEF Twins!GroupCloses
<1>3. /\ group'.accepted = group.accepted /\ group'.at = "closed"
      /\ twin'.at = twin.at /\ twin'.command = twin.command /\ twin'.executed = twin.executed
  BY <1>1, <1>2 DEF TwinTyped, TwinStates
<1>4. TwinTyped' BY <1>1, <1>2, <1>3 DEF TwinTyped, TwinStates
<1>5. Twins!Offered' = Twins!Offered BY <1>2, <1>3, SameOffers
<1>6. Given("idle", pending, twin, Twins!Offered, Len(commands))
  BY <1>1 DEF TwinOrdered
<1>7. Given("closed", pending, twin', Twins!Offered, Len(commands))
  BY <1>3, <1>6 DEF Given, Executed, Behind, LastGiven
<1> QED BY <1>2, <1>3, <1>4, <1>5, <1>7 DEF TwinOrdered

\* A step of the twin's thread from a queue p, that leaves q.
LEMMA TwinSteps ==
    ASSUME TwinOrdered, NEW t, Twins!Twin(t), TwinTyped',
           \A at, offers, last :
               Given(at, pending, twin, offers, last) => Given(at, pending', t, offers, last)
    PROVE  TwinOrdered'
<1>1. twin' = t /\ UNCHANGED <<commands, group>> BY DEF Twins!Twin
<1>2. Twins!Offered' = Twins!Offered BY <1>1, SameOffers
<1> QED BY <1>1, <1>2 DEF TwinOrdered

LEMMA TwinEnds ==
    ASSUME TwinOrdered, NEW fault \in BOOLEAN, Twins!Twin(Twins!Ended(fault)), pending' = pending
    PROVE  TwinOrdered'
<1> DEFINE t == Twins!Ended(fault)
<1>1. TwinTyped BY DEF TwinOrdered
<1>2. t \in TwinStates /\ t.at = "ended" /\ t.command = None /\ t.executed = twin.executed
  BY <1>1 DEF TwinTyped, TwinStates, Twins!Ended
<1>3. TwinTyped' BY <1>1, <1>2 DEF TwinTyped, Twins!Twin
<1>4. ASSUME NEW at, NEW offers, NEW last, Given(at, pending, twin, offers, last)
      PROVE  Given(at, pending', t, offers, last)
  BY <1>2, <1>4 DEF Given, Executed, Behind
<1> QED BY <1>3, <1>4, TwinSteps

LEMMA TwinNext ==
    ASSUME TwinOrdered,
           Twins!Opens \/ Twins!Takes \/ Twins!Executes \/ Twins!MotionLost \/ Twins!NoticesStop
    PROVE  TwinOrdered'
<1>1. TwinTyped /\ twin \in TwinStates BY DEF TwinOrdered, TwinTyped
<1>2. ASSUME pending' = pending, \E fault \in BOOLEAN : Twins!Twin(Twins!Ended(fault))
      PROVE  TwinOrdered'
  BY <1>2, TwinEnds
<1>3. CASE Twins!Opens
  <2>1. twin.at = "opening" /\ pending' = pending BY <1>3 DEF Twins!Opens
  <2> DEFINE t == [twin EXCEPT !.at = "waiting"]
  <2>2. ASSUME Twins!Twin(t) PROVE TwinOrdered'
    <3>1. /\ t \in TwinStates /\ t.at = "waiting" /\ t.command = twin.command
          /\ t.executed = twin.executed
      BY <1>1 DEF TwinStates
    <3>2. TwinTyped' BY <1>1, <2>1, <2>2, <3>1 DEF TwinTyped, Twins!Twin
    <3>3. ASSUME NEW at, NEW offers, NEW last, Given(at, pending, twin, offers, last)
          PROVE  Given(at, pending', t, offers, last)
      BY <2>1, <3>1, <3>3 DEF Given, Executed, Behind, LastGiven
    <3> QED BY <2>2, <3>2, <3>3, TwinSteps
  <2> QED BY <1>2, <1>3, <2>1, <2>2 DEF Twins!Opens
<1>4. CASE Twins!Takes
  <2> DEFINE t == [twin EXCEPT !.at = "executing", !.command = pending]
  <2>1. twin.at = "waiting" /\ pending # None /\ pending' = None /\ Twins!Twin(t)
    BY <1>4 DEF Twins!Takes
  <2>2. pending \in Nat /\ twin.command = None BY <1>1, <2>1 DEF TwinTyped
  <2>3. /\ t \in TwinStates /\ t.at = "executing" /\ t.command = pending
        /\ t.executed = twin.executed
    BY <1>1, <2>2 DEF TwinStates
  <2>4. TwinTyped' BY <1>1, <2>1, <2>3 DEF TwinTyped, Twins!Twin
  <2>5. ASSUME NEW at, NEW offers, NEW last, Given(at, pending, twin, offers, last)
        PROVE  Given(at, pending', t, offers, last)
    <3>1. at # "put" BY <2>1, <2>5 DEF Given
    <3>2. pending \in offers /\ Behind(twin, pending) BY <2>1, <2>5 DEF Given
    <3>3. \A i \in DOMAIN t.executed : t.executed[i] < t.command
      BY <2>3, <3>2 DEF Behind
    <3>4. Executed(t, offers) BY <2>3, <2>5 DEF Given, Executed
    <3>5. at = "clear" => last \in offers /\ Behind(t, last)
      BY <2>1, <2>3, <2>5 DEF Given, Behind
    <3>6. ASSUME at \in {"idle", "closed"}, offers # {}
          PROVE  \E n \in offers : (\A m \in offers : m <= n) /\ LastGiven(t, pending', n)
      <4>1. PICK n \in offers : (\A m \in offers : m <= n) /\ LastGiven(twin, pending, n)
        BY <2>1, <2>5, <3>6 DEF Given
      <4>2. n = pending BY <4>1, <2>1 DEF LastGiven
      <4> QED BY <2>1, <2>3, <4>1, <4>2 DEF LastGiven
    <3>7. offers \subseteq 1 .. last BY <2>5 DEF Given
    <3> QED BY <2>1, <2>3, <3>1, <3>2, <3>3, <3>4, <3>5, <3>6, <3>7 DEF Given
  <2> QED BY <2>1, <2>4, <2>5, TwinSteps
<1>5. CASE Twins!Executes
  <2> DEFINE c == twin.command
             e == Append(twin.executed, c)
             t == [twin EXCEPT !.at = "waiting", !.command = None, !.executed = e]
  <2>1. twin.at = "executing" /\ pending' = pending BY <1>5 DEF Twins!Executes
  <2>2. ASSUME Twins!Twin(t) PROVE TwinOrdered'
    <3>1. c # None /\ c \in Nat /\ twin.executed \in Seq(Nat)
      BY <1>1, <2>1 DEF TwinTyped, TwinStates
    <3> DEFINE k == Len(twin.executed)
    <3>2. /\ k \in Nat /\ e \in Seq(Nat) /\ Len(e) = k + 1 /\ e[k + 1] = c
          /\ \A i \in 1 .. k : e[i] = twin.executed[i]
      BY <3>1
    <3>3. DOMAIN twin.executed = 1 .. k /\ DOMAIN e = 1 .. (k + 1) BY <3>1, <3>2
    <3> HIDE DEF e, k, c
    <3>4. t \in TwinStates /\ t.at = "waiting" /\ t.command = None /\ t.executed = e
      BY <1>1, <3>2 DEF TwinStates
    <3> HIDE DEF t
    <3>5. TwinTyped' BY <1>1, <2>1, <2>2, <3>4 DEF TwinTyped, Twins!Twin
    <3>6. \A i \in 1 .. (k + 1) : i = k + 1 \/ (i \in 1 .. k /\ e[i] = twin.executed[i])
      BY <3>2
    <3>7. ASSUME NEW at, NEW offers, NEW last, Given(at, pending, twin, offers, last)
          PROVE  Given(at, pending', t, offers, last)
      <4>1. c \in offers /\ \A i \in 1 .. k : twin.executed[i] < c
        BY <3>1, <3>3, <3>7 DEF Given, c
      <4>2. Executed(t, offers)
        <5> SUFFICES ASSUME NEW i \in 1 .. (k + 1)
                     PROVE  e[i] \in offers /\ (i > 1 => e[i - 1] < e[i])
          BY <3>3, <3>4 DEF Executed
        <5>1. \A j \in 1 .. k : /\ twin.executed[j] \in offers
                                /\ j > 1 => twin.executed[j - 1] < twin.executed[j]
          BY <3>3, <3>7 DEF Given, Executed
        <5>2. CASE i = k + 1
          <6>1. i > 1 => k \in 1 .. k /\ i - 1 = k BY <3>2, <5>2
          <6> QED BY <3>2, <4>1, <5>2, <6>1
        <5>3. CASE i \in 1 .. k
          <6>1. i > 1 => i - 1 \in 1 .. k BY <3>2, <5>3
          <6> QED BY <3>2, <5>1, <5>3, <6>1
        <5> QED BY <3>6, <5>2, <5>3
      <4>3. ASSUME NEW n, Behind(twin, n) PROVE Behind(t, n)
        <5>1. c < n /\ \A i \in 1 .. k : twin.executed[i] < n
          BY <3>1, <3>3, <4>3 DEF Behind, c
        <5> QED BY <3>2, <3>3, <3>4, <3>6, <5>1 DEF Behind
      <4>4. pending # None => pending \in offers /\ Behind(t, pending)
        BY <3>7, <4>3 DEF Given
      <4>5. at \in {"clear", "put"} =>
                last \in offers /\ Behind(t, last) /\ (pending # None => pending < last)
        BY <3>7, <4>3 DEF Given
      <4>6. ASSUME at \in {"idle", "closed"}, offers # {}
            PROVE  \E n \in offers : (\A m \in offers : m <= n) /\ LastGiven(t, pending, n)
        <5>1. PICK n \in offers : (\A m \in offers : m <= n) /\ LastGiven(twin, pending, n)
          BY <2>1, <3>7, <4>6 DEF Given
        <5>2. pending = n \/ (pending = None /\ n = c)
          BY <3>1, <5>1 DEF LastGiven, c
        <5>3. e # <<>> /\ e[Len(e)] = c BY <3>2
        <5> QED BY <3>4, <5>1, <5>2, <5>3 DEF LastGiven
      <4>7. offers \subseteq 1 .. last /\ (at = "put" => pending = None) BY <3>7 DEF Given
      <4> QED BY <2>1, <3>4, <4>2, <4>4, <4>5, <4>6, <4>7 DEF Given
    <3> QED BY <2>2, <3>5, <3>7, TwinSteps DEF t
  <2> QED BY <1>2, <1>5, <2>1, <2>2 DEF Twins!Executes
<1>6. CASE Twins!MotionLost BY <1>2, <1>6 DEF Twins!MotionLost
<1>7. CASE Twins!NoticesStop BY <1>2, <1>7 DEF Twins!NoticesStop
<1> QED BY <1>3, <1>4, <1>5, <1>6, <1>7

LEMMA TwinsStep == ASSUME TwinOrdered, [Twins!Next]_(Twins!vars) PROVE TwinOrdered'
<1>1. ASSUME UNCHANGED Twins!vars PROVE TwinOrdered'
  <2>1. UNCHANGED <<commands, group, pending, twin>> BY <1>1 DEF Twins!vars
  <2> QED BY <2>1 DEF TwinOrdered, TwinTyped, Twins!Offered
<1>2. ASSUME Twins!Next PROVE TwinOrdered'
  BY <1>2, TwinCommanded, TwinOffered, TwinClosed, TwinNext DEF Twins!Next
<1> QED BY <1>1, <1>2

LEMMA OrderedFollows == ASSUME TwinOrdered PROVE Twins!TwinFollows
<1> DEFINE O == Twins!Offered
<1>1. Given(group.at, pending, twin, O, Len(commands)) BY DEF TwinOrdered
<1>2. TwinTyped BY DEF TwinOrdered
<1>3. \A i \in DOMAIN twin.executed :
         /\ twin.executed[i] \in O
         /\ i > 1 => twin.executed[i - 1] < twin.executed[i]
  BY <1>1 DEF Given, Executed
<1>4. ASSUME group.at = "idle", twin.at = "waiting", pending = None, O # {}
      PROVE  twin.executed # <<>> /\ twin.executed[Len(twin.executed)] = Twins!Newest
  <2>1. PICK n \in O : (\A m \in O : m <= n) /\ LastGiven(twin, pending, n)
    BY <1>1, <1>4 DEF Given
  <2>2. O \subseteq Nat BY <1>1, <1>2 DEF Given, TwinTyped
  <2>3. \A k \in O : (\A m \in O : m <= k) => k = n BY <2>1, <2>2
  <2>4. Twins!Newest = n BY <2>1, <2>3 DEF Twins!Newest
  <2>5. n # None /\ twin.command = None BY <1>2, <1>4, <2>2, LoopAssumption DEF TwinTyped
  <2> QED BY <1>4, <2>1, <2>4, <2>5 DEF LastGiven
<1> QED BY <1>3, <1>4 DEF Twins!TwinFollows

(* Whatever the two calls on the queue and the twin's thread interleave to, *)
(* the twin executes only what was passed on, in order, and ends with the   *)
(* newest of it when it has nothing left to do (dispatch.py).  For every    *)
(* number of commands.                                                      *)
THEOREM TwinAlwaysFollows == Twins!Spec => []Twins!TwinFollows
<1>1. Twins!Init => TwinOrdered BY TwinsBegin
<1>2. TwinOrdered /\ [Twins!Next]_(Twins!vars) => TwinOrdered' BY TwinsStep
<1>3. TwinOrdered => Twins!TwinFollows BY OrderedFollows
<1> QED BY <1>1, <1>2, <1>3, PTL DEF Twins!Spec

-----------------------------------------------------------------------------
(* The observer: its queue, its worker and its owner.                       *)

ObserverMessages ==
    {m \in [kind : {"records", "status", "stop"}, records : Nat, phase : Phases \cup {None},
            dropped : Nat] : m.kind # "records" => m.records = 0}

ObserverTyped ==
    /\ queue \in Seq(ObserverMessages)
    /\ worker \in [at : {"none", "starting", "serving", "ended"}, shown : Nat,
                   phase : Phases \cup {None}, dropped : Nat, unshown : Nat]
    /\ owner \in [at : {"new", "starting", "idle", "sending", "closing", "closed"},
                  ready : BOOLEAN, error : BOOLEAN, dropped : Nat, status : Phases \cup {None},
                  recent : BOOLEAN, sending : ObserverMessages \cup {None}]
    /\ side \in [phase : Phases, offered : Nat]
    /\ owner.at = "sending" => owner.sending \in ObserverMessages

\* What waits in queue q, n records in all: the sums behind each of its
\* messages add up, and are no larger the further back.
Waits(q, n) ==
    \E behind \in [0 .. Len(q) -> Nat] :
        /\ behind[Len(q)] = 0 /\ behind[0] = n
        /\ \A i \in 1 .. Len(q) : behind[i - 1] = q[i].records + behind[i]
        /\ \A i, j \in 0 .. Len(q) : i <= j => behind[j] <= behind[i]

\* Message i of queue q is its last status.
IsLast(q, i) == q[i].kind = "status" /\ \A j \in (i + 1) .. Len(q) : q[j].kind # "status"

\* s is the phase of the last status in queue q, if any, and otherwise p.
LastStatus(q, p, s) ==
    \/ p = s /\ \A i \in 1 .. Len(q) : q[i].kind # "status"
    \/ \E i \in 1 .. Len(q) : IsLast(q, i) /\ q[i].phase = s

\* No message and no worker shows more lost than there is.
Losses(q, w, o) ==
    /\ w.dropped <= o.dropped
    /\ \A i \in 1 .. Len(q) : q[i].dropped <= o.dropped
    /\ o.at = "sending" => o.sending.dropped <= o.dropped

ObserverHeld ==
    /\ ObserverTyped
    /\ \E n \in Nat :
          /\ Waits(queue, n)
          /\ side.offered = worker.shown + worker.unshown + owner.dropped
                                + Observation!InHand + n
    /\ Losses(queue, worker, owner)
    /\ worker.at # "ended" => worker.unshown = 0 /\ LastStatus(queue, worker.phase, owner.status)
    /\ owner.at = "new" => worker.at = "none"
    /\ owner.at = "closed" => worker.at \in {"none", "ended"}

-----------------------------------------------------------------------------
(* The queue.                                                               *)

LEMMA WaitsAppended ==
    ASSUME NEW q \in Seq(ObserverMessages), NEW m \in ObserverMessages, NEW n \in Nat,
           Waits(q, n)
    PROVE  Waits(Append(q, m), n + m.records)
<1> DEFINE r == Append(q, m)
           L == Len(q)
<1>1. m.records \in Nat BY DEF ObserverMessages
<1>2. /\ L \in Nat /\ Len(r) = L + 1 /\ r[L + 1] = m
      /\ \A i \in 1 .. L : r[i] = q[i]
  OBVIOUS
<1>3. PICK behind \in [0 .. L -> Nat] :
        /\ behind[L] = 0 /\ behind[0] = n
        /\ \A i \in 1 .. L : behind[i - 1] = q[i].records + behind[i]
        /\ \A i, j \in 0 .. L : i <= j => behind[j] <= behind[i]
  BY DEF Waits
<1> HIDE DEF r, L
<1>4. \A i \in 1 .. L : q[i].records \in Nat
  <2>1. \A i \in 1 .. L : q[i] \in ObserverMessages BY DEF L
  <2> QED BY <2>1 DEF ObserverMessages
<1> DEFINE longer == [i \in 0 .. (L + 1) |-> IF i = L + 1 THEN 0 ELSE behind[i] + m.records]
<1>5. \A i \in 0 .. L : i \in 0 .. (L + 1) /\ longer[i] = behind[i] + m.records BY <1>2
<1>6. longer[L + 1] = 0 BY <1>2
<1>7. longer \in [0 .. (L + 1) -> Nat]
  <2> SUFFICES ASSUME NEW i \in 0 .. (L + 1)
               PROVE  (IF i = L + 1 THEN 0 ELSE behind[i] + m.records) \in Nat
    OBVIOUS
  <2>1. i = L + 1 \/ i \in 0 .. L BY <1>2
  <2> QED BY <2>1, <1>1, <1>3
<1> HIDE DEF longer
<1>8. \A i \in 0 .. L : behind[i] \in Nat BY <1>3
<1>9. longer[0] = n + m.records
  <2>1. 0 \in 0 .. L BY <1>2
  <2> QED BY <2>1, <1>1, <1>3, <1>5
<1>10. ASSUME NEW i \in 1 .. (L + 1) PROVE longer[i - 1] = r[i].records + longer[i]
  <2>1. CASE i = L + 1
    <3>1. i - 1 = L /\ L \in 0 .. L BY <1>2, <2>1
    <3> QED BY <2>1, <3>1, <1>1, <1>2, <1>3, <1>5, <1>6
  <2>2. CASE i # L + 1
    <3>1. i \in 1 .. L /\ i \in 0 .. L /\ i - 1 \in 0 .. L BY <1>2, <2>2
    <3>2. behind[i - 1] = q[i].records + behind[i] BY <1>3, <3>1
    <3>3. longer[i - 1] = behind[i - 1] + m.records /\ longer[i] = behind[i] + m.records
      BY <1>5, <3>1
    <3>4. r[i].records = q[i].records BY <3>1, <1>2
    <3>5. q[i].records \in Nat /\ behind[i] \in Nat BY <3>1, <1>4, <1>8
    <3>6. \A a, b, c \in Nat : (a + b) + c = a + (b + c) OBVIOUS
    <3> QED BY <3>2, <3>3, <3>4, <3>5, <3>6, <1>1
  <2> QED BY <2>1, <2>2
<1>11. ASSUME NEW i \in 0 .. (L + 1), NEW j \in 0 .. (L + 1), i <= j
       PROVE  longer[j] <= longer[i]
  <2>1. CASE j = L + 1 BY <1>6, <1>7, <2>1
  <2>2. CASE j # L + 1
    <3>1. i \in 0 .. L /\ j \in 0 .. L BY <1>2, <1>11, <2>2
    <3>2. behind[j] <= behind[i] BY <1>3, <1>11, <3>1
    <3> QED BY <3>1, <3>2, <1>1, <1>5, <1>8
  <2> QED BY <2>1, <2>2
<1>12. Len(r) = L + 1 BY <1>2
<1> QED BY <1>6, <1>7, <1>9, <1>10, <1>11, <1>12 DEF Waits, r

LEMMA WaitsTaken ==
    ASSUME NEW q \in Seq(ObserverMessages), NEW n \in Nat, q # <<>>, Waits(q, n)
    PROVE  \E k \in Nat : Waits(Tail(q), k) /\ n = Head(q).records + k
<1> DEFINE r == Tail(q)
           L == Len(q)
<1>1. /\ L \in Nat \ {0} /\ Len(r) = L - 1
      /\ \A i \in 1 .. (L - 1) : r[i] = q[i + 1]
      /\ Head(q) = q[1]
  OBVIOUS
<1>2. PICK behind \in [0 .. L -> Nat] :
        /\ behind[L] = 0 /\ behind[0] = n
        /\ \A i \in 1 .. L : behind[i - 1] = q[i].records + behind[i]
        /\ \A i, j \in 0 .. L : i <= j => behind[j] <= behind[i]
  BY DEF Waits
<1> HIDE DEF r, L
<1> DEFINE rest == [i \in 0 .. (L - 1) |-> behind[i + 1]]
<1>3. \A i \in 0 .. (L - 1) : i + 1 \in 0 .. L /\ rest[i] = behind[i + 1] BY <1>1
<1>4. rest \in [0 .. (L - 1) -> Nat] BY <1>1, <1>2
<1> HIDE DEF rest
<1>5. 0 \in 0 .. (L - 1) /\ L - 1 \in 0 .. (L - 1) /\ (L - 1) + 1 = L /\ 0 + 1 = 1 BY <1>1
<1>6. rest[L - 1] = 0 /\ rest[0] = behind[1] BY <1>2, <1>3, <1>5
<1>7. ASSUME NEW i \in 1 .. (L - 1) PROVE rest[i - 1] = r[i].records + rest[i]
  <2>1. i \in 0 .. (L - 1) /\ i - 1 \in 0 .. (L - 1) /\ i + 1 \in 1 .. L
        /\ (i - 1) + 1 = i /\ (i + 1) - 1 = i
    BY <1>1
  <2>2. behind[i] = q[i + 1].records + behind[i + 1] BY <1>2, <2>1
  <2> QED BY <1>1, <1>3, <2>1, <2>2
<1>8. ASSUME NEW i \in 0 .. (L - 1), NEW j \in 0 .. (L - 1), i <= j PROVE rest[j] <= rest[i]
  <2>1. i + 1 \in 0 .. L /\ j + 1 \in 0 .. L /\ i + 1 <= j + 1 BY <1>1, <1>8
  <2>2. behind[j + 1] <= behind[i + 1] BY <1>2, <2>1
  <2> QED BY <1>3, <2>2
<1>9. Waits(r, rest[0])
  BY <1>1, <1>4, <1>6, <1>7, <1>8 DEF Waits
<1>10. n = Head(q).records + rest[0]
  <2>1. 1 \in 1 .. L /\ 1 - 1 = 0 BY <1>1
  <2>2. behind[0] = q[1].records + behind[1] BY <1>2, <2>1
  <2> QED BY <1>1, <1>2, <1>6, <2>2
<1>11. rest[0] \in Nat BY <1>4, <1>5
<1> QED BY <1>9, <1>10, <1>11 DEF r

LEMMA StatusAppended ==
    ASSUME NEW q \in Seq(ObserverMessages), NEW m \in ObserverMessages, NEW p, NEW s, NEW t,
           m.kind = "status" => t = m.phase, m.kind # "status" => t = s,
           LastStatus(q, p, s)
    PROVE  LastStatus(Append(q, m), p, t)
<1> DEFINE r == Append(q, m)
           L == Len(q)
<1>1. /\ L \in Nat /\ Len(r) = L + 1 /\ r[L + 1] = m
      /\ \A i \in 1 .. L : r[i] = q[i]
  OBVIOUS
<1> HIDE DEF r, L
<1>2. \A j \in 1 .. (L + 1) : j \in 1 .. L \/ j = L + 1 BY <1>1
<1>3. CASE m.kind = "status"
  <2>1. L + 1 \in 1 .. (L + 1) /\ ((L + 1) + 1) .. (L + 1) = {} BY <1>1
  <2>2. IsLast(r, L + 1) /\ r[L + 1].phase = t BY <1>1, <1>3, <2>1 DEF IsLast
  <2> QED BY <1>1, <2>1, <2>2 DEF LastStatus, r
<1>4. CASE m.kind # "status"
  <2>1. CASE p = s /\ \A i \in 1 .. L : q[i].kind # "status"
    <3>1. \A j \in 1 .. (L + 1) : r[j].kind # "status" BY <1>1, <1>2, <1>4, <2>1
    <3> QED BY <1>1, <1>4, <2>1, <3>1 DEF LastStatus, r
  <2>2. CASE \E i \in 1 .. L : IsLast(q, i) /\ q[i].phase = s
    <3>1. PICK i \in 1 .. L : IsLast(q, i) /\ q[i].phase = s BY <2>2
    <3>2. i \in 1 .. (L + 1) /\ r[i] = q[i] BY <1>1
    <3>3. ASSUME NEW j \in (i + 1) .. (L + 1) PROVE r[j].kind # "status"
      <4>1. j = L + 1 \/ (j \in (i + 1) .. L /\ j \in 1 .. L) BY <1>1
      <4> QED BY <4>1, <1>1, <1>4, <3>1 DEF IsLast, L
    <3>4. IsLast(r, i) /\ r[i].phase = t BY <1>1, <1>4, <3>1, <3>2, <3>3 DEF IsLast
    <3> QED BY <1>1, <3>2, <3>4 DEF LastStatus, r
  <2> QED BY <2>1, <2>2 DEF LastStatus, L
<1> QED BY <1>3, <1>4

LEMMA StatusTaken ==
    ASSUME NEW q \in Seq(ObserverMessages), NEW p, NEW k, NEW s, q # <<>>,
           LastStatus(q, p, s),
           Head(q).kind = "status" => k = Head(q).phase, Head(q).kind # "status" => k = p
    PROVE  LastStatus(Tail(q), k, s)
<1> DEFINE r == Tail(q)
           L == Len(q)
<1>1. /\ L \in Nat \ {0} /\ Len(r) = L - 1
      /\ \A i \in 1 .. (L - 1) : r[i] = q[i + 1]
      /\ Head(q) = q[1]
  OBVIOUS
<1> HIDE DEF r, L
<1>2. CASE p = s /\ \A i \in 1 .. L : q[i].kind # "status"
  <2>1. 1 \in 1 .. L /\ \A i \in 1 .. (L - 1) : i + 1 \in 1 .. L BY <1>1
  <2>2. k = s /\ \A i \in 1 .. (L - 1) : r[i].kind # "status" BY <1>1, <1>2, <2>1
  <2> QED BY <1>1, <2>2 DEF LastStatus, r
<1>3. CASE \E i \in 1 .. L : IsLast(q, i) /\ q[i].phase = s
  <2>1. PICK i \in 1 .. L : IsLast(q, i) /\ q[i].phase = s BY <1>3
  <2>2. CASE i = 1
    <3>1. k = s BY <1>1, <2>1, <2>2 DEF IsLast
    <3>2. ASSUME NEW j \in 1 .. (L - 1) PROVE r[j].kind # "status"
      <4>1. j + 1 \in (i + 1) .. L /\ r[j] = q[j + 1] BY <1>1, <2>2
      <4> QED BY <4>1, <2>1 DEF IsLast, L
    <3> QED BY <1>1, <3>1, <3>2 DEF LastStatus, r
  <2>3. CASE i # 1
    <3>1. i - 1 \in 1 .. (L - 1) /\ (i - 1) + 1 = i BY <1>1, <2>3
    <3>2. r[i - 1] = q[i] BY <1>1, <3>1
    <3>3. ASSUME NEW j \in ((i - 1) + 1) .. (L - 1) PROVE r[j].kind # "status"
      <4>1. j + 1 \in (i + 1) .. L /\ j \in 1 .. (L - 1) BY <1>1, <3>1
      <4> QED BY <4>1, <1>1, <2>1 DEF IsLast, L
    <3>4. IsLast(r, i - 1) /\ r[i - 1].phase = s BY <1>1, <2>1, <3>2, <3>3 DEF IsLast
    <3> QED BY <1>1, <3>1, <3>4 DEF LastStatus, r
  <2> QED BY <2>2, <2>3
<1> QED BY <1>2, <1>3 DEF LastStatus, L

-----------------------------------------------------------------------------
(* The steps of the observer.                                               *)

LEMMA ObserverBegins == ASSUME Observation!Init PROVE ObserverHeld
<1>1. /\ queue = <<>>
      /\ worker = [at |-> "none", shown |-> 0, phase |-> None, dropped |-> 0, unshown |-> 0]
      /\ owner = [at |-> "new", ready |-> FALSE, error |-> FALSE, dropped |-> 0,
                  status |-> None, recent |-> FALSE, sending |-> None]
      /\ side \in [phase : Phases, offered : {0}]
  BY DEF Observation!Init
<1>2. side.offered = 0 /\ side \in [phase : Phases, offered : Nat] BY <1>1
<1>3. ObserverTyped BY <1>1, <1>2 DEF ObserverTyped
<1>4. Waits(<<>>, 0)
  <2> DEFINE behind == [i \in 0 .. 0 |-> 0]
  <2>1. behind \in [0 .. 0 -> Nat] /\ \A i \in 0 .. 0 : behind[i] = 0 OBVIOUS
  <2>2. Len(<<>>) = 0 /\ 0 \in 0 .. 0 OBVIOUS
  <2>3. \A i \in 1 .. 0 : FALSE OBVIOUS
  <2> HIDE DEF behind
  <2> QED BY <2>1, <2>2, <2>3 DEF Waits
<1>5. side.offered = worker.shown + worker.unshown + owner.dropped + Observation!InHand + 0
  BY <1>1, <1>2 DEF Observation!InHand
<1>6. Losses(queue, worker, owner) BY <1>1 DEF Losses
<1>7. LastStatus(queue, worker.phase, owner.status)
  <2>1. 1 .. Len(queue) = {} BY <1>1
  <2> QED BY <1>1, <2>1 DEF LastStatus
<1>8. worker.unshown = 0 /\ worker.at = "none" /\ owner.at # "closed" BY <1>1
<1> QED BY <1>1, <1>3, <1>4, <1>5, <1>6, <1>7, <1>8 DEF ObserverHeld

\* A step that leaves the queue and every number alone.
LEMMA ObserverIdles ==
    ASSUME ObserverHeld, ObserverTyped', UNCHANGED queue,
           side'.offered = side.offered, owner'.dropped = owner.dropped,
           owner'.status = owner.status, Observation!InHand' = Observation!InHand,
           owner'.at = "sending" => owner.at = "sending" /\ owner'.sending = owner.sending,
           worker'.shown = worker.shown, worker'.unshown = worker.unshown,
           worker'.phase = worker.phase, worker'.dropped = worker.dropped,
           worker'.at # "ended" => worker.at # "ended",
           owner'.at = "new" => worker'.at = "none",
           owner'.at = "closed" => worker'.at \in {"none", "ended"}
    PROVE  ObserverHeld'
<1>1. PICK n \in Nat :
        /\ Waits(queue, n)
        /\ side.offered = worker.shown + worker.unshown + owner.dropped + Observation!InHand + n
  BY DEF ObserverHeld
<1>2. /\ Waits(queue', n)
      /\ side'.offered = worker'.shown + worker'.unshown + owner'.dropped
                            + Observation!InHand' + n
  BY <1>1
<1>3. Losses(queue', worker', owner') BY DEF ObserverHeld, Losses
<1>4. worker'.at # "ended" =>
        worker'.unshown = 0 /\ LastStatus(queue', worker'.phase, owner'.status)
  BY DEF ObserverHeld
<1> QED BY <1>2, <1>3, <1>4 DEF ObserverHeld

LEMMA ObserverQuiet ==
    ASSUME ObserverHeld,
           \/ Observation!WorkerInitialises \/ Observation!WorkerDies
           \/ Observation!Start \/ Observation!StartReturns \/ Observation!CloseStops
           \/ Observation!PhaseChanges \/ Observation!HalfSecondPasses
    PROVE  ObserverHeld'
<1>1. /\ ObserverTyped
      /\ owner.at = "new" => worker.at = "none"
      /\ owner.at = "closed" => worker.at \in {"none", "ended"}
  BY DEF ObserverHeld
<1>2. CASE Observation!WorkerInitialises
  <2>1. /\ UNCHANGED <<owner, side, queue>> /\ worker.at = "starting"
        /\ \/ worker' = [worker EXCEPT !.at = "serving"]
           \/ worker' = [worker EXCEPT !.at = "ended"]
    BY <1>2 DEF Observation!WorkerInitialises, Observation!Worker, Observation!Ended
  <2>2. ObserverTyped' BY <1>1, <2>1 DEF ObserverTyped
  <2>3. /\ worker'.shown = worker.shown /\ worker'.unshown = worker.unshown
        /\ worker'.phase = worker.phase /\ worker'.dropped = worker.dropped
    BY <1>1, <2>1 DEF ObserverTyped
  <2>4. Observation!InHand' = Observation!InHand BY <2>1 DEF Observation!InHand
  <2>5. owner'.at \notin {"new", "closed"} BY <1>1, <2>1
  <2> QED BY <2>1, <2>2, <2>3, <2>4, <2>5, ObserverIdles
<1>3. CASE Observation!WorkerDies
  <2>1. /\ UNCHANGED <<owner, side, queue>> /\ worker' = [worker EXCEPT !.at = "ended"]
    BY <1>3 DEF Observation!WorkerDies, Observation!Worker, Observation!Ended
  <2>2. ObserverTyped' BY <1>1, <2>1 DEF ObserverTyped
  <2>3. /\ worker'.shown = worker.shown /\ worker'.unshown = worker.unshown
        /\ worker'.phase = worker.phase /\ worker'.dropped = worker.dropped
        /\ worker'.at = "ended" /\ owner'.at # "new"
    BY <1>1, <1>3, <2>1 DEF ObserverTyped, Observation!WorkerDies
  <2>4. Observation!InHand' = Observation!InHand BY <2>1 DEF Observation!InHand
  <2> QED BY <2>1, <2>2, <2>3, <2>4, ObserverIdles
<1>4. CASE Observation!Start
  <2>1. /\ UNCHANGED <<queue, side>> /\ owner.at = "new"
        /\ worker' = [worker EXCEPT !.at = "starting"]
        /\ owner' = [owner EXCEPT !.at = "starting"]
    BY <1>4 DEF Observation!Start
  <2>2. /\ owner'.at = "starting" /\ owner'.dropped = owner.dropped
        /\ owner'.status = owner.status
    BY <1>1, <2>1 DEF ObserverTyped
  <2>3. /\ worker'.shown = worker.shown /\ worker'.unshown = worker.unshown
        /\ worker'.phase = worker.phase /\ worker'.dropped = worker.dropped
    BY <1>1, <2>1 DEF ObserverTyped
  <2>4. ObserverTyped' BY <1>1, <2>1, <2>2 DEF ObserverTyped
  <2>5. Observation!InHand' = Observation!InHand BY <2>1, <2>2 DEF Observation!InHand
  <2>6. worker.at = "none" BY <2>1 DEF ObserverHeld
  <2> QED BY <2>1, <2>2, <2>3, <2>4, <2>5, <2>6, ObserverIdles
<1>5. CASE Observation!StartReturns
  <2>1. /\ UNCHANGED <<queue, worker, side>> /\ owner.at = "starting"
        /\ \/ owner' = [owner EXCEPT !.ready = TRUE, !.at = "idle"]
           \/ owner' = [owner EXCEPT !.at = "closing"]
    BY <1>5 DEF Observation!StartReturns
  <2>2. /\ owner'.at \in {"idle", "closing"} /\ owner'.dropped = owner.dropped
        /\ owner'.status = owner.status
    BY <1>1, <2>1 DEF ObserverTyped
  <2>3. ObserverTyped' BY <1>1, <2>1, <2>2 DEF ObserverTyped
  <2>4. Observation!InHand' = Observation!InHand BY <2>1, <2>2 DEF Observation!InHand
  <2> QED BY <2>1, <2>2, <2>3, <2>4, ObserverIdles
<1>6. CASE Observation!CloseStops
  <2>1. /\ UNCHANGED <<queue, side>> /\ owner.at = "closing"
        /\ owner' = [owner EXCEPT !.at = "closed"]
        /\ worker' = IF worker.at = "none" THEN worker ELSE [worker EXCEPT !.at = "ended"]
    BY <1>6 DEF Observation!CloseStops, Observation!Ended
  <2>2. /\ owner'.at = "closed" /\ owner'.dropped = owner.dropped
        /\ owner'.status = owner.status
    BY <1>1, <2>1 DEF ObserverTyped
  <2>3. /\ worker'.shown = worker.shown /\ worker'.unshown = worker.unshown
        /\ worker'.phase = worker.phase /\ worker'.dropped = worker.dropped
        /\ worker'.at \in {"none", "ended"} /\ (worker'.at = "none" => worker.at = "none")
    BY <1>1, <2>1 DEF ObserverTyped
  <2>4. ObserverTyped' BY <1>1, <2>1, <2>2 DEF ObserverTyped
  <2>5. Observation!InHand' = Observation!InHand BY <2>1, <2>2 DEF Observation!InHand
  <2> QED BY <2>1, <2>2, <2>3, <2>4, <2>5, ObserverIdles
<1>7. CASE Observation!PhaseChanges
  <2>1. PICK phase \in Phases : side' = [side EXCEPT !.phase = phase]
    BY <1>7 DEF Observation!PhaseChanges
  <2>2. UNCHANGED <<queue, worker, owner>> BY <1>7 DEF Observation!PhaseChanges
  <2>3. side'.offered = side.offered /\ ObserverTyped'
    BY <1>1, <2>1, <2>2 DEF ObserverTyped
  <2>4. Observation!InHand' = Observation!InHand BY <2>2 DEF Observation!InHand
  <2> QED BY <1>1, <2>2, <2>3, <2>4, ObserverIdles
<1>8. CASE Observation!HalfSecondPasses
  <2>1. UNCHANGED <<queue, worker, side>> /\ owner' = [owner EXCEPT !.recent = FALSE]
    BY <1>8 DEF Observation!HalfSecondPasses
  <2>2. /\ owner'.at = owner.at /\ owner'.dropped = owner.dropped
        /\ owner'.status = owner.status /\ owner'.sending = owner.sending
    BY <1>1, <2>1 DEF ObserverTyped
  <2>3. ObserverTyped' BY <1>1, <2>1, <2>2 DEF ObserverTyped
  <2>4. Observation!InHand' = Observation!InHand BY <2>2 DEF Observation!InHand
  <2> QED BY <1>1, <2>1, <2>2, <2>3, <2>4, ObserverIdles
<1> QED BY <1>2, <1>3, <1>4, <1>5, <1>6, <1>7, <1>8

LEMMA ObserverServes == ASSUME ObserverHeld, Observation!WorkerServes PROVE ObserverHeld'
<1> DEFINE m == Head(queue)
<1>1. ObserverTyped BY DEF ObserverHeld
<1>2. queue # <<>> /\ queue' = Tail(queue) /\ worker.at = "serving" /\ UNCHANGED <<owner, side>>
  BY DEF Observation!WorkerServes, Observation!Worker
<1>3. queue \in Seq(ObserverMessages) BY <1>1 DEF ObserverTyped
<1>4. /\ queue' \in Seq(ObserverMessages) /\ m \in ObserverMessages /\ m = queue[1]
      /\ Len(queue) \in Nat \ {0} /\ Len(queue') = Len(queue) - 1
      /\ \A i \in 1 .. (Len(queue) - 1) : queue'[i] = queue[i + 1]
  BY <1>2, <1>3
<1>5. PICK n \in Nat :
        /\ Waits(queue, n)
        /\ side.offered = worker.shown + worker.unshown + owner.dropped + Observation!InHand + n
  BY DEF ObserverHeld
<1>6. PICK k \in Nat : Waits(queue', k) /\ n = m.records + k
  BY <1>2, <1>3, <1>5, WaitsTaken
<1>7. /\ worker.unshown = 0 /\ LastStatus(queue, worker.phase, owner.status)
      /\ Losses(queue, worker, owner) /\ owner.at \notin {"new", "closed"}
  BY <1>2 DEF ObserverHeld
<1>8. Observation!InHand' = Observation!InHand BY <1>2 DEF Observation!InHand
<1>9. Observation!InHand \in Nat
  BY <1>1 DEF Observation!InHand, ObserverTyped, ObserverMessages
<1>10. /\ worker.shown \in Nat /\ worker.dropped \in Nat /\ worker.phase \in Phases \cup {None}
       /\ owner.dropped \in Nat /\ side.offered \in Nat
  BY <1>1 DEF ObserverTyped
<1>11. /\ m.records \in Nat /\ m.dropped \in Nat /\ m.phase \in Phases \cup {None}
       /\ m.kind # "records" => m.records = 0
       /\ m.kind \in {"records", "status", "stop"}
  BY <1>4 DEF ObserverMessages
<1>12. /\ m.dropped <= owner.dropped /\ worker.dropped <= owner.dropped
       /\ \A i \in 1 .. Len(queue') : queue'[i].dropped <= owner.dropped
       /\ owner.at = "sending" => owner.sending.dropped <= owner.dropped
  <2>1. 1 \in 1 .. Len(queue) BY <1>4
  <2>2. \A i \in 1 .. (Len(queue) - 1) : i + 1 \in 1 .. Len(queue) BY <1>4
  <2> QED BY <2>1, <2>2, <1>4, <1>7 DEF Losses
<1> HIDE DEF m
<1>13. ASSUME m.kind = "records", worker' = [worker EXCEPT !.shown = @ + m.records]
       PROVE  ObserverHeld'
  <2> DEFINE a == worker.shown + m.records
  <2>1. a \in Nat BY <1>10, <1>11
  <2>2. /\ worker'.shown = a /\ worker'.unshown = 0 /\ worker'.phase = worker.phase
        /\ worker'.dropped = worker.dropped /\ worker'.at = "serving"
    BY <1>1, <1>2, <1>7, <1>13 DEF ObserverTyped
  <2>3. ObserverTyped' BY <1>1, <1>2, <1>4, <1>13, <2>1 DEF ObserverTyped
  <2>4. side'.offered = worker'.shown + worker'.unshown + owner'.dropped
                            + Observation!InHand' + k
    <3>1. side.offered = worker.shown + 0 + owner.dropped + Observation!InHand
                            + (m.records + k)
      BY <1>5, <1>6, <1>7
    <3>2. \A a1, d, h, r \in Nat : a1 + 0 + d + h + (r + k) = (a1 + r) + 0 + d + h + k
      OBVIOUS
    <3> QED BY <1>2, <1>8, <1>9, <1>10, <1>11, <2>2, <3>1, <3>2
  <2>5. LastStatus(queue', worker.phase, owner.status)
    BY <1>2, <1>3, <1>7, <1>13, StatusTaken DEF m
  <2>6. Losses(queue', worker', owner') BY <1>2, <1>12, <2>2 DEF Losses
  <2> HIDE DEF a
  <2> QED BY <1>2, <1>6, <1>7, <2>2, <2>3, <2>4, <2>5, <2>6 DEF ObserverHeld
<1>14. ASSUME m.kind = "status",
              worker' = [worker EXCEPT !.phase = m.phase, !.dropped = m.dropped]
       PROVE  ObserverHeld'
  <2>1. /\ worker'.shown = worker.shown /\ worker'.unshown = 0 /\ worker'.phase = m.phase
        /\ worker'.dropped = m.dropped /\ worker'.at = "serving"
    BY <1>1, <1>2, <1>7, <1>14 DEF ObserverTyped
  <2>2. ObserverTyped' BY <1>1, <1>2, <1>4, <1>11, <1>14 DEF ObserverTyped
  <2>3. side'.offered = worker'.shown + worker'.unshown + owner'.dropped
                            + Observation!InHand' + k
    BY <1>2, <1>5, <1>6, <1>7, <1>8, <1>9, <1>10, <1>11, <1>14, <2>1
  <2>4. LastStatus(queue', m.phase, owner.status)
    BY <1>2, <1>3, <1>7, <1>14, StatusTaken DEF m
  <2>5. Losses(queue', worker', owner') BY <1>2, <1>12, <2>1 DEF Losses
  <2> QED BY <1>2, <1>6, <1>7, <2>1, <2>2, <2>3, <2>4, <2>5 DEF ObserverHeld
<1>15. ASSUME NEW lost \in Nat, lost = m.records,
              worker' = [worker EXCEPT !.at = "ended", !.unshown = lost]
       PROVE  ObserverHeld'
  <2>1. /\ worker'.shown = worker.shown /\ worker'.unshown = m.records
        /\ worker'.dropped = worker.dropped /\ worker'.at = "ended"
    BY <1>1, <1>15 DEF ObserverTyped
  <2>2. ObserverTyped' BY <1>1, <1>2, <1>4, <1>15 DEF ObserverTyped
  <2>3. side'.offered = worker'.shown + worker'.unshown + owner'.dropped
                            + Observation!InHand' + k
    <3>1. side.offered = worker.shown + 0 + owner.dropped + Observation!InHand
                            + (m.records + k)
      BY <1>5, <1>6, <1>7
    <3>2. \A a, d, h, r \in Nat : a + 0 + d + h + (r + k) = a + r + d + h + k
      OBVIOUS
    <3> QED BY <1>2, <1>8, <1>9, <1>10, <1>11, <2>1, <3>1, <3>2
  <2>4. Losses(queue', worker', owner') BY <1>2, <1>12, <2>1 DEF Losses
  <2> QED BY <1>2, <1>6, <1>7, <2>1, <2>2, <2>3, <2>4 DEF ObserverHeld
<1>16. \/ m.kind # "stop" /\ worker' = Observation!Shown(m)
       \/ m.kind # "stop" /\ worker' = [worker EXCEPT !.at = "ended", !.unshown = m.records]
       \/ m.kind = "stop" /\ worker' = [worker EXCEPT !.at = "ended"]
  <2>1. \/ m.kind # "stop" /\ worker' = Observation!Shown(m)
        \/ m.kind # "stop" /\ worker' = [Observation!Ended EXCEPT !.unshown = m.records]
        \/ m.kind = "stop" /\ worker' = [worker EXCEPT !.at = "ended"]
    BY DEF Observation!WorkerServes, Observation!Worker, Observation!Ended, m
  <2>2. [Observation!Ended EXCEPT !.unshown = m.records]
            = [worker EXCEPT !.at = "ended", !.unshown = m.records]
    BY DEF Observation!Ended
  <2> QED BY <2>1, <2>2
<1>17. ASSUME m.kind = "stop", worker' = [worker EXCEPT !.at = "ended"]
       PROVE  worker' = [worker EXCEPT !.at = "ended", !.unshown = 0]
  BY <1>1, <1>7, <1>17 DEF ObserverTyped
<1>18. ASSUME m.kind # "stop", worker' = Observation!Shown(m) PROVE ObserverHeld'
  BY <1>11, <1>13, <1>14, <1>18 DEF Observation!Shown
<1> QED BY <1>11, <1>15, <1>16, <1>17, <1>18

\* What a message may be of, and what the record counts become.
LEMMA ObserverLooks ==
    ASSUME ObserverHeld, NEW kind \in {"records", "status", "stop"}, NEW r \in Nat,
           NEW phase \in Phases \cup {None}, kind # "records" => r = 0,
           Observation!Looks(Observation!Message(kind, r, phase)),
           side' = [side EXCEPT !.offered = @ + r]
    PROVE  ObserverHeld'
<1> DEFINE m == Observation!Message(kind, r, phase)
<1>1. ObserverTyped BY DEF ObserverHeld
<1>2. /\ owner.at = "idle" /\ UNCHANGED <<queue, worker>>
      /\ \/ owner' = [owner EXCEPT !.error = TRUE, !.dropped = @ + r,
                                   !.at = IF kind = "stop" THEN "closing" ELSE "idle"]
         \/ owner' = [owner EXCEPT !.at = "sending", !.sending = m]
  BY DEF Observation!Looks, Observation!Message
<1>3. PICK n \in Nat :
        /\ Waits(queue, n)
        /\ side.offered = worker.shown + worker.unshown + owner.dropped + Observation!InHand + n
  BY DEF ObserverHeld
<1>4. Observation!InHand = 0 BY <1>2 DEF Observation!InHand
<1>5. /\ worker.shown \in Nat /\ worker.unshown \in Nat
      /\ owner.dropped \in Nat /\ side.offered \in Nat /\ worker.dropped \in Nat
  BY <1>1 DEF ObserverTyped
<1> DEFINE b == side.offered + r
           d == owner.dropped + r
<1>6. b \in Nat /\ d \in Nat /\ d >= owner.dropped BY <1>5
<1>7. side'.offered = b /\ side' \in [phase : Phases, offered : Nat]
  BY <1>1, <1>6 DEF ObserverTyped
<1>8. m \in ObserverMessages /\ m.records = r /\ m.dropped = owner.dropped
  BY <1>5 DEF Observation!Message, ObserverMessages
<1>9. /\ worker.dropped <= owner.dropped
      /\ \A i \in 1 .. Len(queue) : queue[i].dropped <= owner.dropped
  BY DEF ObserverHeld, Losses
<1>10. \A i \in 1 .. Len(queue) : queue[i].dropped \in Nat
  <2>1. \A i \in 1 .. Len(queue) : queue[i] \in ObserverMessages BY <1>1 DEF ObserverTyped
  <2> QED BY <2>1 DEF ObserverMessages
<1>11. worker.at # "ended" =>
          worker.unshown = 0 /\ LastStatus(queue, worker.phase, owner.status)
  BY DEF ObserverHeld
<1> HIDE DEF b, d, m
<1>12. CASE owner' = [owner EXCEPT !.error = TRUE, !.dropped = d,
                                   !.at = IF kind = "stop" THEN "closing" ELSE "idle"]
  <2>1. /\ owner'.dropped = d /\ owner'.status = owner.status
        /\ owner'.at \in {"closing", "idle"}
    BY <1>1, <1>12 DEF ObserverTyped
  <2>2. ObserverTyped' BY <1>1, <1>2, <1>6, <1>7, <1>12, <2>1 DEF ObserverTyped
  <2>3. Observation!InHand' = 0 BY <2>1 DEF Observation!InHand
  <2>4. side'.offered = worker'.shown + worker'.unshown + owner'.dropped
                            + Observation!InHand' + n
    BY <1>2, <1>3, <1>4, <1>5, <1>7, <2>1, <2>3 DEF b, d
  <2>5. Losses(queue', worker', owner')
    BY <1>2, <1>5, <1>6, <1>9, <1>10, <2>1 DEF Losses
  <2> QED BY <1>2, <1>3, <1>11, <2>1, <2>2, <2>4, <2>5 DEF ObserverHeld
<1>13. CASE owner' = [owner EXCEPT !.at = "sending", !.sending = m]
  <2>1. /\ owner'.dropped = owner.dropped /\ owner'.status = owner.status
        /\ owner'.at = "sending" /\ owner'.sending = m
    BY <1>1, <1>13 DEF ObserverTyped
  <2>2. ObserverTyped' BY <1>1, <1>2, <1>7, <1>8, <1>13, <2>1 DEF ObserverTyped
  <2>3. Observation!InHand' = r BY <1>8, <2>1 DEF Observation!InHand
  <2>4. side'.offered = worker'.shown + worker'.unshown + owner'.dropped
                            + Observation!InHand' + n
    BY <1>2, <1>3, <1>4, <1>5, <1>7, <2>1, <2>3 DEF b
  <2>5. Losses(queue', worker', owner') BY <1>2, <1>5, <1>8, <1>9, <2>1 DEF Losses
  <2> QED BY <1>2, <1>3, <1>11, <2>1, <2>2, <2>4, <2>5 DEF ObserverHeld
<1> QED BY <1>2, <1>12, <1>13 DEF d

LEMMA ObserverSends ==
    ASSUME ObserverHeld, Observation!Records \/ Observation!Status \/ Observation!Close
    PROVE  ObserverHeld'
<1>1. ObserverTyped BY DEF ObserverHeld
<1>2. [side EXCEPT !.offered = @ + 0] = side /\ side.phase \in Phases
  BY <1>1 DEF ObserverTyped
<1>3. CASE Observation!Records
  <2>1. PICK n \in 1..2 : /\ side' = [side EXCEPT !.offered = @ + n]
                          /\ Observation!Looks(Observation!Message("records", n, None))
    BY <1>3 DEF Observation!Records
  <2>2. n \in Nat BY <2>1
  <2> QED BY <2>1, <2>2, ObserverLooks
<1>4. CASE Observation!Status
  <2>1. side' = side /\ Observation!Looks(Observation!Message("status", 0, side.phase))
    BY <1>4 DEF Observation!Status
  <2>2. side' = [side EXCEPT !.offered = @ + 0] BY <1>2, <2>1
  <2> QED BY <1>2, <2>1, <2>2, ObserverLooks
<1>5. CASE Observation!Close
  <2>1. side' = side /\ Observation!Looks(Observation!Message("stop", 0, None))
    BY <1>5 DEF Observation!Close
  <2>2. side' = [side EXCEPT !.offered = @ + 0] BY <1>2, <2>1
  <2> QED BY <2>1, <2>2, ObserverLooks
<1> QED BY <1>3, <1>4, <1>5

LEMMA ObserverPuts == ASSUME ObserverHeld, Observation!Puts PROVE ObserverHeld'
<1> DEFINE m == owner.sending
           end == IF m.kind = "stop" THEN "closing" ELSE "idle"
<1>1. ObserverTyped BY DEF ObserverHeld
<1>2. /\ owner.at = "sending" /\ UNCHANGED <<worker, side>>
      /\ \/ /\ queue' = Append(queue, m)
            /\ owner' = [Observation!Taken(m) EXCEPT !.sending = None, !.at = end]
         \/ /\ queue' = queue
            /\ owner' = [Observation!Refused(m) EXCEPT !.sending = None, !.at = end]
  BY DEF Observation!Puts
<1>3. m \in ObserverMessages BY <1>1, <1>2 DEF ObserverTyped
<1>4. /\ m.records \in Nat /\ m.dropped \in Nat /\ m.phase \in Phases \cup {None}
      /\ m.kind # "records" => m.records = 0
  BY <1>3 DEF ObserverMessages
<1>5. PICK n \in Nat :
        /\ Waits(queue, n)
        /\ side.offered = worker.shown + worker.unshown + owner.dropped + Observation!InHand + n
  BY DEF ObserverHeld
<1>6. Observation!InHand = m.records BY <1>2 DEF Observation!InHand
<1>7. /\ worker.shown \in Nat /\ worker.unshown \in Nat
      /\ owner.dropped \in Nat /\ side.offered \in Nat /\ worker.dropped \in Nat
      /\ queue \in Seq(ObserverMessages) /\ owner.status \in Phases \cup {None}
  BY <1>1 DEF ObserverTyped
<1>8. /\ worker.dropped <= owner.dropped /\ m.dropped <= owner.dropped
      /\ \A i \in 1 .. Len(queue) : queue[i].dropped <= owner.dropped
  BY <1>2 DEF ObserverHeld, Losses
<1>9. worker.at # "ended" =>
          worker.unshown = 0 /\ LastStatus(queue, worker.phase, owner.status)
  BY DEF ObserverHeld
<1>10. end \in {"closing", "idle"} OBVIOUS
<1> HIDE DEF m, end
<1>11. ASSUME queue' = Append(queue, m),
              owner' = [Observation!Taken(m) EXCEPT !.sending = None, !.at = end]
       PROVE  ObserverHeld'
  <2> DEFINE s == IF m.kind = "status" THEN m.phase ELSE owner.status
  <2>1. /\ owner' \in [at : {"closing", "idle"}, ready : BOOLEAN, error : BOOLEAN,
                       dropped : Nat, status : Phases \cup {None}, recent : BOOLEAN,
                       sending : {None}]
        /\ owner'.status = s /\ owner'.dropped = owner.dropped
    BY <1>1, <1>4, <1>10, <1>11 DEF ObserverTyped, Observation!Taken
  <2>2. queue' \in Seq(ObserverMessages) BY <1>3, <1>7, <1>11
  <2>3. owner'.at \in {"closing", "idle"} BY <2>1
  <2>4. ObserverTyped' BY <1>1, <1>2, <2>1, <2>2, <2>3 DEF ObserverTyped
  <2>5. Observation!InHand' = 0 BY <2>3 DEF Observation!InHand
  <2>6. Waits(queue', n + m.records) BY <1>3, <1>5, <1>7, <1>11, WaitsAppended
  <2>7. side'.offered = worker'.shown + worker'.unshown + owner'.dropped
                            + Observation!InHand' + (n + m.records)
    BY <1>2, <1>4, <1>5, <1>6, <1>7, <2>1, <2>5
  <2>8. \A i \in 1 .. Len(queue') : queue'[i].dropped <= owner.dropped
    <3>1. /\ Len(queue') = Len(queue) + 1 /\ queue'[Len(queue) + 1] = m
          /\ \A i \in 1 .. Len(queue) : queue'[i] = queue[i]
      BY <1>7, <1>11
    <3>2. \A i \in 1 .. (Len(queue) + 1) : i \in 1 .. Len(queue) \/ i = Len(queue) + 1
      BY <1>7
    <3> QED BY <3>1, <3>2, <1>8
  <2>9. Losses(queue', worker', owner') BY <1>2, <1>8, <2>1, <2>3, <2>8 DEF Losses
  <2>10. worker.at # "ended" => LastStatus(queue', worker.phase, s)
    BY <1>3, <1>7, <1>9, <1>11, StatusAppended
  <2>11. n + m.records \in Nat BY <1>4
  <2> HIDE DEF s
  <2> QED BY <1>2, <1>9, <2>1, <2>3, <2>4, <2>6, <2>7, <2>9, <2>10, <2>11 DEF ObserverHeld
<1>12. ASSUME queue' = queue,
              owner' = [Observation!Refused(m) EXCEPT !.sending = None, !.at = end]
       PROVE  ObserverHeld'
  <2> DEFINE d == owner.dropped + m.records
  <2>1. d \in Nat /\ d >= owner.dropped BY <1>4, <1>7
  <2>2. owner' = [[owner EXCEPT !.dropped = d] EXCEPT !.sending = None, !.at = end]
    BY <1>12 DEF Observation!Refused
  <2> HIDE DEF d
  <2>3. /\ owner' \in [at : {"closing", "idle"}, ready : BOOLEAN, error : BOOLEAN,
                       dropped : Nat, status : Phases \cup {None}, recent : BOOLEAN,
                       sending : {None}]
        /\ owner'.status = owner.status /\ owner'.dropped = d
    BY <1>1, <1>10, <2>1, <2>2 DEF ObserverTyped
  <2>4. owner'.at \in {"closing", "idle"} BY <2>3
  <2>5. ObserverTyped' BY <1>1, <1>2, <1>12, <2>3, <2>4 DEF ObserverTyped
  <2>6. Observation!InHand' = 0 BY <2>4 DEF Observation!InHand
  <2>7. side'.offered = worker'.shown + worker'.unshown + owner'.dropped
                            + Observation!InHand' + n
    BY <1>2, <1>4, <1>5, <1>6, <1>7, <2>3, <2>6 DEF d
  <2>8. \A i \in 1 .. Len(queue) : queue[i].dropped <= d
    <3>1. \A i \in 1 .. Len(queue) : queue[i].dropped \in Nat
      <4>1. \A i \in 1 .. Len(queue) : queue[i] \in ObserverMessages BY <1>7
      <4> QED BY <4>1 DEF ObserverMessages
    <3> QED BY <3>1, <1>7, <1>8, <2>1
  <2>9. Losses(queue', worker', owner')
    BY <1>2, <1>7, <1>8, <1>12, <2>1, <2>3, <2>4, <2>8 DEF Losses
  <2> QED BY <1>2, <1>5, <1>9, <1>12, <2>3, <2>4, <2>5, <2>7, <2>9 DEF ObserverHeld
<1> QED BY <1>2, <1>11, <1>12

LEMMA ObserverStep ==
    ASSUME ObserverHeld, [Observation!Next]_(Observation!vars) PROVE ObserverHeld'
<1>1. ASSUME UNCHANGED Observation!vars PROVE ObserverHeld'
  <2>1. UNCHANGED <<queue, pipe, worker, owner, side>> BY <1>1 DEF Observation!vars
  <2> QED BY <2>1 DEF ObserverHeld, ObserverTyped, Observation!InHand
<1>2. ASSUME Observation!Next PROVE ObserverHeld'
  BY <1>2, ObserverQuiet, ObserverServes, ObserverSends, ObserverPuts DEF Observation!Next
<1> QED BY <1>1, <1>2

LEMMA HeldAccounts == ASSUME ObserverHeld PROVE Observation!ObserverAccounts
<1> DEFINE L == Len(queue)
<1>1. PICK n \in Nat :
        /\ Waits(queue, n)
        /\ side.offered = worker.shown + worker.unshown + owner.dropped + Observation!InHand + n
  BY DEF ObserverHeld
<1>2. ObserverTyped BY DEF ObserverHeld
<1>3. L \in Nat /\ DOMAIN queue = 1 .. L BY <1>2 DEF ObserverTyped
<1>4. PICK behind \in [0 .. L -> Nat] :
        /\ behind[L] = 0 /\ behind[0] = n
        /\ \A i \in 1 .. L : behind[i - 1] = queue[i].records + behind[i]
        /\ \A i, j \in 0 .. L : i <= j => behind[j] <= behind[i]
  BY <1>1 DEF Waits
<1> HIDE DEF L
<1>5. /\ worker.shown \in Nat /\ worker.unshown \in Nat /\ owner.dropped \in Nat
      /\ Observation!InHand \in Nat /\ side.offered \in Nat
  BY <1>2 DEF ObserverTyped, Observation!InHand, ObserverMessages
<1>6. n <= side.offered BY <1>1, <1>5
<1>7. behind \in [0 .. L -> 0 .. side.offered]
  <2> SUFFICES ASSUME NEW i \in 0 .. L PROVE behind[i] \in 0 .. side.offered
    BY <1>4
  <2>1. 0 \in 0 .. L /\ 0 <= i BY <1>3
  <2>2. behind[i] <= n /\ behind[i] \in Nat BY <1>4, <2>1
  <2> QED BY <1>5, <1>6, <2>2
<1>8. \E b \in [0 .. Len(queue) -> 0 .. side.offered] :
          /\ Observation!Waiting(b)
          /\ side.offered = worker.shown + worker.unshown + owner.dropped
                                + Observation!InHand + b[0]
  BY <1>1, <1>3, <1>4, <1>7 DEF Observation!Waiting, L
<1>9. worker.at = "serving" => owner.status = Observation!Coming
  <2> SUFFICES ASSUME worker.at = "serving" PROVE owner.status = Observation!Coming
    OBVIOUS
  <2>1. LastStatus(queue, worker.phase, owner.status) BY DEF ObserverHeld
  <2> DEFINE S == Observation!Statuses
  <2>2. S = {i \in 1 .. L : queue[i].kind = "status"} BY <1>3 DEF Observation!Statuses
  <2>3. CASE owner.status = worker.phase /\ \A i \in 1 .. L : queue[i].kind # "status"
    <3>1. S = {} BY <2>2, <2>3
    <3> QED BY <2>3, <3>1 DEF Observation!Coming
  <2>4. CASE \E i \in 1 .. L : IsLast(queue, i) /\ queue[i].phase = owner.status
    <3>1. PICK i \in 1 .. L : IsLast(queue, i) /\ queue[i].phase = owner.status BY <2>4
    <3>2. i \in S BY <2>2, <3>1 DEF IsLast
    <3>3. ASSUME NEW j \in S PROVE i >= j
      <4>1. j \in 1 .. L /\ queue[j].kind = "status" BY <2>2
      <4>2. j \notin (i + 1) .. L BY <4>1, <3>1 DEF IsLast, L
      <4> QED BY <4>1, <4>2, <1>3
    <3>4. \A k \in S : (\A j \in S : k >= j) => k = i
      <4>1. \A k \in S : k \in Int BY <2>2
      <4> QED BY <4>1, <3>2, <3>3
    <3>5. Observation!Max(S) = i BY <3>2, <3>3, <3>4 DEF Observation!Max
    <3>6. S # {} BY <3>2
    <3> HIDE DEF S
    <3>7. Observation!Coming = queue[Observation!Max(S)].phase
      BY <3>6 DEF Observation!Coming, S
    <3> QED BY <3>1, <3>5, <3>7
  <2> QED BY <2>1, <2>3, <2>4 DEF LastStatus, L
<1>10. /\ worker.dropped <= owner.dropped
       /\ owner.at = "closed" => worker.at \in {"none", "ended"}
  BY DEF ObserverHeld, Losses
<1> QED BY <1>8, <1>9, <1>10 DEF Observation!ObserverAccounts

(* Every record that was offered is accounted for, the loss shown is never  *)
(* more than the loss there was, and a phase that met a full queue is not   *)
(* taken for sent (ros_observer.py).  For every capacity, every set of      *)
(* phases, and wherever the worker fails or dies.                           *)
THEOREM ObserverAlwaysAccounts == Observation!Spec => []Observation!ObserverAccounts
<1>1. Observation!Init => ObserverHeld BY ObserverBegins
<1>2. ObserverHeld /\ [Observation!Next]_(Observation!vars) => ObserverHeld' BY ObserverStep
<1>3. ObserverHeld => Observation!ObserverAccounts BY HeldAccounts
<1> QED BY <1>1, <1>2, <1>3, PTL DEF Observation!Spec

(* The two consumers that the control side never waits for are exact about  *)
(* what they were offered.                                                  *)
THEOREM ConsumersAreExact == Twins!Spec /\ Observation!Spec => []ConsumersExact
<1>1. Twins!TwinFollows /\ Observation!ObserverAccounts <=> ConsumersExact
  BY DEF ConsumersExact
<1> QED BY <1>1, TwinAlwaysFollows, ObserverAlwaysAccounts, PTL
=============================================================================
