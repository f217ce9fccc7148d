-------------------------- MODULE CameraRig_proofs --------------------------
(***************************************************************************)
(* For every number of cameras, slots and frames: the processes of the rig *)
(* use each ring as SharedSlots says (RingsImplementSlots), a frame leaves *)
(* a ring with its own images and in the order it was packed, a worker     *)
(* that has a slot finds room in the queue, and a camera process that      *)
(* ended before a read ends that read (LostCameraSurfaces, CamerasNamed);  *)
(* a batch's report is true at every moment (BatchTruthful); and every     *)
(* wrist frame is decided once, from all that was pushed (DecisionsExact). *)
(*                                                                         *)
(* A ring: the tickets between the two indices are at most Capacity (the   *)
(* semaphore counts the rest), so they lie in different slots; every       *)
(* packed ticket keeps its images in its slot until the reader has         *)
(* released it.  The rig: each of its steps uses the ring of one camera.   *)
(*                                                                         *)
(* A batch: what is committed is what is listed, and at most the episode   *)
(* under way; the report on disk is at most one append behind the list.    *)
(*                                                                         *)
(* The matcher: what the buffers have lost is too old for every anchor     *)
(* that waits or comes, what they have came in time for those that wait,   *)
(* and between two operations no anchor is due.  A drain is a run of       *)
(* decisions; each keeps this and is exact, by induction on their number.  *)
(***************************************************************************)
EXTENDS CameraOnly, SequenceTheorems, WellFoundedInduction, TLAPS

Copy == Nat \cup {Nothing}
End == [step : {"idle", "rgb", "depth", "put", "copied"}, ticket : Nat,
        rgb : Copy, depth : Copy]
Memories == [0..(Capacity - 1) -> [rgb : Copy, depth : Copy]]

RingType ==
    [write : Nat, read : Nat, free : Nat, queue : Seq(Nat),
     memory : Memories, producer : End, consumer : End]

Packing(ring) == IF ring.producer.step = "idle" THEN 0 ELSE 1
Unpacking(ring) == IF ring.consumer.step = "idle" THEN 0 ELSE 1

(* Every slot that is not free holds one ticket of read..write-1.           *)
Accounting(ring) ==
    /\ ring.free + ring.write = ring.read + Capacity
    /\ ring.write = ring.read + Unpacking(ring) + Len(ring.queue) + Packing(ring)
    /\ ring.producer.step # "idle" => ring.producer.ticket = ring.write - 1
    /\ ring.consumer.step # "idle" => ring.consumer.ticket = ring.read
    /\ \A i \in 1..Len(ring.queue) : ring.queue[i] = ring.read + Unpacking(ring) + i - 1
    /\ ring.producer.step # "copied" /\ ring.consumer.step # "put"

(* The images of a ticket are in its slot from pack to release.             *)
Stored(ring) ==
    /\ \A t \in ring.read..(ring.write - Packing(ring) - 1) :
          /\ ring.memory[SlotOf(t)].rgb = t
          /\ ring.memory[SlotOf(t)].depth = t
    /\ ring.producer.step \in {"depth", "put"} =>
          ring.memory[SlotOf(ring.producer.ticket)].rgb = ring.producer.ticket
    /\ ring.producer.step = "put" =>
          ring.memory[SlotOf(ring.producer.ticket)].depth = ring.producer.ticket

Copied(ring) ==
    /\ ring.consumer.step \in {"depth", "copied"} => ring.consumer.rgb = ring.consumer.ticket
    /\ ring.consumer.step = "copied" => ring.consumer.depth = ring.consumer.ticket

RingInv(ring) == ring \in RingType /\ Accounting(ring) /\ Stored(ring) /\ Copied(ring)

-----------------------------------------------------------------------------
(* Tickets less than Capacity apart lie in different slots.                 *)
LEMMA DifferentSlots ==
    ASSUME NEW a \in Nat, NEW b \in Nat, a < b, b < a + Capacity
    PROVE  SlotOf(a) # SlotOf(b)
<1>1. Capacity \in Nat /\ Capacity > 0
  BY CapacityAssumption
<1>2. PICK p \in Int, q \in Int :
        a = Capacity * p + (a % Capacity) /\ b = Capacity * q + (b % Capacity)
  <2>1. a = Capacity * (a \div Capacity) + (a % Capacity)
    BY <1>1, SMT
  <2>2. b = Capacity * (b \div Capacity) + (b % Capacity)
    BY <1>1, SMT
  <2>3. a \div Capacity \in Int /\ b \div Capacity \in Int
    BY <1>1, SMT
  <2> QED BY <2>1, <2>2, <2>3
<1>3. ASSUME a % Capacity = b % Capacity
      PROVE  FALSE
  <2>1. b - a = Capacity * (q - p)
    BY <1>1, <1>2, <1>3, SMT
  <2>2. CASE q - p <= 0
    BY <1>1, <2>1, <2>2, SMT
  <2>3. CASE q - p >= 1
    BY <1>1, <2>1, <2>3, SMT
  <2> QED BY <2>2, <2>3, SMT
<1> QED BY <1>3 DEF SlotOf

LEMMA SlotInMemory ==
    ASSUME NEW t \in Nat
    PROVE  SlotOf(t) \in 0..(Capacity - 1)
BY CapacityAssumption, SMT DEF SlotOf

\* An end that goes on.
LEMMA EndGoesOn ==
    ASSUME NEW e \in End, NEW t \in Nat
    PROVE  /\ [e EXCEPT !.step = "depth"] \in End
           /\ [e EXCEPT !.step = "put"] \in End
           /\ [e EXCEPT !.rgb = t, !.step = "depth"] \in End
           /\ [e EXCEPT !.depth = t, !.step = "copied"] \in End
BY DEF End, Copy

LEMMA IdleIsEnd == Idle \in End
BY DEF Idle, End, Copy

-----------------------------------------------------------------------------
(* Every operation on a ring keeps its invariant.                           *)

Fields(ring) ==
    /\ Capacity \in Nat /\ ring.write \in Nat /\ ring.read \in Nat /\ ring.free \in Nat
    /\ ring.queue \in Seq(Nat) /\ Len(ring.queue) \in Nat
    /\ ring.memory \in Memories /\ ring.producer \in End /\ ring.consumer \in End
    /\ ring.producer.ticket \in Nat /\ ring.consumer.ticket \in Nat

LEMMA Numbers ==
    ASSUME NEW ring \in RingType
    PROVE  Fields(ring)
BY CapacityAssumption DEF RingType, End, Fields

LEMMA NewRingHolds ==
    ASSUME NEW ring, ring = NewRing
    PROVE  RingInv(ring)
<1>1. ring = NewRing /\ Capacity \in Nat
  BY CapacityAssumption
<1>2. ring \in RingType
  BY <1>1, IdleIsEnd DEF NewRing, RingType, Memories, Copy
<1>3. Accounting(ring)
  BY <1>1, SMT DEF NewRing, Idle, Accounting, Packing, Unpacking
<1>4. Stored(ring)
  BY <1>1, SMT DEF NewRing, Idle, Stored, Packing
<1>5. Copied(ring)
  BY <1>1 DEF NewRing, Idle, Copied
<1> QED BY <1>2, <1>3, <1>4, <1>5 DEF RingInv

LEMMA ReservesHolds ==
    ASSUME NEW ring, NEW next, RingInv(ring), CanReserve(ring), next = Reserve(ring)
    PROVE  RingInv(next)
<1>0. /\ ring \in RingType /\ Accounting(ring) /\ Stored(ring) /\ Copied(ring)
      /\ Fields(ring)
  BY Numbers DEF RingInv
<1>1. next = Reserve(ring) /\ ring.producer.step = "idle" /\ ring.free > 0
  BY DEF CanReserve
<1>2. /\ next.free = ring.free - 1 /\ next.write = ring.write + 1
      /\ next.read = ring.read /\ next.queue = ring.queue
      /\ next.memory = ring.memory /\ next.consumer = ring.consumer
      /\ next.producer.step = "rgb" /\ next.producer.ticket = ring.write
  <2>1. next.producer = [Idle EXCEPT !.step = "rgb", !.ticket = ring.write]
    BY <1>0, <1>1 DEF Reserve, RingType
  <2>2. next.producer.step = "rgb" /\ next.producer.ticket = ring.write
    BY <2>1 DEF Idle
  <2>3. /\ next.free = ring.free - 1 /\ next.write = ring.write + 1
        /\ next.read = ring.read /\ next.queue = ring.queue
        /\ next.memory = ring.memory /\ next.consumer = ring.consumer
    BY <1>0, <1>1 DEF Reserve, RingType
  <2> QED BY <2>2, <2>3
<1>3. next \in RingType
  <2>1. ring.free - 1 \in Nat /\ ring.write + 1 \in Nat
    BY <1>0, <1>1 DEF Fields
  <2>2. [Idle EXCEPT !.step = "rgb", !.ticket = ring.write] \in End
    BY <1>0 DEF Idle, End, Copy, Fields
  <2> QED BY <1>0, <1>1, <2>1, <2>2 DEF Reserve, RingType
<1>4. Accounting(next)
  <2>1. /\ ring.write = ring.read + Unpacking(ring) + Len(ring.queue)
        /\ Packing(next) = 1 /\ Unpacking(next) = Unpacking(ring) /\ Unpacking(ring) \in Nat
    BY <1>0, <1>1, <1>2 DEF Accounting, Packing, Unpacking, Fields
  <2>2. next.write - 1 = ring.write /\ next.free + next.write = ring.free + ring.write
    <3> DEFINE w == ring.write
               f == ring.free
    <3>1. w \in Int /\ f \in Int
      BY <1>0 DEF Fields
    <3>2. (w + 1) - 1 = w /\ (f - 1) + (w + 1) = f + w
      <4> HIDE DEF w, f
      <4> QED BY <3>1
    <3> QED BY <1>2, <3>2
  <2> QED BY <1>0, <1>1, <1>2, <2>1, <2>2 DEF Accounting, Fields
<1>5. Stored(next)
  BY <1>0, <1>1, <1>2, SMT DEF Stored, RingType, Packing
<1>6. Copied(next)
  BY <1>0, <1>2 DEF Copied
<1> QED BY <1>3, <1>4, <1>5, <1>6 DEF RingInv

LEMMA PacksRgbHolds ==
    ASSUME NEW ring, NEW next, RingInv(ring), ring.producer.step = "rgb", next = PackRgb(ring)
    PROVE  RingInv(next)
<1>0. /\ ring \in RingType /\ Accounting(ring) /\ Stored(ring) /\ Copied(ring)
      /\ Fields(ring)
  BY Numbers DEF RingInv
<1> DEFINE t == ring.producer.ticket
<1>1. next = PackRgb(ring) /\ ring.producer.step = "rgb"
  OBVIOUS
<1>2. t \in Nat /\ SlotOf(t) \in 0..(Capacity - 1)
  BY <1>0, SlotInMemory DEF RingType, End
<1>3. /\ next.free = ring.free /\ next.write = ring.write
      /\ next.read = ring.read /\ next.queue = ring.queue
      /\ next.consumer = ring.consumer
      /\ next.memory = [ring.memory EXCEPT ![SlotOf(t)].rgb = t]
      /\ next.producer = [ring.producer EXCEPT !.step = "depth"]
  BY <1>0, <1>1 DEF PackRgb, RingType
<1>3a. ring.memory \in Memories /\ next.memory[SlotOf(t)] =
        [ring.memory[SlotOf(t)] EXCEPT !.rgb = t]
  BY <1>0, <1>2, <1>3 DEF Fields, Memories
<1>4. next.producer.step = "depth" /\ next.producer.ticket = t
  BY <1>0, <1>3 DEF RingType, End
<1>5. next \in RingType
  <2>1. next.memory \in Memories
    <3> DEFINE slot == [ring.memory[SlotOf(t)] EXCEPT !.rgb = t]
    <3>1. slot \in [rgb : Copy, depth : Copy]
      BY <1>2, <1>3a DEF Memories, Copy
    <3>2. next.memory = [ring.memory EXCEPT ![SlotOf(t)] = slot]
      BY <1>3
    <3> QED BY <1>2, <1>3a, <3>1, <3>2 DEF Memories
  <2>2. next.producer \in End
    BY <1>0, <1>2, <1>3, EndGoesOn DEF Fields
  <2> QED BY <1>0, <1>1, <2>1, <2>2 DEF PackRgb, RingType
<1>6. Accounting(next)
  BY <1>0, <1>1, <1>3, <1>4, SMT DEF Accounting, RingType, Packing, Unpacking
<1>7. Stored(next)
  <2>1. next.memory[SlotOf(t)].rgb = t
    BY <1>2, <1>3a DEF Memories
  <2>2. ASSUME NEW u \in ring.read..(ring.write - 2)
        PROVE  next.memory[SlotOf(u)] = ring.memory[SlotOf(u)]
    <3>1. u \in Nat /\ u < t /\ t < u + Capacity
      <4>1. t = ring.write - 1 /\ ring.free + ring.write = ring.read + Capacity
        BY <1>0, <1>1 DEF Accounting
      <4>2. /\ ring.read \in Nat /\ ring.write \in Nat /\ ring.free \in Nat /\ Capacity \in Nat
        BY <1>0 DEF Fields
      <4>3. u \in Nat /\ ring.read <= u /\ u <= ring.write - 2
        BY <2>2, <4>2
      <4> QED BY <4>1, <4>2, <4>3
    <3>2. SlotOf(u) # SlotOf(t)
      BY <1>2, <3>1, DifferentSlots
    <3> QED BY <1>0, <1>2, <1>3, <3>1, <3>2, SlotInMemory DEF Memories, Fields
  <2>3. /\ Packing(ring) = 1 /\ Packing(next) = 1
        /\ \A u \in ring.read..(ring.write - 2) :
              ring.memory[SlotOf(u)].rgb = u /\ ring.memory[SlotOf(u)].depth = u
    BY <1>0, <1>1, <1>4, SMT DEF Stored, Packing, Fields
  <2>4. ASSUME NEW u \in next.read..(next.write - Packing(next) - 1)
        PROVE  next.memory[SlotOf(u)].rgb = u /\ next.memory[SlotOf(u)].depth = u
    <3>1. u \in ring.read..(ring.write - 2)
      BY <1>0, <1>3, <2>3, <2>4, SMT DEF Fields
    <3> QED BY <2>2, <2>3, <3>1
  <2> QED BY <1>0, <1>4, <2>1, <2>4 DEF Stored
<1>8. Copied(next)
  BY <1>0, <1>3 DEF Copied
<1> QED BY <1>5, <1>6, <1>7, <1>8 DEF RingInv

LEMMA PacksDepthHolds ==
    ASSUME NEW ring, NEW next, RingInv(ring), ring.producer.step = "depth", next = PackDepth(ring)
    PROVE  RingInv(next)
<1>0. /\ ring \in RingType /\ Accounting(ring) /\ Stored(ring) /\ Copied(ring)
      /\ Fields(ring)
  BY Numbers DEF RingInv
<1> DEFINE t == ring.producer.ticket
<1>1. next = PackDepth(ring) /\ ring.producer.step = "depth"
  OBVIOUS
<1>2. t \in Nat /\ SlotOf(t) \in 0..(Capacity - 1)
  BY <1>0, SlotInMemory DEF RingType, End
<1>3. /\ next.free = ring.free /\ next.write = ring.write
      /\ next.read = ring.read /\ next.queue = ring.queue
      /\ next.consumer = ring.consumer
      /\ next.memory = [ring.memory EXCEPT ![SlotOf(t)].depth = t]
      /\ next.producer = [ring.producer EXCEPT !.step = "put"]
  BY <1>0, <1>1 DEF PackDepth, RingType
<1>3a. ring.memory \in Memories /\ next.memory[SlotOf(t)] =
        [ring.memory[SlotOf(t)] EXCEPT !.depth = t]
  BY <1>0, <1>2, <1>3 DEF Fields, Memories
<1>4. next.producer.step = "put" /\ next.producer.ticket = t
  BY <1>0, <1>3 DEF RingType, End
<1>5. next \in RingType
  <2>1. next.memory \in Memories
    <3> DEFINE slot == [ring.memory[SlotOf(t)] EXCEPT !.depth = t]
    <3>1. slot \in [rgb : Copy, depth : Copy]
      BY <1>2, <1>3a DEF Memories, Copy
    <3>2. next.memory = [ring.memory EXCEPT ![SlotOf(t)] = slot]
      BY <1>3
    <3> QED BY <1>2, <1>3a, <3>1, <3>2 DEF Memories
  <2>2. next.producer \in End
    BY <1>0, <1>2, <1>3, EndGoesOn DEF Fields
  <2> QED BY <1>0, <1>1, <2>1, <2>2 DEF PackDepth, RingType
<1>6. Accounting(next)
  BY <1>0, <1>1, <1>3, <1>4, SMT DEF Accounting, RingType, Packing, Unpacking
<1>7. Stored(next)
  <2>1. /\ next.memory[SlotOf(t)].depth = t
        /\ next.memory[SlotOf(t)].rgb = t
    <3>1. ring.memory[SlotOf(t)].rgb = t
      BY <1>0, <1>1 DEF Stored
    <3>2. next.memory[SlotOf(t)].depth = t
      BY <1>2, <1>3a DEF Memories
    <3>3. next.memory[SlotOf(t)].rgb = ring.memory[SlotOf(t)].rgb
      BY <1>2, <1>3a DEF Memories
    <3> QED BY <3>1, <3>2, <3>3
  <2>2. ASSUME NEW u \in ring.read..(ring.write - 2)
        PROVE  next.memory[SlotOf(u)] = ring.memory[SlotOf(u)]
    <3>1. u \in Nat /\ u < t /\ t < u + Capacity
      <4>1. t = ring.write - 1 /\ ring.free + ring.write = ring.read + Capacity
        BY <1>0, <1>1 DEF Accounting
      <4>2. /\ ring.read \in Nat /\ ring.write \in Nat /\ ring.free \in Nat /\ Capacity \in Nat
        BY <1>0 DEF Fields
      <4>3. u \in Nat /\ ring.read <= u /\ u <= ring.write - 2
        BY <2>2, <4>2
      <4> QED BY <4>1, <4>2, <4>3
    <3>2. SlotOf(u) # SlotOf(t)
      BY <1>2, <3>1, DifferentSlots
    <3> QED BY <1>0, <1>2, <1>3, <3>1, <3>2, SlotInMemory DEF Memories, Fields
  <2>3. /\ Packing(ring) = 1 /\ Packing(next) = 1
        /\ \A u \in ring.read..(ring.write - 2) :
              ring.memory[SlotOf(u)].rgb = u /\ ring.memory[SlotOf(u)].depth = u
    BY <1>0, <1>1, <1>4, SMT DEF Stored, Packing, Fields
  <2>4. ASSUME NEW u \in next.read..(next.write - Packing(next) - 1)
        PROVE  next.memory[SlotOf(u)].rgb = u /\ next.memory[SlotOf(u)].depth = u
    <3>1. u \in ring.read..(ring.write - 2)
      BY <1>0, <1>3, <2>3, <2>4, SMT DEF Fields
    <3> QED BY <2>2, <2>3, <3>1
  <2> QED BY <1>0, <1>4, <2>1, <2>4 DEF Stored
<1>8. Copied(next)
  BY <1>0, <1>3 DEF Copied
<1> QED BY <1>5, <1>6, <1>7, <1>8 DEF RingInv

LEMMA PutsHolds ==
    ASSUME NEW ring, NEW next, RingInv(ring), CanPut(ring), next = Put(ring)
    PROVE  RingInv(next)
<1>0. /\ ring \in RingType /\ Accounting(ring) /\ Stored(ring) /\ Copied(ring)
      /\ Fields(ring)
  BY Numbers DEF RingInv
<1> DEFINE t == ring.producer.ticket
<1>1. next = Put(ring) /\ ring.producer.step = "put"
  BY DEF CanPut
<1>2. /\ next.free = ring.free /\ next.write = ring.write
      /\ next.read = ring.read /\ next.queue = Append(ring.queue, t)
      /\ next.memory = ring.memory /\ next.consumer = ring.consumer
      /\ next.producer.step = "idle"
  BY <1>0, <1>1 DEF Put, RingType, Idle
<1>3. t \in Nat /\ ring.queue \in Seq(Nat) /\ ring.consumer \in End
  BY <1>0 DEF RingType, End
<1>4. next \in RingType
  <2>1. Append(ring.queue, t) \in Seq(Nat)
    BY <1>3
  <2> QED BY <1>0, <1>1, <2>1, IdleIsEnd DEF Put, RingType
<1>5. Accounting(next)
  <2>1. Len(next.queue) = Len(ring.queue) + 1
    BY <1>2, <1>3
  <2>2. ASSUME NEW i \in 1..Len(next.queue)
        PROVE  next.queue[i] = ring.read + Unpacking(ring) + i - 1
    <3>1. CASE i = Len(ring.queue) + 1
      <4>1. next.queue[i] = t
        BY <1>2, <1>3, <3>1
      <4> QED BY <1>0, <1>1, <1>3, <3>1, <4>1, SMT DEF Accounting, RingType, Packing, Unpacking
    <3>2. CASE i \in 1..Len(ring.queue)
      BY <1>0, <1>2, <1>3, <3>2 DEF Accounting
    <3> QED BY <2>1, <3>1, <3>2, <1>3
  <2>3. /\ ring.write = ring.read + Unpacking(ring) + Len(ring.queue) + 1
        /\ Packing(next) = 0 /\ Unpacking(next) = Unpacking(ring) /\ Unpacking(ring) \in Nat
    BY <1>0, <1>1, <1>2 DEF Accounting, Packing, Unpacking
  <2>4. next.write = next.read + Unpacking(next) + Len(next.queue) + Packing(next)
    <3> DEFINE u == Unpacking(ring)
               n == Len(ring.queue)
               r == ring.read
    <3>1. n \in Int /\ u \in Int /\ r \in Int
      BY <1>0, <2>3 DEF Fields
    <3>2. r + u + n + 1 = r + u + (n + 1) + 0
      <4> HIDE DEF u, n, r
      <4> QED BY <3>1
    <3> QED BY <1>2, <2>1, <2>3, <3>2
  <2> QED BY <1>0, <1>2, <2>2, <2>3, <2>4 DEF Accounting
<1>6. Stored(next)
  <2>1. /\ ring.memory[SlotOf(t)].rgb = t
        /\ ring.memory[SlotOf(t)].depth = t
        /\ t = ring.write - 1
    BY <1>0, <1>1 DEF Stored, Accounting
  <2>2. \A u \in ring.read..(ring.write - 2) :
            ring.memory[SlotOf(u)].rgb = u /\ ring.memory[SlotOf(u)].depth = u
    BY <1>0, <1>1, SMT DEF Stored, Packing, Fields
  <2>3. \A u \in ring.read..(ring.write - 1) : u = t \/ u \in ring.read..(ring.write - 2)
    BY <1>0, <2>1 DEF RingType
  <2>4. \A u \in ring.read..(ring.write - 1) :
            ring.memory[SlotOf(u)].rgb = u /\ ring.memory[SlotOf(u)].depth = u
    BY <2>1, <2>2, <2>3
  <2> QED BY <1>0, <1>2, <2>4 DEF Stored, Packing, RingType
<1>7. Copied(next)
  BY <1>0, <1>2 DEF Copied
<1> QED BY <1>4, <1>5, <1>6, <1>7 DEF RingInv

LEMMA TakesHolds ==
    ASSUME NEW ring, NEW next, RingInv(ring), CanTake(ring), next = Take(ring)
    PROVE  RingInv(next)
<1>0. /\ ring \in RingType /\ Accounting(ring) /\ Stored(ring) /\ Copied(ring)
      /\ Fields(ring)
  BY Numbers DEF RingInv
<1>1. /\ next = Take(ring) /\ ring.consumer.step = "idle"
      /\ ring.queue # <<>> /\ Head(ring.queue) = ring.read
  BY DEF CanTake
<1>2. /\ next.free = ring.free /\ next.write = ring.write
      /\ next.read = ring.read /\ next.queue = Tail(ring.queue)
      /\ next.memory = ring.memory /\ next.producer = ring.producer
      /\ next.consumer.step = "rgb" /\ next.consumer.ticket = ring.read
  BY <1>0, <1>1 DEF Take, RingType, Idle
<1>3. ring.queue \in Seq(Nat)
  BY <1>0 DEF RingType
<1>4. next \in RingType
  <2>1. next.consumer \in End
    <3>1. next.consumer = [Idle EXCEPT !.step = "rgb", !.ticket = ring.read]
      BY <1>0, <1>1 DEF Take, RingType
    <3> QED BY <1>0, <3>1 DEF Fields, Idle, End, Copy
  <2>2. next.queue \in Seq(Nat)
    BY <1>1, <1>2, <1>3
  <2> QED BY <1>0, <1>1, <2>1, <2>2 DEF Take, RingType
<1>5. Accounting(next)
  <2>1. Len(next.queue) = Len(ring.queue) - 1 /\ Len(ring.queue) > 0
    BY <1>1, <1>2, <1>3
  <2>2. \A i \in 1..Len(next.queue) : next.queue[i] = ring.queue[i + 1]
    BY <1>1, <1>2, <1>3
  <2>3. /\ Unpacking(ring) = 0 /\ Unpacking(next) = 1 /\ Packing(next) = Packing(ring)
        /\ Packing(ring) \in Nat
    BY <1>1, <1>2 DEF Packing, Unpacking
  <2>4. next.write = next.read + Unpacking(next) + Len(next.queue) + Packing(next)
    <3> DEFINE p == Packing(ring)
               n == Len(ring.queue)
               r == ring.read
    <3>1. n \in Int /\ p \in Int /\ r \in Int
      BY <1>0, <2>3 DEF Fields
    <3>2. r + 0 + n + p = r + 1 + (n - 1) + p
      <4> HIDE DEF p, n, r
      <4> QED BY <3>1
    <3>3. ring.write = r + 0 + n + p
      BY <1>0, <2>3 DEF Accounting
    <3> QED BY <1>2, <2>1, <2>3, <3>2, <3>3
  <2>5. ASSUME NEW i \in 1..Len(next.queue)
        PROVE  next.queue[i] = next.read + Unpacking(next) + i - 1
    <3>1. i \in Nat /\ i + 1 \in 1..Len(ring.queue)
      BY <1>0, <2>1 DEF Fields
    <3>2. ring.queue[i + 1] = ring.read + 0 + (i + 1) - 1
      BY <1>0, <2>3, <3>1 DEF Accounting
    <3>3. ring.read + 0 + (i + 1) - 1 = ring.read + 1 + i - 1
      BY <1>0, <3>1 DEF Fields
    <3> QED BY <1>2, <2>2, <2>3, <3>2, <3>3
  <2> QED BY <1>0, <1>2, <2>3, <2>4, <2>5 DEF Accounting
<1>6. Stored(next)
  BY <1>0, <1>2 DEF Stored, Packing
<1>7. Copied(next)
  BY <1>0, <1>2 DEF Copied
<1> QED BY <1>4, <1>5, <1>6, <1>7 DEF RingInv

(* The ticket being unpacked is stored, whole.                              *)
LEMMA UnpackedStored ==
    ASSUME NEW ring, RingInv(ring), ring.consumer.step # "idle"
    PROVE  /\ ring.consumer.ticket \in Nat
           /\ ring.memory[SlotOf(ring.consumer.ticket)].rgb = ring.consumer.ticket
           /\ ring.memory[SlotOf(ring.consumer.ticket)].depth = ring.consumer.ticket
<1>1. ring.consumer.ticket = ring.read /\ ring.read \in Nat
  BY DEF RingInv, Accounting, RingType
<1>2. ring.read \in ring.read..(ring.write - Packing(ring) - 1)
  BY DEF RingInv, Accounting, RingType, Packing, Unpacking
<1> QED BY <1>1, <1>2 DEF RingInv, Stored, RingInv

LEMMA UnpacksRgbHolds ==
    ASSUME NEW ring, NEW next, RingInv(ring), ring.consumer.step = "rgb", next = UnpackRgb(ring)
    PROVE  RingInv(next)
<1>0. /\ ring \in RingType /\ Accounting(ring) /\ Stored(ring) /\ Copied(ring)
      /\ Fields(ring)
  BY Numbers DEF RingInv
<1>1. next = UnpackRgb(ring) /\ ring.consumer.step = "rgb"
  OBVIOUS
<1>2. /\ ring.consumer.ticket \in Nat
      /\ ring.memory[SlotOf(ring.consumer.ticket)].rgb = ring.consumer.ticket
  BY <1>1, UnpackedStored
<1>3. /\ next.free = ring.free /\ next.write = ring.write
      /\ next.read = ring.read /\ next.queue = ring.queue
      /\ next.memory = ring.memory /\ next.producer = ring.producer
      /\ next.consumer = [ring.consumer EXCEPT !.rgb = ring.consumer.ticket, !.step = "depth"]
  BY <1>0, <1>1, <1>2 DEF UnpackRgb, RingType, End, Fields
<1>4. /\ next.consumer.step = "depth" /\ next.consumer.ticket = ring.consumer.ticket
      /\ next.consumer.rgb = ring.consumer.ticket
  BY <1>0, <1>3 DEF End, Fields
<1>5. next \in RingType
  <2>1. next.consumer \in End
    BY <1>0, <1>2, <1>3 DEF End, Copy, Fields
  <2> QED BY <1>0, <1>1, <2>1 DEF UnpackRgb, RingType
<1>6. Accounting(next)
  BY <1>0, <1>1, <1>3, <1>4 DEF Accounting, Packing, Unpacking
<1>7. Stored(next)
  BY <1>0, <1>3, <1>4 DEF Stored, Packing
<1>8. Copied(next)
  BY <1>0, <1>3, <1>4 DEF Copied
<1> QED BY <1>5, <1>6, <1>7, <1>8 DEF RingInv

LEMMA UnpacksDepthHolds ==
    ASSUME NEW ring, NEW next, RingInv(ring), ring.consumer.step = "depth", next = UnpackDepth(ring)
    PROVE  RingInv(next)
<1>0. /\ ring \in RingType /\ Accounting(ring) /\ Stored(ring) /\ Copied(ring)
      /\ Fields(ring)
  BY Numbers DEF RingInv
<1>1. next = UnpackDepth(ring) /\ ring.consumer.step = "depth"
  OBVIOUS
<1>2. /\ ring.consumer.ticket \in Nat
      /\ ring.memory[SlotOf(ring.consumer.ticket)].depth = ring.consumer.ticket
  BY <1>1, UnpackedStored
<1>3. /\ next.free = ring.free /\ next.write = ring.write
      /\ next.read = ring.read /\ next.queue = ring.queue
      /\ next.memory = ring.memory /\ next.producer = ring.producer
      /\ next.consumer = [ring.consumer EXCEPT !.depth = ring.consumer.ticket, !.step = "copied"]
  BY <1>0, <1>1, <1>2 DEF UnpackDepth, RingType, End, Fields
<1>4. /\ next.consumer.step = "copied" /\ next.consumer.ticket = ring.consumer.ticket
      /\ next.consumer.rgb = ring.consumer.rgb
      /\ next.consumer.depth = ring.consumer.ticket
  BY <1>0, <1>3 DEF End, Fields
<1>5. next \in RingType
  <2>1. next.consumer \in End
    BY <1>0, <1>2, <1>3 DEF End, Copy, Fields
  <2> QED BY <1>0, <1>1, <2>1 DEF UnpackDepth, RingType
<1>6. Accounting(next)
  BY <1>0, <1>1, <1>3, <1>4 DEF Accounting, Packing, Unpacking
<1>7. Stored(next)
  BY <1>0, <1>3, <1>4 DEF Stored, Packing
<1>8. Copied(next)
  BY <1>0, <1>1, <1>3, <1>4 DEF Copied
<1> QED BY <1>5, <1>6, <1>7, <1>8 DEF RingInv

LEMMA ReleasesHolds ==
    ASSUME NEW ring, NEW next, RingInv(ring), ring.consumer.step = "copied", next = Release(ring)
    PROVE  RingInv(next)
<1>0. /\ ring \in RingType /\ Accounting(ring) /\ Stored(ring) /\ Copied(ring)
      /\ Fields(ring)
  BY Numbers DEF RingInv
<1>1. next = Release(ring) /\ ring.consumer.step = "copied"
  OBVIOUS
<1>2. /\ next.free = ring.free + 1 /\ next.write = ring.write
      /\ next.read = ring.read + 1 /\ next.queue = ring.queue
      /\ next.memory = ring.memory /\ next.producer = ring.producer
      /\ next.consumer.step = "idle"
  BY <1>0, <1>1 DEF Release, RingType, Idle
<1>3. next \in RingType
  <2>1. ring.free + 1 \in Nat /\ ring.read + 1 \in Nat
    BY <1>0 DEF Fields
  <2> QED BY <1>0, <1>1, <2>1, IdleIsEnd DEF Release, RingType
<1>4. Accounting(next)
  <2>1. Unpacking(ring) = 1 /\ Unpacking(next) = 0 /\ Packing(next) = Packing(ring)
    BY <1>1, <1>2 DEF Packing, Unpacking
  <2>2. /\ ring.free + ring.write = ring.read + Capacity
        /\ ring.write = ring.read + 1 + Len(ring.queue) + Packing(ring)
        /\ \A i \in 1..Len(ring.queue) : ring.queue[i] = ring.read + 1 + i - 1
        /\ ring.producer.step # "idle" => ring.producer.ticket = ring.write - 1
        /\ ring.producer.step # "copied"
    BY <1>0, <2>1 DEF Accounting
  <2>3. Packing(ring) \in Int
    BY DEF Packing
  <2>4. /\ next.free + next.write = next.read + Capacity
        /\ next.write = next.read + 0 + Len(next.queue) + Packing(ring)
    <3>1. next.free = ring.free + 1 /\ next.write = ring.write
          /\ next.read = ring.read + 1 /\ Len(next.queue) = Len(ring.queue)
      BY <1>2
    <3>2. /\ Capacity \in Int /\ ring.write \in Int /\ ring.read \in Int
          /\ ring.free \in Int /\ Len(ring.queue) \in Int
      BY <1>0 DEF Fields
    <3>3. next.free + next.write = next.read + Capacity
      <4>1. ring.free + ring.write = ring.read + Capacity
        BY <2>2
      <4>2. (ring.free + 1) + ring.write = (ring.free + ring.write) + 1
        BY <3>2
      <4>3. (ring.read + Capacity) + 1 = (ring.read + 1) + Capacity
        BY <3>2
      <4> QED BY <3>1, <4>1, <4>2, <4>3
    <3>4. next.write = next.read + 0 + Len(next.queue) + Packing(ring)
      BY <2>2, <2>3, <3>1, <3>2
    <3> QED BY <3>3, <3>4
  <2>5. \A i \in 1..Len(next.queue) : next.queue[i] = next.read + 0 + i - 1
    BY <1>0, <1>2, <2>2 DEF Fields
  <2> QED BY <1>0, <1>2, <2>1, <2>2, <2>4, <2>5 DEF Accounting
<1>5. Stored(next)
  BY <1>0, <1>2, SMT DEF Stored, RingType, Packing
<1>6. Copied(next)
  BY <1>0, <1>2 DEF Copied
<1> QED BY <1>3, <1>4, <1>5, <1>6 DEF RingInv

-----------------------------------------------------------------------------
(* What may become of a ring in one step of either of its ends.             *)

RingStep(ring, next) ==
    \/ CanReserve(ring) /\ next = Reserve(ring)
    \/ ring.producer.step = "rgb" /\ next = PackRgb(ring)
    \/ ring.producer.step = "depth" /\ next = PackDepth(ring)
    \/ CanPut(ring) /\ next = Put(ring)
    \/ CanTake(ring) /\ next = Take(ring)
    \/ ring.consumer.step = "rgb" /\ next = UnpackRgb(ring)
    \/ ring.consumer.step = "depth" /\ next = UnpackDepth(ring)
    \/ ring.consumer.step = "copied" /\ next = Release(ring)

LEMMA RingStepHolds ==
    ASSUME NEW ring, NEW next, RingInv(ring), RingStep(ring, next)
    PROVE  RingInv(next)
BY ReservesHolds, PacksRgbHolds, PacksDepthHolds, PutsHolds, TakesHolds,
   UnpacksRgbHolds, UnpacksDepthHolds, ReleasesHolds DEF RingStep

\* The operations of the ring that is the instance of SharedSlots.
LEMMA SameRing ==
    ASSUME NEW r \in Roles
    PROVE  /\ RingOf(r)!Init <=> rings[r] = NewRing
           /\ RingOf(r)!Next <=> RingStep(rings[r], rings'[r])
<1>1. RingOf(r)!Init <=> rings[r] = NewRing
  BY DEF RingOf!Init, RingOf!NewRing, RingOf!Idle, NewRing, Idle
<1>2. (RingOf(r)!WorkerReserves <=> CanReserve(rings[r]) /\ rings'[r] = Reserve(rings[r]))
  BY DEF RingOf!WorkerReserves, RingOf!CanReserve, RingOf!Reserve, RingOf!Idle,
         CanReserve, Reserve, Idle
<1>3. /\ RingOf(r)!WorkerPacksRgb <=>
            rings[r].producer.step = "rgb" /\ rings'[r] = PackRgb(rings[r])
      /\ RingOf(r)!WorkerPacksDepth <=>
            rings[r].producer.step = "depth" /\ rings'[r] = PackDepth(rings[r])
  BY DEF RingOf!WorkerPacksRgb, RingOf!WorkerPacksDepth, RingOf!PackRgb, RingOf!PackDepth,
         RingOf!SlotOf, PackRgb, PackDepth, SlotOf
<1>4. RingOf(r)!WorkerPuts <=> CanPut(rings[r]) /\ rings'[r] = Put(rings[r])
  BY DEF RingOf!WorkerPuts, RingOf!CanPut, RingOf!Put, RingOf!Idle, CanPut, Put, Idle
<1>5. RingOf(r)!ReaderTakes <=> CanTake(rings[r]) /\ rings'[r] = Take(rings[r])
  BY DEF RingOf!ReaderTakes, RingOf!CanTake, RingOf!Take, RingOf!Idle, CanTake, Take, Idle
<1>6. /\ RingOf(r)!ReaderUnpacksRgb <=>
            rings[r].consumer.step = "rgb" /\ rings'[r] = UnpackRgb(rings[r])
      /\ RingOf(r)!ReaderUnpacksDepth <=>
            rings[r].consumer.step = "depth" /\ rings'[r] = UnpackDepth(rings[r])
  BY DEF RingOf!ReaderUnpacksRgb, RingOf!ReaderUnpacksDepth, RingOf!UnpackRgb,
         RingOf!UnpackDepth, RingOf!SlotOf, UnpackRgb, UnpackDepth, SlotOf
<1>7. RingOf(r)!ReaderReleases <=>
          rings[r].consumer.step = "copied" /\ rings'[r] = Release(rings[r])
  BY DEF RingOf!ReaderReleases, RingOf!Release, RingOf!Idle, Release, Idle
<1> QED
  BY <1>1, <1>2, <1>3, <1>4, <1>5, <1>6, <1>7 DEF RingOf!Next, RingStep

-----------------------------------------------------------------------------
(* The rig.                                                                 *)

Held == rings = [r \in Roles |-> rings[r]]

\* A step of the rig uses one ring at most, and as one of its two ends.
Uses(ring, next) == next = ring \/ RingStep(ring, next)

\* The rig's rings are the ones here.
LEMMA SameSlots ==
    /\ Rig!Roles = Roles /\ Rig!NewRing = NewRing
    /\ \A r : Rig!Ring(r) = rings[r]
    /\ \A r, ring : Rig!SetRing(r, ring) <=> SetRing(r, ring)
    /\ \A ring : /\ Rig!Reserve(ring) = Reserve(ring) /\ Rig!Put(ring) = Put(ring)
                  /\ Rig!PackRgb(ring) = PackRgb(ring)
                  /\ Rig!PackDepth(ring) = PackDepth(ring)
    /\ \A ring : /\ Rig!Take(ring) = Take(ring) /\ Rig!Release(ring) = Release(ring)
                  /\ Rig!UnpackRgb(ring) = UnpackRgb(ring)
                  /\ Rig!UnpackDepth(ring) = UnpackDepth(ring)
<1>1. Rig!Roles = Roles /\ Rig!NewRing = NewRing
  BY DEF Rig!Roles, Roles, Rig!ToSet, ToSet, Rig!NewRing, NewRing, Rig!Idle, Idle
<1>2. /\ \A r : Rig!Ring(r) = rings[r]
      /\ \A r, ring : Rig!SetRing(r, ring) <=> SetRing(r, ring)
  BY DEF Rig!Ring, Rig!SetRing, SetRing
<1>3. \A ring : /\ Rig!Reserve(ring) = Reserve(ring) /\ Rig!Put(ring) = Put(ring)
                /\ Rig!PackRgb(ring) = PackRgb(ring)
                /\ Rig!PackDepth(ring) = PackDepth(ring)
  BY DEF Rig!Reserve, Reserve, Rig!Put, Put, Rig!PackRgb, PackRgb, Rig!PackDepth, PackDepth,
         Rig!SlotOf, SlotOf, Rig!Idle, Idle
<1>4. \A ring : /\ Rig!Take(ring) = Take(ring) /\ Rig!Release(ring) = Release(ring)
                /\ Rig!UnpackRgb(ring) = UnpackRgb(ring)
                /\ Rig!UnpackDepth(ring) = UnpackDepth(ring)
  BY DEF Rig!Take, Take, Rig!Release, Release, Rig!UnpackRgb, UnpackRgb, Rig!UnpackDepth,
         UnpackDepth, Rig!SlotOf, SlotOf, Rig!Idle, Idle
<1> QED BY <1>1, <1>2, <1>3, <1>4

\* A step that sets the ring of one camera leaves the others alone.
LEMMA OneRing ==
    ASSUME Held, NEW r, NEW ring, SetRing(r, ring), RingStep(rings[r], ring)
    PROVE  Held' /\ \A q \in Roles : Uses(rings[q], rings'[q])
<1>1. rings' = [q \in Roles |-> IF q = r THEN ring ELSE rings[q]]
  BY DEF Held, SetRing
<1> QED BY <1>1 DEF Held, Uses

LEMMA NoRing ==
    ASSUME Held, UNCHANGED rings
    PROVE  Held' /\ \A q \in Roles : Uses(rings[q], rings'[q])
BY DEF Held, Uses

\* Every step of a worker, with its failures and its death.
LEMMA WorkerUses ==
    ASSUME Held, NEW r \in Roles, Rig!WorkerNext(r)
    PROVE  Held' /\ \A q \in Roles : Uses(rings[q], rings'[q])
<1>1. CASE Rig!WorkerReserves(r)
  <2>1. SetRing(r, Reserve(rings[r])) /\ RingStep(rings[r], Reserve(rings[r]))
    BY <1>1, SameSlots DEF Rig!WorkerReserves, Rig!CanReserve, CanReserve, RingStep
  <2> QED BY <2>1, OneRing
<1>2. CASE Rig!WorkerCopies(r)
  <2>1. \/ SetRing(r, PackRgb(rings[r])) /\ RingStep(rings[r], PackRgb(rings[r]))
        \/ SetRing(r, PackDepth(rings[r])) /\ RingStep(rings[r], PackDepth(rings[r]))
    BY <1>2, SameSlots DEF Rig!WorkerCopies, RingStep
  <2> QED BY <2>1, OneRing
<1>3. CASE Rig!WorkerPuts(r)
  <2>1. SetRing(r, Put(rings[r])) /\ RingStep(rings[r], Put(rings[r]))
    BY <1>3, SameSlots DEF Rig!WorkerPuts, Rig!CanPut, CanPut, RingStep
  <2> QED BY <2>1, OneRing
<1>4. CASE \/ Rig!WorkerReady(r) \/ Rig!WorkerGrabs(r) \/ Rig!WorkerFails(r) \/ Rig!WorkerDies(r)
           \/ Rig!WorkerStops(r)
  <2>1. UNCHANGED rings
    BY <1>4 DEF Rig!WorkerReady, Rig!WorkerGrabs, Rig!WorkerFails, Rig!WorkerDies, Rig!WorkerStops
  <2> QED BY <2>1, NoRing
<1> QED BY <1>1, <1>2, <1>3, <1>4 DEF Rig!WorkerNext

\* Every step of the reader, with its exceptions.
LEMMA ReaderUses ==
    ASSUME Held, Rig!ReaderNext
    PROVE  Held' /\ \A q \in Roles : Uses(rings[q], rings'[q])
<1>1. CASE Rig!ReadTakes
  <2>1. \/ SetRing(Rig!Role, Take(rings[Rig!Role])) /\ RingStep(rings[Rig!Role], Take(rings[Rig!Role]))
        \/ UNCHANGED rings
    BY <1>1, SameSlots DEF Rig!ReadTakes, Rig!CanTake, CanTake, RingStep
  <2> QED BY <2>1, OneRing, NoRing
<1>2. CASE Rig!ReadUnpacks
  <2>1. \/ SetRing(Rig!Role, UnpackRgb(rings[Rig!Role])) /\ RingStep(rings[Rig!Role], UnpackRgb(rings[Rig!Role]))
        \/ SetRing(Rig!Role, UnpackDepth(rings[Rig!Role]))
             /\ RingStep(rings[Rig!Role], UnpackDepth(rings[Rig!Role]))
    BY <1>2, SameSlots DEF Rig!ReadUnpacks, RingStep
  <2> QED BY <2>1, OneRing
<1>3. CASE Rig!ReadObserves
  <2>1. SetRing(Rig!Role, Release(rings[Rig!Role])) /\ RingStep(rings[Rig!Role], Release(rings[Rig!Role]))
    BY <1>3, SameSlots DEF Rig!ReadObserves, RingStep
  <2> QED BY <2>1, OneRing
<1>4. CASE \/ Rig!Spawn \/ Rig!StartReturns \/ Rig!ReadStarts \/ Rig!ReadStatus \/ Rig!ReadAlive \/ Rig!ReadNext
           \/ Rig!CloseStarts \/ Rig!CloseEnds \/ \E r \in Roles : Rig!CloseTerminates(r)
  <2>1. UNCHANGED rings
    BY <1>4 DEF Rig!Spawn, Rig!StartReturns, Rig!ReadStarts, Rig!ReadStatus, Rig!ReadAlive, Rig!ReadNext,
                Rig!CloseStarts, Rig!CloseEnds, Rig!CloseTerminates, Rig!WorldUnchanged
  <2> QED BY <2>1, NoRing
<1> QED BY <1>1, <1>2, <1>3, <1>4, SameSlots DEF Rig!ReaderNext

LEMMA RigUses ==
    ASSUME Held, [Rig!Next]_(Rig!vars)
    PROVE  Held' /\ \A q \in Roles : Uses(rings[q], rings'[q])
<1>1. CASE Rig!Tick \/ UNCHANGED Rig!vars
  BY <1>1, NoRing DEF Rig!Tick, Rig!vars
<1> QED BY <1>1, WorkerUses, ReaderUses, SameSlots DEF Rig!Next

-----------------------------------------------------------------------------
(* A ring between its two ends, whatever these do.                          *)

\* From RingInv, what SharedSlots promises.
LEMMA RingPromises ==
    ASSUME NEW r \in Roles, RingInv(rings[r])
    PROVE  RingOf(r)!ImagesIntact /\ RingOf(r)!NextTicket
<1> DEFINE ring == rings[r]
<1>1. RingOf(r)!ImagesIntact
  BY DEF RingInv, Accounting, Copied, RingOf!ImagesIntact
<1>2. ASSUME ring.queue # <<>>, ring.consumer.step = "idle"
      PROVE  CanTake(ring)
  <2>1. ring.queue \in Seq(Nat) /\ ring.read \in Nat /\ Unpacking(ring) = 0
    BY <1>2 DEF RingInv, RingType, Unpacking
  <2>2. 1 \in 1..Len(ring.queue) /\ Head(ring.queue) = ring.queue[1]
    BY <1>2, <2>1
  <2>3. ring.queue[1] = ring.read
    BY <2>1, <2>2 DEF RingInv, Accounting
  <2> QED BY <1>2, <2>2, <2>3 DEF CanTake
<1> QED BY <1>1, <1>2 DEF RingOf!NextTicket, RingOf!CanTake, CanTake

(* Whatever its two ends do, and at whichever step either stops for good,  *)
(* the frame that leaves a ring is the next one and carries its own color  *)
(* and depth image, and "repeated or out of order" is never raised.        *)
THEOREM SlotsKeepImages ==
    ASSUME NEW r \in Roles
    PROVE  RingOf(r)!Spec => [](RingOf(r)!ImagesIntact /\ RingOf(r)!NextTicket)
<1>1. RingOf(r)!Init => RingInv(rings[r])
  BY SameRing, NewRingHolds
<1>2. RingInv(rings[r]) /\ [RingOf(r)!Next]_(rings[r]) => RingInv(rings[r])'
  BY SameRing, RingStepHolds
<1>3. RingInv(rings[r]) => RingOf(r)!ImagesIntact /\ RingOf(r)!NextTicket
  BY RingPromises
<1> QED BY <1>1, <1>2, <1>3, PTL DEF RingOf!Spec

-----------------------------------------------------------------------------
(* The rings of the rig.                                                    *)

RigInv == Held /\ \A r \in Roles : RingInv(rings[r])

LEMMA InitRings == Rig!Init => Held /\ \A r \in Roles : rings[r] = NewRing
BY SameSlots DEF Rig!Init, Held

LEMMA RigHolds == Rig!Spec => []RigInv
<1>1. Rig!Init => RigInv
  BY InitRings, NewRingHolds DEF RigInv
<1>2. RigInv /\ [Rig!Next]_(Rig!vars) => RigInv'
  BY RigUses, RingStepHolds DEF RigInv, Uses
<1> QED BY <1>1, <1>2, PTL DEF Rig!Spec

(* Every process of the rig, at every step, with every failure and death,  *)
(* uses the rings as SharedSlots allows: only in a way that keeps images   *)
(* in the slots of their tickets.                                          *)
THEOREM RigImplementsSlots == Rig!Spec => RingsImplementSlots
<1>1. Rig!Init => Held /\ \A r \in Roles : RingOf(r)!Init
  BY InitRings, SameRing
<1>2. ASSUME Held, [Rig!Next]_(Rig!vars)
      PROVE  Held' /\ \A r \in Roles : [RingOf(r)!Next]_(rings[r])
  BY <1>2, RigUses, SameRing DEF Uses
<1> QED BY <1>1, <1>2, PTL DEF Rig!Spec, RingsImplementSlots

(* A frame that the rig has read carries its own images, and its reader is *)
(* never stopped by a ticket that is not the next.                         *)
THEOREM FramesAreWhole ==
    Rig!Spec => [](\A r \in Roles : RingOf(r)!ImagesIntact /\ RingOf(r)!NextTicket)
<1>1. RigInv => \A r \in Roles : RingOf(r)!ImagesIntact /\ RingOf(r)!NextTicket
  BY RingPromises DEF RigInv
<1> QED BY <1>1, RigHolds, PTL

(* With as many places in the queue as slots, a worker that holds a slot   *)
(* always finds room to put its ticket.                                    *)
RoomToPut == \A r \in Roles : rings[r].producer.step = "put" => CanPut(rings[r])
THEOREM SlotMeansRoom == Rig!Spec => []RoomToPut
<1>1. ASSUME NEW r \in Roles, RingInv(rings[r]), rings[r].producer.step = "put"
      PROVE  CanPut(rings[r])
  BY <1>1, CapacityAssumption, SMT
     DEF RingInv, RingType, Accounting, Packing, Unpacking, CanPut
<1>2. RigInv => RoomToPut
  BY <1>1 DEF RigInv, RoomToPut
<1> QED BY <1>2, RigHolds, PTL

-----------------------------------------------------------------------------
(* A camera process that has ended ends the read.                           *)

Phases == {"starting", "running", "failed", "closing", "closed", "closed_with_errors"}
Reads == [at : 0..Len(RoleOrder), part : {"between", "status", "drain", "unpack"}, budget : Int]
RigType ==
    [phase : Phases, spawned : Nat, returned : BOOLEAN, fault : BOOLEAN, read : Reads]

Ended == {r \in Roles : worker[r].step = "exited"}
Unborn == {r \in Roles : worker[r].step = "none"}

\* The reader will come to camera c, or is about to ask whether it is alive.
Ahead(c) == c > rig.read.at \/ (c = rig.read.at /\ rig.read.part = "status")

FaultInv ==
    /\ worker = [r \in Roles |-> worker[r]] /\ rig \in RigType
    /\ \A i \in Rig!Cameras : i > rig.spawned => RoleOrder[i] \in Unborn
    /\ rig.fault => ~rig.returned
    /\ rig.fault /\ rig.read.at # 0 => \E c \in Rig!Cameras : RoleOrder[c] \in Ended /\ Ahead(c)

\* Only the process r goes on, one that is running.
Touches(r) ==
    /\ r \notin Ended \cup Unborn
    /\ \A q \in Roles : q # r => worker'[q] = worker[q]

LEMMA WorkerTouches ==
    ASSUME worker = [q \in Roles |-> worker[q]], NEW r \in Roles,
           Rig!WorkerNext(r) \/ Rig!CloseTerminates(r)
    PROVE  worker' = [q \in Roles |-> worker'[q]] /\ Touches(r)
<1>1. CASE Rig!WorkerReady(r)
  BY <1>1 DEF Rig!WorkerReady, Rig!WorkerAt, Rig!WorkerTo, Touches, Ended, Unborn
<1>2. CASE Rig!WorkerGrabs(r)
  BY <1>2 DEF Rig!WorkerGrabs, Rig!WorkerAt, Touches, Ended, Unborn
<1>3. CASE Rig!WorkerReserves(r)
  BY <1>3 DEF Rig!WorkerReserves, Rig!WorkerAt, Rig!WorkerTo, Touches, Ended, Unborn
<1>4. CASE Rig!WorkerCopies(r)
  BY <1>4 DEF Rig!WorkerCopies, Rig!WorkerAt, Rig!WorkerTo, Touches, Ended, Unborn
<1>5. CASE Rig!WorkerPuts(r)
  BY <1>5 DEF Rig!WorkerPuts, Rig!WorkerAt, Rig!WorkerTo, Touches, Ended, Unborn
<1>6. CASE Rig!WorkerFails(r)
  BY <1>6 DEF Rig!WorkerFails, Rig!MayFail, Rig!WorkerAt, Rig!Exits, Touches, Ended, Unborn
<1>7. CASE Rig!WorkerDies(r) \/ Rig!WorkerStops(r) \/ Rig!CloseTerminates(r)
  BY <1>7 DEF Rig!WorkerDies, Rig!WorkerStops, Rig!CloseTerminates, Rig!WorkerAt, Rig!Exits, Touches, Ended, Unborn
<1> QED BY <1>1, <1>2, <1>3, <1>4, <1>5, <1>6, <1>7 DEF Rig!WorkerNext

\* While the reader stands, the others change nothing that it will see.
LEMMA StandingReader ==
    ASSUME FaultInv, UNCHANGED rig, worker' = [q \in Roles |-> worker'[q]],
           Ended \subseteq Ended', Unborn \subseteq Unborn'
    PROVE  FaultInv'
BY DEF FaultInv, Ahead

LEMMA WorkersKeepFault ==
    ASSUME FaultInv, NEW r \in Roles, Rig!WorkerNext(r) \/ Rig!CloseTerminates(r)
    PROVE  FaultInv'
<1>1. worker' = [q \in Roles |-> worker'[q]] /\ Touches(r)
  BY WorkerTouches DEF FaultInv
<1>2. Ended \subseteq Ended' /\ Unborn \subseteq Unborn'
  BY <1>1 DEF Touches, Ended, Unborn
<1>3. UNCHANGED rig
  BY DEF Rig!WorkerNext, Rig!CloseTerminates, Rig!WorkerReady, Rig!WorkerGrabs, Rig!WorkerReserves, Rig!WorkerCopies,
         Rig!WorkerPuts, Rig!WorkerFails, Rig!WorkerDies, Rig!WorkerStops, Rig!ReaderUnchanged
<1> QED BY <1>1, <1>2, <1>3, StandingReader

\* The reader goes on, and no process does.
LEMMA ReaderKeepsFault ==
    ASSUME FaultInv, Rig!ReaderNext, UNCHANGED worker, Rig!Spawn => Rig!Raises
    PROVE  FaultInv'
<1>0. /\ rig \in RigType /\ worker' = [r \in Roles |-> worker'[r]]
      /\ Ended' = Ended /\ Unborn' = Unborn /\ Len(RoleOrder) \in Nat
      /\ \A i \in Rig!Cameras : i > rig.spawned => RoleOrder[i] \in Unborn
      /\ rig.fault => ~rig.returned
      /\ rig.fault /\ rig.read.at # 0 =>
            \E c \in Rig!Cameras : RoleOrder[c] \in Ended /\ Ahead(c)
  <2>1. worker' = [r \in Roles |-> worker'[r]]
    BY DEF FaultInv
  <2>2. Ended' = Ended /\ Unborn' = Unborn
    BY DEF Ended, Unborn
  <2>3. Len(RoleOrder) \in Nat
    BY CamerasNamed
  <2> QED BY <2>1, <2>2, <2>3 DEF FaultInv
<1>a. rig.read \in Reads /\ Rig!Between \in Reads /\ Rig!Between.at = 0
  BY <1>0 DEF RigType, Reads, Rig!Between
<1>b. rig.read.at \in 0..Len(RoleOrder) /\ rig.read.budget \in Int
  BY <1>a DEF Reads
<1>1. CASE UNCHANGED rig
  BY <1>0, <1>1, StandingReader
\* An exception leaves no read behind.
<1>2. CASE Rig!Raises
  <2>1. /\ rig' \in RigType /\ rig'.spawned = rig.spawned /\ rig'.fault = rig.fault
        /\ rig'.returned = rig.returned /\ rig'.read.at = 0
    BY <1>0, <1>a, <1>2 DEF Rig!Raises, RigType, Phases
  <2> QED BY <1>0, <2>1 DEF FaultInv
\* A read that goes on at the same camera, behind the question.
<1>3. CASE /\ \E read : rig' = [rig EXCEPT !.read = read] /\ read.at = rig.read.at
                        /\ read \in Reads
           /\ rig.read.part = "status" => RoleOrder[rig.read.at] \notin Ended
  <2>1. /\ rig' \in RigType /\ rig'.spawned = rig.spawned /\ rig'.fault = rig.fault
        /\ rig'.returned = rig.returned /\ rig'.read.at = rig.read.at
    BY <1>0, <1>3 DEF RigType
  <2>2. \A c \in Rig!Cameras : RoleOrder[c] \in Ended /\ Ahead(c) => Ahead(c)'
    BY <1>3, <2>1 DEF Ahead
  <2> QED BY <1>0, <2>1, <2>2 DEF FaultInv
<1>4. CASE Rig!ReadStarts
  <2>1. SUFFICES ASSUME rig' = [rig EXCEPT !.read = Rig!AtCamera(1), !.returned = FALSE,
                                  !.fault = \E r \in Roles : Rig!WorkerAt(r, "exited")]
                 PROVE  FaultInv'
    BY <1>2, <1>4, SameSlots DEF Rig!ReadStarts
  <2>2. Rig!AtCamera(1) \in Reads
    BY <1>0, CamerasNamed, CapacityAssumption DEF Rig!AtCamera, Reads
  <2>3. /\ rig' \in RigType /\ rig'.spawned = rig.spawned /\ rig'.returned = FALSE
        /\ rig'.fault = (\E r \in Roles : Rig!WorkerAt(r, "exited"))
        /\ rig'.read.at = 1 /\ rig'.read.part = "status"
    BY <1>0, <2>1, <2>2 DEF RigType, Rig!AtCamera
  <2>4. \A r \in Roles : \E c \in Rig!Cameras : r = RoleOrder[c]
    BY <1>0, CamerasNamed DEF Roles, Rig!Cameras, ToSet
  <2>5. ASSUME rig'.fault
        PROVE  \E c \in Rig!Cameras : RoleOrder[c] \in Ended /\ Ahead(c)'
    <3>1. PICK r \in Roles : Rig!WorkerAt(r, "exited")
      BY <2>3, <2>5
    <3>2. PICK c \in Rig!Cameras : r = RoleOrder[c]
      BY <2>4
    <3>3. Ahead(c)'
      BY <1>0, <2>3 DEF Ahead, Rig!Cameras
    <3> QED BY <3>1, <3>2, <3>3 DEF Ended, Rig!WorkerAt
  <2> QED BY <1>0, <2>3, <2>5 DEF FaultInv
<1>5. CASE Rig!ReadNext
  <2>1. rig.read.at # 0 /\ rig.read.part = "drain"
    BY <1>5 DEF Rig!ReadNext, Rig!ReadAt
  <2>2. rig.fault => \E c \in Rig!Cameras : RoleOrder[c] \in Ended /\ c > rig.read.at
    BY <1>0, <2>1 DEF Ahead
  <2>3. CASE rig.read.at < Len(RoleOrder) /\ rig' = [rig EXCEPT !.read = Rig!AtCamera(rig.read.at + 1)]
    <3>1. Rig!AtCamera(rig.read.at + 1) \in Reads
      BY <1>0, <2>3, CapacityAssumption DEF Rig!AtCamera, RigType, Reads
    <3>2. /\ rig' \in RigType /\ rig'.spawned = rig.spawned /\ rig'.fault = rig.fault
          /\ rig'.returned = rig.returned
          /\ rig'.read.at = rig.read.at + 1 /\ rig'.read.part = "status"
      BY <1>0, <2>3, <3>1 DEF RigType, Rig!AtCamera
    <3>3. \A c \in Rig!Cameras : c > rig.read.at => Ahead(c)'
      BY <1>0, <1>b, <3>2 DEF Ahead, Rig!Cameras
    <3> QED BY <1>0, <2>2, <3>2, <3>3 DEF FaultInv
  <2>4. CASE /\ ~(rig.read.at < Len(RoleOrder))
             /\ rig' = [rig EXCEPT !.read = Rig!Between, !.returned = TRUE]
    <3>1. ~rig.fault
      BY <1>0, <1>b, <2>2, <2>4 DEF Rig!Cameras
    <3>2. /\ rig' \in RigType /\ rig'.spawned = rig.spawned /\ rig'.fault = rig.fault
          /\ rig'.read.at = 0
      BY <1>0, <1>a, <2>4 DEF RigType
    <3> QED BY <1>0, <3>1, <3>2 DEF FaultInv
  <2> QED BY <1>2, <1>5, <2>3, <2>4 DEF Rig!ReadNext, Rig!ReadTo
<1>6. CASE Rig!StartReturns \/ Rig!CloseStarts \/ Rig!CloseEnds
  <2>1. CASE /\ rig.read = Rig!Between
             /\ \E phase \in Phases : rig' = [rig EXCEPT !.phase = phase, !.returned = FALSE]
    <3>1. /\ rig' \in RigType /\ rig'.spawned = rig.spawned /\ rig'.returned = FALSE
          /\ rig'.read = rig.read /\ rig'.read.at = 0
      BY <1>0, <1>a, <2>1 DEF RigType
    <3> QED BY <1>0, <3>1 DEF FaultInv
  <2>2. CASE \E phase \in Phases : rig' = [rig EXCEPT !.phase = phase]
    <3>1. /\ rig' \in RigType /\ rig'.spawned = rig.spawned /\ rig'.returned = rig.returned
          /\ rig'.read = rig.read /\ rig'.fault = rig.fault
      BY <1>0, <2>2 DEF RigType
    <3> QED BY <1>0, <3>1 DEF FaultInv, Ahead
  <2>3. CASE Rig!StartReturns
    BY <1>2, <2>1, <2>3 DEF Rig!StartReturns, Phases
  <2>4. CASE Rig!CloseStarts
    BY <2>1, <2>4 DEF Rig!CloseStarts, Phases
  <2>5. CASE Rig!CloseEnds
    BY <2>2, <2>5 DEF Rig!CloseEnds, Phases
  <2> QED BY <1>6, <2>3, <2>4, <2>5
<1>7. CASE Rig!ReadStatus
  BY <1>1, <1>2, <1>7 DEF Rig!ReadStatus
<1>8. CASE Rig!ReadAlive
  <2>1. CASE Rig!Alive(Rig!Role) /\ rig' = [rig EXCEPT !.read = [rig.read EXCEPT !.part = "drain"]]
    <3>1. RoleOrder[rig.read.at] \notin Ended
      BY <2>1 DEF Rig!Alive, Rig!Role, Ended, Rig!WorkerAt
    <3>2. /\ [rig.read EXCEPT !.part = "drain"] \in Reads
          /\ [rig.read EXCEPT !.part = "drain"].at = rig.read.at
      BY <1>a, <1>b DEF Reads
    <3> QED BY <1>3, <2>1, <3>1, <3>2
  <2> QED BY <1>2, <1>8, <2>1 DEF Rig!ReadAlive, Rig!ReadTo
<1>9. CASE Rig!ReadTakes
  <2>1. CASE rig' = [rig EXCEPT !.read = [rig.read EXCEPT !.part = "unpack", !.budget = @ - 1]]
    <3>1. rig.read.part = "drain"
      BY <1>9 DEF Rig!ReadTakes, Rig!ReadAt
    <3>2. /\ [rig.read EXCEPT !.part = "unpack", !.budget = @ - 1] \in Reads
          /\ [rig.read EXCEPT !.part = "unpack", !.budget = @ - 1].at = rig.read.at
      <4> DEFINE read == rig.read
                 n == rig.read.budget - 1
      <4>1. read \in Reads /\ n \in Int
        BY <1>a, <1>b
      <4>2. [read EXCEPT !.part = "unpack", !.budget = n] \in Reads
        <5> HIDE DEF read, n
        <5> QED BY <4>1 DEF Reads
      <4>3. [read EXCEPT !.part = "unpack", !.budget = n].at = read.at
        <5> HIDE DEF read, n
        <5> QED BY <4>1 DEF Reads
      <4> QED BY <4>2, <4>3
    <3> QED BY <1>3, <2>1, <3>1, <3>2
  <2> QED BY <1>2, <1>9, <2>1 DEF Rig!ReadTakes, Rig!ReadTo
<1>10. CASE Rig!ReadObserves
  <2>1. CASE rig' = [rig EXCEPT !.read = [rig.read EXCEPT !.part = "drain"]]
    <3>1. rig.read.part = "unpack"
      BY <1>10 DEF Rig!ReadObserves, Rig!ReadAt
    <3>2. /\ [rig.read EXCEPT !.part = "drain"] \in Reads
          /\ [rig.read EXCEPT !.part = "drain"].at = rig.read.at
      BY <1>a, <1>b DEF Reads
    <3> QED BY <1>3, <2>1, <3>1, <3>2
  <2> QED BY <1>2, <1>10, <2>1 DEF Rig!ReadObserves, Rig!ReadTo
<1>11. CASE Rig!ReadUnpacks \/ \E r \in Roles : Rig!CloseTerminates(r)
  BY <1>1, <1>11 DEF Rig!ReadUnpacks, Rig!CloseTerminates
<1> QED
  BY <1>2, <1>4, <1>5, <1>6, <1>7, <1>8, <1>9, <1>10, <1>11, SameSlots DEF Rig!ReaderNext

\* A process is started, which no read has waited for.
LEMMA SpawnKeepsFault ==
    ASSUME FaultInv, NEW r, r = RoleOrder[rig.spawned + 1],
           rig.spawned < Len(RoleOrder), Rig!WorkerTo(r, "opening"),
           rig' = [rig EXCEPT !.spawned = @ + 1]
    PROVE  FaultInv'
<1>1. /\ rig.spawned \in Nat /\ Len(RoleOrder) \in Nat /\ rig.spawned + 1 \in Rig!Cameras
      /\ rig \in RigType /\ worker = [q \in Roles |-> worker[q]]
  BY CamerasNamed DEF FaultInv, RigType, Rig!Cameras
<1>2. r \in Unborn
  BY <1>1 DEF FaultInv
<1>3. /\ worker' = [q \in Roles |-> worker'[q]]
      /\ \A q \in Roles : q # r => worker'[q] = worker[q]
  BY <1>1 DEF Rig!WorkerTo
<1>4. Ended \subseteq Ended' /\ Unborn \ {r} \subseteq Unborn'
  BY <1>2, <1>3 DEF Ended, Unborn
<1>5. /\ rig' \in RigType /\ rig'.spawned = rig.spawned + 1 /\ rig'.fault = rig.fault
      /\ rig'.returned = rig.returned /\ rig'.read = rig.read
  BY <1>1 DEF RigType
<1>6. ASSUME NEW i \in Rig!Cameras, i > rig.spawned + 1
      PROVE  RoleOrder[i] \in Unborn'
  <2>1. i # rig.spawned + 1 /\ i > rig.spawned
    BY <1>1, <1>6 DEF Rig!Cameras
  <2>2. RoleOrder[i] # r /\ RoleOrder[i] \in Unborn
    BY <1>1, <2>1, CamerasNamed DEF FaultInv, Rig!Cameras
  <2> QED BY <1>4, <2>2
<1> QED BY <1>3, <1>4, <1>5, <1>6 DEF FaultInv, Ahead

LEMMA FaultHolds == Rig!Spec => []FaultInv
<1>1. Rig!Init => FaultInv
  <2> SUFFICES ASSUME Rig!Init PROVE FaultInv
    OBVIOUS
  <2>1. worker = [r \in Roles |-> worker[r]] /\ Unborn = Roles
    BY SameSlots DEF Rig!Init, Unborn
  <2>2. /\ rig = [phase |-> "starting", spawned |-> 0, read |-> Rig!Between,
                  returned |-> FALSE, fault |-> FALSE]
        /\ Len(RoleOrder) \in Nat
    BY CamerasNamed DEF Rig!Init
  <2>3. rig \in RigType /\ rig.fault = FALSE
    BY <2>2 DEF RigType, Phases, Reads, Rig!Between
  <2>4. \A i \in Rig!Cameras : RoleOrder[i] \in Roles
    BY <2>2, CamerasNamed DEF Rig!Cameras, Roles, ToSet
  <2> QED BY <2>1, <2>3, <2>4 DEF FaultInv
<1>2. ASSUME FaultInv, [Rig!Next]_(Rig!vars)
      PROVE  FaultInv'
  <2>1. CASE Rig!Tick \/ UNCHANGED Rig!vars
    <3>1. UNCHANGED <<worker, rig>>
      BY <2>1 DEF Rig!Tick, Rig!vars
    <3> QED BY <1>2, <3>1, StandingReader DEF FaultInv, Ended, Unborn
  <2>2. CASE Rig!ReaderNext
    <3>1. CASE UNCHANGED worker /\ (Rig!Spawn => Rig!Raises)
      BY <1>2, <2>2, <3>1, ReaderKeepsFault
    <3>2. CASE Rig!Spawn /\ ~(Rig!Raises /\ UNCHANGED worker)
      BY <1>2, <3>2, SpawnKeepsFault DEF Rig!Spawn
    <3>3. CASE \E r \in Roles : Rig!CloseTerminates(r)
      BY <1>2, <3>3, WorkersKeepFault
    <3>4. UNCHANGED worker \/ Rig!Spawn \/ \E r \in Roles : Rig!CloseTerminates(r)
      BY <2>2, SameSlots DEF Rig!ReaderNext, Rig!StartReturns, Rig!ReadStarts, Rig!ReadStatus, Rig!ReadAlive, Rig!ReadTakes,
                  Rig!ReadUnpacks, Rig!ReadObserves, Rig!ReadNext, Rig!CloseStarts, Rig!CloseEnds, Rig!WorldUnchanged
    <3> QED BY <3>1, <3>2, <3>3, <3>4
  <2>3. CASE \E r \in Roles : Rig!WorkerNext(r)
    BY <1>2, <2>3, WorkersKeepFault
  <2> QED BY <1>2, <2>1, <2>2, <2>3, SameSlots DEF Rig!Next
<1> QED BY <1>1, <1>2, PTL DEF Rig!Spec

(* A read that starts after a camera process has ended returns no frames,  *)
(* whatever is in that process's pipe and queue, for any cameras that are  *)
(* finitely many and each named once.                                      *)
THEOREM LostCameraEndsRead == Rig!Spec => []Rig!LostCameraSurfaces
<1>1. FaultInv => Rig!LostCameraSurfaces
  BY DEF FaultInv, Rig!LostCameraSurfaces
<1> QED BY <1>1, FaultHolds, PTL

-----------------------------------------------------------------------------
(* The report of a batch.                                                   *)

Places == {"opening", "source", "readers", "session", "poll", "append", "write", "start",
           "record", "cleanup", "closing", "ended", "dead"}
Over == {"cleanup", "closing", "ended", "dead"}
Outcomes == {"running", "completed", "failed", "interrupted"}
Reports == [state : Outcomes, listed : Nat, active : Nat \cup {Nothing}]

Batches == [at : Places, state : Outcomes, listed : Nat, active : Nat \cup {Nothing},
            closers : Seq({"readers", "session", "source"}), errors : BOOLEAN, slipped : BOOLEAN]

BatchType ==
    /\ batch \in Batches
    /\ devices \in [Shadow!Readers \cup {"source"} -> {"new", "running", "stopping", "closed"}]
    /\ owner \in [state : {"none", "idle", "recording", "finalizing", "failed"},
                  writer : {"none", "open", "finishing", "committed", "failed"}]
    /\ output \in [committed : SUBSET Nat, report : Reports \cup {Nothing}]

\* What is committed: all that is listed, and beside it at most the episode
\* that is being finished, or was when an interrupt slipped by.
BatchKept ==
    /\ 0..(batch.listed - 1) \subseteq output.committed
    /\ output.committed \subseteq 0..batch.listed
    /\ batch.listed \in output.committed =>
          owner.writer = "committed" \/ batch.at \in {"append", "dead"} \/ batch.slipped
    /\ owner.writer = "committed" => batch.listed \in output.committed
    /\ batch.at = "append" => batch.listed \in output.committed /\ owner.writer = "none"
    /\ owner.state \in {"none", "idle"} => owner.writer = "none"
    /\ batch.slipped => batch.at \in Over
    /\ batch.at \in {"opening", "source", "readers", "session"} => owner.state = "none"

\* A report lags behind the list by the episode that was just appended, and
\* then no other is under way; only the last one says how the batch ended.
Lags ==
    /\ batch.listed > 0 /\ output.report.listed = batch.listed - 1
    /\ batch.listed \notin output.committed /\ owner.writer = "none"
    /\ batch.at \in {"write"} \cup Over

BatchReported ==
    output.report # Nothing =>
        /\ output.report.listed = batch.listed \/ Lags
        /\ output.report.state # "running" =>
              batch.at = "ended" /\ output.report = Shadow!Report(batch)

\* Whom the cleanup still has to close, and what it notes before it begins.
BatchCleaned ==
    /\ batch.at \notin Over => batch.state = "running"
    /\ batch.at \notin {"closing", "ended", "dead"} =>
          batch.closers = Shadow!Closers /\ ~batch.errors
    /\ batch.at \in {"closing", "ended"} =>
          /\ \A d \in DOMAIN devices :
                \/ batch.errors \/ devices[d] = "closed"
                \/ \E i \in DOMAIN batch.closers : batch.closers[i] = d
          /\ owner.writer # "none" => batch.active = batch.listed
    /\ batch.at = "ended" => batch.closers = <<>>
    /\ batch.at = "ended" /\ batch.state = "completed" => ~batch.errors
    /\ batch.state = "completed" => batch.listed = Episodes

BatchInv == BatchType /\ BatchKept /\ BatchReported /\ BatchCleaned

LEMMA ClosersType ==
    /\ Shadow!Closers \in Seq({"readers", "session", "source"})
    /\ \A d \in Shadow!Readers \cup {"source"} :
          \E i \in DOMAIN Shadow!Closers : Shadow!Closers[i] = d
<1>1. CASE Feedback
  <2>1. Shadow!Closers = <<"readers", "session", "source">>
    BY <1>1 DEF Shadow!Closers
  <2>2. Shadow!Closers[1] = "readers" /\ Shadow!Closers[3] = "source"
        /\ {1, 3} \subseteq DOMAIN Shadow!Closers
    BY <2>1
  <2>3. QED  BY <1>1, <2>1, <2>2 DEF Shadow!Readers
<1>2. CASE ~Feedback
  <2>1. Shadow!Closers = <<"session", "source">>
    BY <1>2 DEF Shadow!Closers
  <2>2. Shadow!Closers[2] = "source" /\ 2 \in DOMAIN Shadow!Closers
    BY <2>1
  <2>3. QED  BY <1>2, <2>1, <2>2 DEF Shadow!Readers
<1>3. QED  BY <1>1, <1>2

LEMMA BatchInit == Shadow!Init => BatchInv
<1> SUFFICES ASSUME Shadow!Init  PROVE BatchInv
  OBVIOUS
<1> USE DEF Shadow!Init
<1>1. BatchType
  BY ClosersType DEF BatchType, Batches, Places, Outcomes
<1>2. BatchKept
  BY DEF BatchKept
<1>3. BatchReported /\ BatchCleaned
  BY BatchAssumption DEF BatchReported, BatchCleaned
<1>4. QED  BY <1>1, <1>2, <1>3 DEF BatchInv

\* The thread that finishes an episode.
LEMMA WriterKeepsBatch ==
    ASSUME BatchInv, Shadow!Commits \/ Shadow!WriterFails
    PROVE  BatchInv'
<1> USE DEF BatchInv, Shadow!Commits, Shadow!WriterFails, Shadow!Writing
<1>1. BatchType'
  BY DEF BatchType, Batches
<1>2. BatchKept'
  BY DEF BatchKept, BatchType, Batches, Over
<1>3. BatchReported'
  BY DEF BatchReported, BatchType, Batches, Lags
<1>4. BatchCleaned'
  BY DEF BatchCleaned, BatchType, Batches, Over
<1>5. QED  BY <1>1, <1>2, <1>3, <1>4

\* run, up to the loop.
LEMMA BeginningKeepsBatch ==
    ASSUME BatchInv, Shadow!Begins \/ Shadow!StartsDevices \/ Shadow!MakesSession
    PROVE  BatchInv'
<1> USE DEF BatchInv, Shadow!At, Shadow!To
<1>1. CASE Shadow!Begins
  <2> USE <1>1 DEF Shadow!Begins, Shadow!Writes, Shadow!Report
  <2>1. BatchType'
    BY DEF BatchType, Batches, Places, Reports
  <2>2. BatchKept'
    BY <2>1 DEF BatchKept, BatchType, Batches, Over
  <2>3. BatchReported'
    BY <2>1 DEF BatchReported, BatchCleaned, BatchType, Batches, Lags, Over
  <2>4. BatchCleaned'
    BY <2>1 DEF BatchCleaned, BatchType, Batches, Over
  <2>5. QED  BY <2>1, <2>2, <2>3, <2>4
<1>2. CASE Shadow!StartsDevices \/ Shadow!MakesSession
  <2>1. /\ \E to \in {"session", "readers", "poll"} : batch' = [batch EXCEPT !.at = to]
        /\ batch.at \in {"source", "readers", "session"} /\ output' = output
        /\ owner' = owner \/ owner' = [owner EXCEPT !.state = "idle"]
    BY <1>2 DEF Shadow!StartsDevices, Shadow!Starts, Shadow!MakesSession
  <2>2. BatchType'
    BY <1>2 DEF BatchType, Batches, Places, Shadow!Readers, Shadow!StartsDevices, Shadow!Starts,
       Shadow!MakesSession
  <2>3. BatchKept'
    <3>1. CASE Shadow!StartsDevices
      <4>1. UNCHANGED <<owner, output>>
        BY <3>1 DEF Shadow!StartsDevices, Shadow!Starts
      <4>2. QED  BY <2>1, <2>2, <4>1 DEF BatchKept, BatchType, Batches, Over
    <3>2. CASE Shadow!MakesSession
      <4>1. batch' = [batch EXCEPT !.at = "poll"] /\ batch.at = "session"
            /\ owner' = [owner EXCEPT !.state = "idle"]
        BY <3>2 DEF Shadow!MakesSession
      <4>2. owner'.writer = owner.writer
        BY <4>1 DEF BatchType, Batches
      <4>3. QED  BY <2>1, <2>2, <4>1, <4>2 DEF BatchKept, BatchType, Batches, Over
    <3>3. QED  BY <1>2, <3>1, <3>2
  <2>4. BatchReported'
    BY <2>1, <2>2 DEF BatchReported, BatchType, Batches, Lags, Over
  <2>5. BatchCleaned'
    BY <2>1, <2>2 DEF BatchCleaned, BatchType, Batches, Over
  <2>6. QED  BY <2>2, <2>3, <2>4, <2>5
<1>3. QED  BY <1>1, <1>2

\* _collect.
LEMMA LoopKeepsBatch ==
    ASSUME BatchInv,
           \/ Shadow!Polls \/ Shadow!PollCompletes \/ Shadow!Appends \/ Shadow!WritesReport
           \/ Shadow!StartsEpisode \/ Shadow!Records
    PROVE  BatchInv'
<1> USE DEF BatchInv, Shadow!At, Shadow!To
<1>1. CASE Shadow!Polls \/ Shadow!PollCompletes
  <2> USE <1>1 DEF Shadow!Polls, Shadow!PollCompletes
  <2>1. BatchType'
    BY DEF BatchType, Batches, Places
  <2>2. BatchKept'
    BY <2>1 DEF BatchKept, BatchType, Batches, Over
  <2>3. BatchReported'
    BY <2>1 DEF BatchReported, BatchType, Batches, Lags, Over, Shadow!Report
  <2>4. BatchCleaned'
    BY <2>1 DEF BatchCleaned, BatchType, Batches, Over
  <2>5. QED  BY <2>1, <2>2, <2>3, <2>4
<1>2. CASE Shadow!Appends
  <2> USE <1>2 DEF Shadow!Appends
  <2>2. /\ batch'.listed = batch.listed + 1 /\ batch'.at = "write"
        /\ UNCHANGED <<owner, output, devices>> /\ batch.listed \in Nat
    BY DEF BatchType, Batches
  <2>1. BatchType'
    <3>1. batch.listed + 1 \in Nat
      BY <2>2
    <3>2. batch' \in Batches
      BY <3>1 DEF BatchType, Batches, Places
    <3>3. QED  BY <2>2, <3>2 DEF BatchType
  <2>3. BatchKept'
    BY <2>1, <2>2 DEF BatchKept, BatchType, Batches, Over
  <2>4. BatchReported'
    BY <2>1, <2>2 DEF BatchReported, BatchKept, BatchType, Batches, Lags, Over, Shadow!Report
  <2>5. BatchCleaned'
    BY <2>1 DEF BatchCleaned, BatchType, Batches, Over
  <2>6. QED  BY <2>1, <2>3, <2>4, <2>5
<1>3. CASE Shadow!WritesReport
  <2>1. /\ UNCHANGED <<devices, owner>> /\ batch.at = "write" /\ batch.state = "running"
        /\ output' = [output EXCEPT !.report = Shadow!Report(batch)]
    BY <1>3 DEF Shadow!WritesReport, Shadow!Writes, BatchCleaned, Over
  <2>2. \/ batch' = [batch EXCEPT !.at = "start"]
        \/ batch.listed = Episodes /\ batch' = [batch EXCEPT !.at = "cleanup", !.state = "completed"]
    BY <1>3 DEF Shadow!WritesReport
  <2>3. /\ output'.committed = output.committed /\ output'.report = Shadow!Report(batch)
        /\ Shadow!Report(batch) \in Reports
    BY <2>1 DEF BatchType, Batches, Reports, Shadow!Report
  <2>4. BatchType'
    <3>1. batch' \in Batches
      BY <2>2 DEF BatchType, Batches, Places, Outcomes
    <3>2. output' \in [committed : SUBSET Nat, report : Reports \cup {Nothing}]
      BY <2>1, <2>3 DEF BatchType
    <3>3. QED  BY <2>1, <3>1, <3>2 DEF BatchType
  <2>5. /\ batch'.listed = batch.listed /\ batch'.closers = batch.closers
        /\ batch'.errors = batch.errors /\ batch'.slipped = batch.slipped
        /\ \/ batch'.at = "start" /\ batch'.state = batch.state
           \/ batch'.at = "cleanup" /\ batch'.state = "completed" /\ batch.listed = Episodes
    BY <2>2 DEF BatchType, Batches
  <2>6. BatchKept'
    BY <2>1, <2>3, <2>5 DEF BatchKept, Over
  <2>7. BatchReported'
    BY <2>1, <2>3, <2>5 DEF BatchReported, Lags, Shadow!Report
  <2>8. BatchCleaned'
    BY <2>1, <2>5 DEF BatchCleaned, Over
  <2>9. QED  BY <2>4, <2>6, <2>7, <2>8
<1>4. CASE Shadow!StartsEpisode \/ Shadow!Records
  <2> USE <1>4 DEF Shadow!StartsEpisode, Shadow!Records
  <2>1. BatchType'
    BY DEF BatchType, Batches, Places
  <2>2. BatchKept'
    <3>1. /\ batch'.listed = batch.listed /\ batch'.slipped = batch.slipped
          /\ batch'.at \in {"record", "poll"} /\ batch.at \in {"start", "record"}
          /\ output' = output
      BY DEF BatchType, Batches
    <3>2. \/ owner' = owner
          \/ owner.state = "idle" /\ owner'.state = "recording" /\ owner'.writer = "open"
          \/ owner.writer = "open" /\ owner'.state = "finalizing" /\ owner'.writer = "finishing"
      OBVIOUS
    <3>3. QED  BY <3>1, <3>2 DEF BatchKept, Over
  <2>3. BatchReported'
    BY <2>1 DEF BatchReported, BatchType, Batches, Lags, Over, Shadow!Report
  <2>4. BatchCleaned'
    BY <2>1 DEF BatchCleaned, BatchType, Batches, Over
  <2>5. QED  BY <2>1, <2>2, <2>3, <2>4
<1>5. QED  BY <1>1, <1>2, <1>3, <1>4

\* An exception, an interrupt or a death.
LEMMA FailureKeepsBatch ==
    ASSUME BatchInv, Shadow!Raises \/ Shadow!Dies
    PROVE  BatchInv'
<1> USE DEF BatchInv, Shadow!At, Shadow!To, Shadow!Aborted, Shadow!Writing
<1>1. CASE Shadow!Raises
  <2> USE <1>1 DEF Shadow!Raises
  <2>6. PICK ending \in {"failed", "interrupted"} :
           batch' = [batch EXCEPT !.at = "cleanup", !.state = ending, !.slipped = (batch.at = "append")]
    OBVIOUS
  <2>7. /\ batch'.listed = batch.listed /\ batch'.at = "cleanup"
        /\ batch'.slipped = (batch.at = "append")
    BY <2>6 DEF BatchType, Batches
  <2>8. \/ owner' = owner
        \/ /\ owner'.state = "failed" /\ batch.at # "append"
           /\ \/ owner'.writer = owner.writer
              \/ owner'.writer = "failed" /\ owner.writer \in {"open", "finishing"}
    OBVIOUS
  <2>1. BatchType'
    <3>1. batch' \in Batches
      BY <2>6 DEF BatchType, Batches, Places, Outcomes
    <3>2. UNCHANGED <<devices, output>>
      OBVIOUS
    <3>3. owner' \in [state : {"none", "idle", "recording", "finalizing", "failed"},
                    writer : {"none", "open", "finishing", "committed", "failed"}]
      BY DEF BatchType
    <3>4. QED  BY <3>1, <3>2, <3>3 DEF BatchType
  <2>2. BatchKept'
    <3>1. output' = output /\ batch.at \notin Over
      BY DEF Over
    <3>2. QED  BY <2>7, <2>8, <3>1 DEF BatchKept, Over
  <2>3. BatchReported'
    BY <2>1 DEF BatchReported, BatchType, Batches, Lags, Over, Shadow!Report
  <2>4. BatchCleaned'
    BY <2>1 DEF BatchCleaned, BatchType, Batches, Over
  <2>5. QED  BY <2>1, <2>2, <2>3, <2>4
<1>2. CASE Shadow!Dies
  <2> USE <1>2 DEF Shadow!Dies
  <2>1. BatchType'
    BY DEF BatchType, Batches, Places
  <2>2. BatchKept'
    BY <2>1 DEF BatchKept, BatchType, Batches, Over
  <2>3. BatchReported'
    BY <2>1 DEF BatchReported, BatchType, Batches, Lags, Over, Shadow!Report
  <2>4. BatchCleaned'
    BY <2>1 DEF BatchCleaned, BatchType, Batches, Over
  <2>5. QED  BY <2>1, <2>2, <2>3, <2>4
<1>3. QED  BY <1>1, <1>2

\* The cleanup: nothing but the report is left to do when all are closed.
LEMMA CleanupKeepsBatch ==
    ASSUME BatchInv, Shadow!CleansUp \/ Shadow!Closes \/ Shadow!Ends
    PROVE  BatchInv'
<1> USE DEF BatchInv, Shadow!At
<1>1. CASE Shadow!CleansUp
  <2> USE <1>1 DEF Shadow!CleansUp
  <2>1. BatchType'
    BY DEF BatchType, Batches, Places
  <2>2. BatchKept'
    BY <2>1 DEF BatchKept, BatchType, Batches, Over
  <2>3. BatchReported'
    BY <2>1 DEF BatchReported, BatchType, Batches, Lags, Over, Shadow!Report
  <2>4. BatchCleaned'
    BY <2>1, ClosersType DEF BatchCleaned, BatchType, Batches, Over
  <2>5. QED  BY <2>1, <2>2, <2>3, <2>4
<1>2. CASE Shadow!Closes
  <2> DEFINE x == Head(batch.closers)
  <2>1. /\ batch.at = "closing" /\ batch.closers # <<>> /\ output' = output
        /\ owner' = IF x = "session" THEN Shadow!Aborted ELSE owner
    BY <1>2 DEF Shadow!Closes
  <2>2. PICK errors \in {batch.errors, TRUE} :
           /\ batch' = [batch EXCEPT !.closers = Tail(batch.closers), !.errors = errors]
           /\ devices' = IF x # "session" /\ errors = batch.errors
                         THEN [devices EXCEPT ![x] = "closed"] ELSE devices
    BY <1>2 DEF Shadow!Closes
  <2>3. /\ batch.closers \in Seq({"readers", "session", "source"}) /\ batch.errors \in BOOLEAN
        /\ x \in {"readers", "session", "source"}
        /\ Tail(batch.closers) \in Seq({"readers", "session", "source"})
    BY <2>1 DEF BatchType, Batches
  <2>4. /\ batch'.at = batch.at /\ batch'.state = batch.state /\ batch'.listed = batch.listed
        /\ batch'.active = batch.active /\ batch'.slipped = batch.slipped
        /\ batch'.closers = Tail(batch.closers) /\ batch'.errors = errors
    BY <2>2 DEF BatchType, Batches
  <2>5. /\ owner' \in [state : {"none", "idle", "recording", "finalizing", "failed"},
                      writer : {"none", "open", "finishing", "committed", "failed"}]
        /\ \/ owner'.writer = owner.writer
           \/ owner'.writer = "failed" /\ owner.writer \in {"open", "finishing"}
        /\ owner'.state = owner.state \/ owner'.state = "failed"
    <3>1. CASE owner' = owner
      BY <3>1 DEF BatchType
    <3>2. CASE owner' = Shadow!Aborted
      BY <3>2 DEF BatchType, Shadow!Aborted, Shadow!Writing
    <3>3. QED  BY <2>1, <3>1, <3>2
  <2>6. BatchType'
    <3>1. batch' \in Batches
      BY <2>2, <2>3 DEF BatchType, Batches
    <3>2. devices' \in [Shadow!Readers \cup {"source"} -> {"new", "running", "stopping", "closed"}]
      BY <2>2 DEF BatchType
    <3>3. QED  BY <2>1, <2>5, <3>1, <3>2 DEF BatchType
  <2>7. BatchKept'
    BY <2>1, <2>4, <2>5 DEF BatchKept, Over
  <2>8. BatchReported'
    <3>1. output.report # Nothing => output.report.state = "running"
      BY <2>1 DEF BatchReported
    <3>2. owner.writer = "none" => owner'.writer = "none"
      BY <2>5
    <3>3. QED  BY <2>1, <2>4, <3>1, <3>2 DEF BatchReported, Lags, Over
  <2>9. \A d \in DOMAIN devices' :
           \/ batch'.errors \/ devices'[d] = "closed"
           \/ \E i \in DOMAIN batch'.closers : batch'.closers[i] = d
    <3>1. SUFFICES ASSUME NEW d \in DOMAIN devices, ~errors, devices'[d] # "closed"
                   PROVE  \E i \in DOMAIN Tail(batch.closers) : Tail(batch.closers)[i] = d
      BY <2>2, <2>4 DEF BatchType
    <3>2. ~batch.errors /\ d # "session"
      BY <2>2, <3>1 DEF BatchType, Shadow!Readers
    <3>3. d # x /\ devices[d] # "closed"
      BY <2>2, <3>1, <3>2 DEF BatchType
    <3>4. PICK i \in DOMAIN batch.closers : batch.closers[i] = d
      BY <2>1, <3>2, <3>3 DEF BatchCleaned
    <3>5. i # 1 /\ i \in 1..Len(batch.closers)
      BY <2>1, <2>3, <3>3, <3>4
    <3>6. i - 1 \in DOMAIN Tail(batch.closers) /\ Tail(batch.closers)[i - 1] = d
      BY <2>1, <2>3, <3>4, <3>5
    <3>7. QED  BY <3>6
  <2>10. BatchCleaned'
    BY <2>1, <2>4, <2>5, <2>9 DEF BatchCleaned, Over
  <2>11. QED  BY <2>6, <2>7, <2>8, <2>10
<1>3. CASE Shadow!Ends
  <2> USE <1>3 DEF Shadow!Ends, Shadow!FinalState, Shadow!Writes, Shadow!Report
  <2>1. BatchType'
    <3>1. batch' \in Batches
      BY DEF BatchType, Batches, Places, Outcomes
    <3>2. Shadow!Report([batch EXCEPT !.state = Shadow!FinalState]) \in Reports
      BY DEF BatchType, Batches, Reports, Outcomes
    <3>3. output' \in [committed : SUBSET Nat, report : Reports \cup {Nothing}]
      BY <3>2 DEF BatchType
    <3>4. QED  BY <3>1, <3>3 DEF BatchType
  <2>2. BatchKept'
    BY <2>1 DEF BatchKept, BatchType, Batches, Over
  <2>3. BatchReported'
    BY <2>1 DEF BatchReported, BatchType, Batches, Lags, Over
  <2>4. BatchCleaned'
    BY <2>1 DEF BatchCleaned, BatchType, Batches, Over
  <2>5. QED  BY <2>1, <2>2, <2>3, <2>4
<1>4. QED  BY <1>1, <1>2, <1>3

LEMMA BatchHolds == Shadow!Spec => []BatchInv
<1>1. BatchInv /\ UNCHANGED Shadow!vars => BatchInv'
  BY DEF BatchInv, BatchType, Batches, BatchKept, BatchReported, BatchCleaned, Lags, Shadow!vars,
         Shadow!Report
<1>2. BatchInv /\ Shadow!Next => BatchInv'
  BY WriterKeepsBatch, BeginningKeepsBatch, LoopKeepsBatch, FailureKeepsBatch,
     CleanupKeepsBatch DEF Shadow!Next
<1>3. QED  BY <1>1, <1>2, BatchInit, PTL DEF Shadow!Spec

LEMMA ReportTrue == BatchInv => Shadow!BatchTruthful
<1> SUFFICES ASSUME BatchInv, output.report # Nothing
             PROVE  Shadow!BatchTruthful
  BY DEF BatchInv, Shadow!BatchTruthful
<1> DEFINE l == output.report.listed
           missed == output.committed \ Shadow!Listed
<1>1. l \in Nat /\ batch.listed \in Nat
  BY DEF BatchInv, BatchType, Batches, Reports
<1>2. Shadow!Listed = 0..(l - 1) /\ Shadow!Listed \subseteq output.committed
  BY <1>1 DEF Shadow!Listed, BatchInv, BatchKept, BatchReported, Lags
<1>3. missed \subseteq {l}
  BY <1>1, <1>2 DEF BatchInv, BatchKept, BatchReported, Lags
<1>4. \A e, f \in missed : e = f
  BY <1>3
<1>5. output.report.state = "completed" => l = Episodes
  BY DEF BatchInv, BatchReported, BatchCleaned, Shadow!Report
<1>6. batch.at = "ended" /\ output.report.state # "running" =>
        /\ output.report.state = "completed" => \A d \in DOMAIN devices : devices[d] = "closed"
        /\ output.committed \subseteq Shadow!Listed \cup {output.report.active} \/ batch.slipped
  <2> SUFFICES ASSUME batch.at = "ended", output.report.state # "running"
               PROVE  /\ output.report.state = "completed" =>
                            \A d \in DOMAIN devices : devices[d] = "closed"
                      /\ \/ output.committed \subseteq Shadow!Listed \cup {output.report.active}
                         \/ batch.slipped
    OBVIOUS
  <2>1. output.report = Shadow!Report(batch)
    BY DEF BatchInv, BatchReported
  <2>2. /\ output.report.state = batch.state /\ output.report.listed = batch.listed
        /\ output.report.active = batch.active
    BY <2>1 DEF Shadow!Report
  <2>3. output.report.state = "completed" => \A d \in DOMAIN devices : devices[d] = "closed"
    BY <2>2 DEF BatchInv, BatchCleaned
  <2>4. l \in output.committed => batch.active = l \/ batch.slipped
    BY <2>2 DEF BatchInv, BatchKept, BatchCleaned
  <2>5. output.committed \subseteq Shadow!Listed \cup {l}
    BY <1>3
  <2>6. output.committed \subseteq Shadow!Listed \cup {output.report.active} \/ batch.slipped
    BY <1>2, <2>2, <2>4, <2>5
  <2>7. QED  BY <2>3, <2>6
<1>7. QED  BY <1>2, <1>4, <1>5, <1>6 DEF Shadow!BatchTruthful

\* A camera process that ended ends the read, and the report of a batch is true
\* at every moment and says how the batch ended: for any cameras, slots and
\* frames, any number of episodes, with or without the feedback readers.
THEOREM FaultsAlwaysSurface == Rig!Spec /\ Shadow!Spec => []FaultsSurface
<1>1. FaultInv /\ BatchInv => FaultsSurface
  BY ReportTrue DEF FaultInv, Rig!LostCameraSurfaces, FaultsSurface
<1>2. QED  BY <1>1, FaultHolds, BatchHolds, PTL

-----------------------------------------------------------------------------
(* Induction: a set of numbers that has zero, and with each number the      *)
(* next, has all of them.                                                   *)

LEMMA LeastNumber ==
    ASSUME NEW S \in SUBSET Nat, S # {}
    PROVE  \E n \in S : \A m \in S : n <= m
<1> DEFINE R == OpToRel(<, Nat)
<1>1. \E x \in S : \A y \in S : ~ (<<y, x>> \in R)
  BY NatLessThanWellFounded, WFMin
<1>2. \A x, y \in Nat : <<y, x>> \in R <=> y < x
  BY DEF OpToRel
<1> HIDE DEF R
<1>3. PICK x \in S : \A y \in S : ~ (<<y, x>> \in R)
  BY <1>1
<1>4. \A y \in S : ~ (y < x)
  <2>1. \A y \in S : x \in Nat /\ y \in Nat
    OBVIOUS
  <2> QED BY <1>2, <1>3, <2>1, Zenon
<1>5. \A y \in S : x <= y
  <2>1. \A y \in S : x \in Nat /\ y \in Nat
    OBVIOUS
  <2> QED BY <1>4, <2>1
<1> QED BY <1>5

LEMMA AllNumbers ==
    ASSUME NEW S \in SUBSET Nat, 0 \in S, \A n \in S : n + 1 \in S
    PROVE  S = Nat
<1>1. SUFFICES ASSUME Nat \ S # {} PROVE FALSE
  OBVIOUS
<1>2. PICK n \in Nat \ S : \A m \in Nat \ S : n <= m
  BY <1>1, LeastNumber
<1>3. n # 0 /\ n - 1 \in Nat /\ n - 1 \in S
  BY <1>2
<1> QED BY <1>2, <1>3

-----------------------------------------------------------------------------
(* The matcher.                                                             *)

Found == MatchedFrames \cup {Nothing}
Groups == [Matcher!Roles -> MatchedFrames]
Reasons ==
    {"accepted", "frame_reuse", "invalid_timing", "missing_view", "excessive_skew", "overflow",
     "source_fault"}
Results == [anchor : MatchedFrames, reason : Reasons, members : Groups \cup {Nothing}]
Matchers ==
    [buffers : [Matcher!Roles -> Seq(MatchedFrames)], last : [Matcher!Roles -> Found],
     used : [Matcher!Roles -> Found], overflow : SUBSET Matcher!Roles, out : Seq(Results)]
Histories == [Matcher!Roles -> Seq(MatchedFrames)]

Waiting(m) == m.buffers[Anchor]
Latest(S) == CHOOSE j \in S : \A k \in S : k <= j
Accepted(o, i) == {j \in 1..(i - 1) : o[j].reason = "accepted"}

\* Prior and Choice, of decisions o and frames p.
PriorOf(o, i, r) ==
    IF Accepted(o, i) = {} THEN Nothing
    ELSE o[Latest(Accepted(o, i))].members[r]

ChoiceOf(o, p, i, r) ==
    LET a == o[i].anchor IN
    {f \in Matcher!ToSet(p[r]) :
        /\ Matcher!Distance(f, a) <= Skew /\ Matcher!Freshness(f, PriorOf(o, i, r)) = "accepted"
        /\ f.at <= a.receipt + MatchWait \/ f.at <= a.at}

\* What DecisionsExact says of one decision.
Exact(o, p, i) ==
    LET a == o[i].anchor
        fresh == Matcher!Freshness(a, PriorOf(o, i, Anchor)) = "accepted"
    IN  /\ o[i].reason = "accepted" =>
             /\ fresh
             /\ \A r \in Matcher!Views :
                  /\ o[i].members[r] \in ChoiceOf(o, p, i, r)
                  /\ \A g \in ChoiceOf(o, p, i, r) : Matcher!Nearer(o[i].members[r], g, a)
        /\ o[i].reason \notin {"accepted", "overflow"} =>
             ~fresh \/ \E r \in Matcher!Views : ChoiceOf(o, p, i, r) = {}

\* The anchors are decided in their order, and the others wait in it.
InOrder(m, p) ==
    /\ Len(m.out) + Len(Waiting(m)) = Len(p[Anchor])
    /\ \A i \in 1..Len(m.out) : m.out[i].anchor = p[Anchor][i]
    /\ \A i \in 1..Len(Waiting(m)) : Waiting(m)[i] = p[Anchor][Len(m.out) + i]

\* Those that wait are ever later, and no later than the last.
Ascending(m, at) ==
    /\ \A i, j \in 1..Len(Waiting(m)) : i < j =>
         /\ Waiting(m)[i].t < Waiting(m)[j].t
         /\ Waiting(m)[i].receipt <= Waiting(m)[j].receipt
    /\ \A i \in 1..Len(Waiting(m)) :
         /\ m.last[Anchor] # Nothing
         /\ Waiting(m)[i].t <= m.last[Anchor].t
         /\ Waiting(m)[i].receipt <= m.last[Anchor].receipt
         /\ Waiting(m)[i].at <= at

\* A frame that is too old for every anchor that waits or comes.
TooOld(m, f) ==
    /\ m.last[Anchor] # Nothing /\ f.t < m.last[Anchor].t - Skew
    /\ \A i \in 1..Len(Waiting(m)) : f.t < Waiting(m)[i].t - Skew

\* The buffers have every frame that may be chosen, unless one overflowed.
Buffered(m, p, at) ==
    \A r \in Matcher!Views :
        /\ Matcher!ToSet(m.buffers[r]) \subseteq Matcher!ToSet(p[r])
        /\ r \notin m.overflow =>
             \A f \in Matcher!ToSet(p[r]) \ Matcher!ToSet(m.buffers[r]) : TooOld(m, f)
        /\ \A f \in Matcher!ToSet(p[r]) : f.at <= at

\* No frame came after the deadline of an anchor that still waits.
InTime(m) ==
    \A r \in Matcher!Views : \A f \in Matcher!ToSet(m.buffers[r]) :
        \A i \in 1..Len(Waiting(m)) :
            LET a == Waiting(m)[i] IN f.at <= a.receipt + MatchWait \/ f.at <= a.at

\* What used has is the last group.
UsedLast(m) == \A r \in Matcher!Roles : m.used[r] = PriorOf(m.out, Len(m.out) + 1, r)

Matching(m, p, at) ==
    /\ m \in Matchers /\ p \in Histories /\ at \in Int
    /\ InOrder(m, p) /\ Ascending(m, at) /\ Buffered(m, p, at) /\ InTime(m) /\ UsedLast(m)

\* Between two operations no anchor is due.
Undecided(m) ==
    \A i \in 1..Len(Waiting(m)) :
        ~Matcher!Ready(m, Waiting(m)[i])
        /\ Waiting(m)[i].at < Waiting(m)[i].receipt + MatchWait

-----------------------------------------------------------------------------
(* One decision.                                                            *)

LEMMA RolesAre ==
    /\ Anchor \in Matcher!Roles /\ Matcher!Views \subseteq Matcher!Roles /\ Anchor \notin Matcher!Views
    /\ \A r \in Matcher!Roles : r # Anchor => r \in Matcher!Views
    /\ MatchedFrames = [role : Matcher!Roles, t : Int, receipt : Int, at : Int,
                        depth : Int, depthTime : Int]
  BY MatcherAssumption DEF Matcher!Roles, MatchedFrames

LEMMA FrameFields ==
    /\ \A f \in MatchedFrames : f.t \in Int /\ f.receipt \in Int /\ f.at \in Int
    /\ Skew \in Int /\ MatchWait \in Int /\ Nothing \notin MatchedFrames
  BY RolesAre, MatcherAssumption

LEMMA SetOf ==
    \A s \in Seq(MatchedFrames) :
        /\ Matcher!ToSet(s) \subseteq MatchedFrames
        /\ Matcher!ToSet(s) = {s[i] : i \in 1..Len(s)}
  BY DEF Matcher!ToSet

LEMMA Distances ==
    \A f, g \in MatchedFrames :
        /\ Matcher!Distance(f, g) \in Nat
        /\ Matcher!Distance(f, g) <= Skew <=> f.t <= g.t + Skew /\ g.t <= f.t + Skew
  BY FrameFields DEF Matcher!Distance

\* Of any frames there is a nearest one.
LEMMA NearestIs ==
    ASSUME NEW S \in SUBSET MatchedFrames, S # {}, NEW a \in MatchedFrames
    PROVE  /\ Matcher!Nearest(S, a) \in S
           /\ \A g \in S : Matcher!Nearer(Matcher!Nearest(S, a), g, a)
<1> DEFINE far == {Matcher!Distance(f, a) : f \in S}
<1>1. far \subseteq Nat /\ far # {}
  BY Distances
<1>2. PICK d \in far : \A e \in far : d <= e
  <2> HIDE DEF far
  <2> QED BY <1>1, LeastNumber
<1> DEFINE near == {f \in S : Matcher!Distance(f, a) = d}
           after == {f.t - a.t + d : f \in near}
<1>3. near # {} /\ d \in Nat
  BY <1>1, <1>2
<1>4. \A f \in near : f.t \in Int /\ a.t \in Int /\ f.t - a.t + d \in Nat
  BY <1>3, RolesAre DEF Matcher!Distance
<1>5. after \subseteq Nat /\ after # {}
  BY <1>3, <1>4
<1>6. PICK n \in after : \A k \in after : n <= k
  <2> HIDE DEF after
  <2> QED BY <1>5, LeastNumber
<1>7. PICK f \in near : f.t - a.t + d = n
  BY <1>6
<1>8. ASSUME NEW g \in S PROVE Matcher!Nearer(f, g, a)
  <2>1. Matcher!Distance(g, a) \in Nat /\ Matcher!Distance(f, a) = d
        /\ d <= Matcher!Distance(g, a)
    BY <1>2, <1>7, Distances
  <2>2. CASE Matcher!Distance(g, a) = d
    <3>1. g \in near /\ n <= g.t - a.t + d
      BY <1>6, <2>2
    <3>2. f.t <= g.t
      BY <1>3, <1>4, <1>7, <3>1
    <3> QED BY <2>1, <2>2, <3>2 DEF Matcher!Nearer
  <2>3. CASE Matcher!Distance(g, a) # d
    BY <1>3, <2>1, <2>3 DEF Matcher!Nearer
  <2> QED BY <2>2, <2>3
<1>9. \E h \in S : \A g \in S : Matcher!Nearer(h, g, a)
  BY <1>7, <1>8
<1> QED BY <1>9, Zenon DEF Matcher!Nearest

LEMMA Reasoned ==
    ASSUME NEW m, NEW a
    PROVE  /\ Matcher!Reason(m, a) \in Reasons \ {"overflow", "source_fault"}
           /\ Matcher!Reason(m, a) = "accepted" <=>
                /\ Matcher!Freshness(a, m.used[Anchor]) = "accepted"
                /\ \A r \in Matcher!Views : Matcher!Eligible(m, a, r) # {}
<1>1. \A f, u : Matcher!Freshness(f, u) \in {"accepted", "frame_reuse", "invalid_timing"}
  BY DEF Matcher!Freshness
<1>2. \A r : Matcher!NoMember(m, a, r) \in
               {"missing_view", "excessive_skew", "invalid_timing", "frame_reuse"}
  BY DEF Matcher!NoMember
<1>3. Matcher!Failing(m, a) = {} <=> \A r \in Matcher!Views : Matcher!Eligible(m, a, r) # {}
  BY DEF Matcher!Failing, Matcher!Views, Matcher!ToSet
<1>4. CASE Matcher!Freshness(a, m.used[Anchor]) # "accepted"
  BY <1>1, <1>4 DEF Matcher!Reason, Reasons
<1>5. CASE Matcher!Freshness(a, m.used[Anchor]) = "accepted" /\ Matcher!Failing(m, a) # {}
  BY <1>2, <1>3, <1>5 DEF Matcher!Reason, Reasons
<1>6. CASE Matcher!Freshness(a, m.used[Anchor]) = "accepted" /\ Matcher!Failing(m, a) = {}
  BY <1>3, <1>6 DEF Matcher!Reason, Reasons
<1> QED BY <1>4, <1>5, <1>6

LEMMA EligibleAre ==
    ASSUME NEW m \in Matchers, NEW a \in MatchedFrames, NEW r \in Matcher!Roles
    PROVE  Matcher!Eligible(m, a, r) =
             {f \in Matcher!ToSet(m.buffers[r]) :
                 /\ Matcher!Distance(f, a) <= Skew
                 /\ Matcher!Freshness(f, m.used[r]) = "accepted"}
           /\ Matcher!Eligible(m, a, r) \subseteq MatchedFrames
<1>1. m.buffers[r] \in Seq(MatchedFrames)
  BY DEF Matchers
<1> QED BY <1>1, SetOf DEF Matcher!Eligible, Matcher!Candidates

\* The members of a group are the nearest eligible ones.
LEMMA MembersAre ==
    ASSUME NEW m \in Matchers, NEW a \in MatchedFrames, Matcher!Reason(m, a) = "accepted"
    PROVE  /\ Matcher!Members(m, a) \in Groups
           /\ Matcher!Members(m, a)[Anchor] = a
           /\ \A r \in Matcher!Views :
                /\ Matcher!Members(m, a)[r] \in Matcher!Eligible(m, a, r)
                /\ \A g \in Matcher!Eligible(m, a, r) : Matcher!Nearer(Matcher!Members(m, a)[r], g, a)
<1>1. Matcher!Members(m, a) =
        [r \in Matcher!Roles |->
            IF r = Anchor THEN a ELSE Matcher!Nearest(Matcher!Eligible(m, a, r), a)]
  BY DEF Matcher!Members
<1>2. ASSUME NEW r \in Matcher!Views
      PROVE  /\ Matcher!Nearest(Matcher!Eligible(m, a, r), a) \in Matcher!Eligible(m, a, r)
             /\ Matcher!Nearest(Matcher!Eligible(m, a, r), a) \in MatchedFrames
             /\ \A g \in Matcher!Eligible(m, a, r) :
                  Matcher!Nearer(Matcher!Nearest(Matcher!Eligible(m, a, r), a), g, a)
  <2>1. Matcher!Eligible(m, a, r) # {} /\ Matcher!Eligible(m, a, r) \in SUBSET MatchedFrames
    BY Reasoned, EligibleAre, RolesAre
  <2> QED BY <2>1, NearestIs
<1> QED BY <1>1, <1>2, RolesAre DEF Groups

LEMMA DecideIs ==
    ASSUME NEW m \in Matchers, Waiting(m) # <<>>
    PROVE  LET a == Waiting(m)[1]
               d == Matcher!Decide(m, a)
               result == d.out[Len(d.out)]
           IN  /\ a \in MatchedFrames /\ d \in Matchers
               /\ Waiting(d) = Tail(Waiting(m))
               /\ \A r \in Matcher!Views : d.buffers[r] = m.buffers[r]
               /\ d.last = m.last /\ d.overflow = m.overflow
               /\ d.out = Append(m.out, result)
               /\ result.anchor = a /\ result.reason = Matcher!Reason(m, a)
               /\ result.reason = "accepted" =>
                    result.members = Matcher!Members(m, a) /\ d.used = Matcher!Members(m, a)
               /\ result.reason # "accepted" => d.used = m.used
<1> DEFINE a == Waiting(m)[1]
           d == Matcher!Decide(m, a)
           reason == Matcher!Reason(m, a)
           members == IF reason = "accepted" THEN Matcher!Members(m, a) ELSE Nothing
           result == [anchor |-> a, reason |-> reason, members |-> members]
<1>1. /\ Waiting(m) \in Seq(MatchedFrames) /\ a \in MatchedFrames
      /\ Tail(Waiting(m)) \in Seq(MatchedFrames) /\ m.out \in Seq(Results)
  <2>1. Waiting(m) \in Seq(MatchedFrames) /\ m.out \in Seq(Results)
    BY RolesAre DEF Waiting, Matchers
  <2> QED BY <2>1
<1>2. /\ reason \in Reasons
      /\ reason = "accepted" => Matcher!Members(m, a) \in Groups
  BY <1>1, Reasoned, MembersAre
<1> HIDE DEF reason
<1>3. result \in Results
  BY <1>1, <1>2 DEF Results
<1>4. d = [m EXCEPT !.buffers[Anchor] = Tail(@),
                    !.used = IF reason = "accepted" THEN Matcher!Members(m, a) ELSE @,
                    !.out = Append(@, result)]
  BY DEF Matcher!Decide, Matcher!Result, reason
<1> HIDE DEF d, result, a
<1>5. /\ d.buffers = [m.buffers EXCEPT ![Anchor] = Tail(Waiting(m))]
      /\ d.last = m.last /\ d.overflow = m.overflow /\ d.out = Append(m.out, result)
      /\ d.used = IF reason = "accepted" THEN Matcher!Members(m, a) ELSE m.used
  BY <1>4 DEF Matchers, Waiting
<1>6. d \in Matchers
  <2>1. d.buffers \in [Matcher!Roles -> Seq(MatchedFrames)]
    BY <1>1, <1>5 DEF Matchers
  <2>2. d.used \in [Matcher!Roles -> Found]
    BY <1>2, <1>5 DEF Matchers, Groups, Found
  <2>3. d.out \in Seq(Results)
    BY <1>1, <1>3, <1>5
  <2> QED BY <1>4, <1>5, <2>1, <2>2, <2>3 DEF Matchers
<1>7. Waiting(d) = Tail(Waiting(m)) /\ \A r \in Matcher!Views : d.buffers[r] = m.buffers[r]
  BY <1>5, RolesAre DEF Waiting, Matchers
<1>8. d.out[Len(d.out)] = result
  BY <1>1, <1>5
<1>9. /\ result.anchor = a /\ result.reason = reason
      /\ reason = "accepted" => result.members = Matcher!Members(m, a)
  BY DEF result
<1> QED BY <1>1, <1>5, <1>6, <1>7, <1>8, <1>9 DEF d, a, reason

LEMMA LatestIs ==
    ASSUME NEW o, NEW n \in Nat, Accepted(o, n + 1) # {}
    PROVE  /\ Latest(Accepted(o, n + 1)) \in Accepted(o, n + 1)
           /\ \A k \in Accepted(o, n + 1) : k <= Latest(Accepted(o, n + 1))
<1> DEFINE S == {(n + 1) - k : k \in Accepted(o, n + 1)}
<1>1. S \subseteq Nat /\ S # {}
  BY DEF Accepted
<1>2. PICK i \in S : \A k \in S : i <= k
  <2> HIDE DEF S
  <2> QED BY <1>1, LeastNumber
<1>3. PICK l \in Accepted(o, n + 1) : i = (n + 1) - l
  OBVIOUS
<1>4. ASSUME NEW k \in Accepted(o, n + 1) PROVE k <= l
  <2>1. k \in Int /\ l \in Int /\ (n + 1) - k \in S
    BY DEF Accepted
  <2>2. i <= (n + 1) - k
    BY <1>2, <2>1
  <2> QED BY <1>3, <2>1, <2>2
<1> HIDE DEF S
<1>5. \E j \in Accepted(o, n + 1) : \A k \in Accepted(o, n + 1) : k <= j
  BY <1>4
<1> QED BY <1>5, Zenon DEF Latest

\* Decisions that are added change nothing of what was before them.
LEMMA PriorKept ==
    ASSUME NEW o, NEW q, NEW n \in Nat, \A j \in 1..n : q[j] = o[j], NEW r
    PROVE  PriorOf(q, n + 1, r) = PriorOf(o, n + 1, r)
<1>1. Accepted(q, n + 1) = Accepted(o, n + 1) /\ \A j \in Accepted(o, n + 1) : q[j] = o[j]
  BY DEF Accepted
<1>2. CASE Accepted(o, n + 1) = {}
  BY <1>1, <1>2 DEF PriorOf
<1>3. CASE Accepted(o, n + 1) # {}
  BY <1>1, <1>3, LatestIs DEF PriorOf
<1> QED BY <1>2, <1>3

LEMMA ExactKept ==
    ASSUME NEW o, NEW q, NEW p, NEW i \in Nat \ {0}, \A j \in 1..i : q[j] = o[j]
    PROVE  Exact(q, p, i) <=> Exact(o, p, i)
<1>1. \A r : PriorOf(q, i, r) = PriorOf(o, i, r)
  <2>1. i - 1 \in Nat /\ (i - 1) + 1 = i /\ \A j \in 1..(i - 1) : q[j] = o[j]
    OBVIOUS
  <2>2. \A r : PriorOf(q, (i - 1) + 1, r) = PriorOf(o, (i - 1) + 1, r)
    BY <2>1, PriorKept
  <2> QED BY <2>1, <2>2
<1>2. q[i] = o[i]
  OBVIOUS
<1>3. \A r : ChoiceOf(q, p, i, r) = ChoiceOf(o, p, i, r)
  BY <1>1, <1>2 DEF ChoiceOf
<1> QED BY <1>1, <1>2, <1>3 DEF Exact

LEMMA PriorNext ==
    ASSUME NEW o, NEW n \in Nat, NEW r
    PROVE  PriorOf(o, n + 2, r) =
             IF o[n + 1].reason = "accepted" THEN o[n + 1].members[r] ELSE PriorOf(o, n + 1, r)
<1>1. CASE o[n + 1].reason = "accepted"
  <2>1. n + 1 \in Accepted(o, n + 2) /\ \A k \in Accepted(o, n + 2) : k <= n + 1
    BY <1>1 DEF Accepted
  <2>2. \A j \in Accepted(o, n + 2) : (\A k \in Accepted(o, n + 2) : k <= j) => j = n + 1
    BY <2>1 DEF Accepted
  <2>3. Latest(Accepted(o, n + 2)) = n + 1
    BY <2>1, <2>2, Zenon DEF Latest
  <2> QED BY <1>1, <2>1, <2>3 DEF PriorOf
<1>2. CASE o[n + 1].reason # "accepted"
  <2>1. Accepted(o, n + 2) = Accepted(o, n + 1)
    BY <1>2 DEF Accepted
  <2> QED BY <1>2, <2>1 DEF PriorOf
<1> QED BY <1>1, <1>2

LEMMA UsedIsPrior ==
    ASSUME NEW m, NEW q, Len(m.out) \in Nat, UsedLast(m), \A j \in 1..Len(m.out) : q[j] = m.out[j],
           NEW r \in Matcher!Roles
    PROVE  PriorOf(q, Len(m.out) + 1, r) = m.used[r]
<1>1. PriorOf(q, Len(m.out) + 1, r) = PriorOf(m.out, Len(m.out) + 1, r)
  BY PriorKept
<1> QED BY <1>1 DEF UsedLast

\* What may be chosen for the first anchor that waits is what is eligible.
LEMMA ChoiceIsEligible ==
    ASSUME NEW m, NEW p, NEW at, Matching(m, p, at), Waiting(m) # <<>>,
           NEW q, \A j \in 1..Len(m.out) : q[j] = m.out[j],
           q[Len(m.out) + 1].anchor = Waiting(m)[1],
           NEW r \in Matcher!Views, r \notin m.overflow
    PROVE  ChoiceOf(q, p, Len(m.out) + 1, r) = Matcher!Eligible(m, Waiting(m)[1], r)
<1> DEFINE a == Waiting(m)[1]
           n == Len(m.out) + 1
<1>1. /\ m \in Matchers /\ r \in Matcher!Roles /\ Waiting(m) \in Seq(MatchedFrames)
      /\ a \in MatchedFrames /\ Len(m.out) \in Nat /\ 1 \in 1..Len(Waiting(m))
      /\ m.buffers[r] \in Seq(MatchedFrames) /\ p[r] \in Seq(MatchedFrames)
  <2>1. m \in Matchers /\ p \in Histories /\ r \in Matcher!Roles /\ Anchor \in Matcher!Roles
    BY RolesAre DEF Matching
  <2>2. /\ Waiting(m) \in Seq(MatchedFrames) /\ m.out \in Seq(Results)
        /\ m.buffers[r] \in Seq(MatchedFrames) /\ p[r] \in Seq(MatchedFrames)
    BY <2>1 DEF Matchers, Histories, Waiting
  <2> QED BY <2>1, <2>2
<1>2. PriorOf(q, n, r) = m.used[r]
  <2>1. Len(m.out) \in Nat /\ UsedLast(m) /\ \A j \in 1..Len(m.out) : q[j] = m.out[j]
    BY <1>1 DEF Matching
  <2> QED BY <1>1, <2>1, UsedIsPrior
<1>3. ChoiceOf(q, p, n, r) =
        {f \in Matcher!ToSet(p[r]) :
            /\ Matcher!Distance(f, a) <= Skew /\ Matcher!Freshness(f, m.used[r]) = "accepted"
            /\ f.at <= a.receipt + MatchWait \/ f.at <= a.at}
  BY <1>2 DEF ChoiceOf
<1>4. /\ Matcher!ToSet(m.buffers[r]) \subseteq Matcher!ToSet(p[r])
      /\ \A f \in Matcher!ToSet(m.buffers[r]) : f.at <= a.receipt + MatchWait \/ f.at <= a.at
  BY <1>1 DEF Matching, Buffered, InTime
<1>5. \A f \in Matcher!ToSet(p[r]) \ Matcher!ToSet(m.buffers[r]) : ~(Matcher!Distance(f, a) <= Skew)
  <2> SUFFICES ASSUME NEW f \in Matcher!ToSet(p[r]) \ Matcher!ToSet(m.buffers[r])
               PROVE  ~(Matcher!Distance(f, a) <= Skew)
    OBVIOUS
  <2>1. f \in MatchedFrames
    BY <1>1, SetOf
  <2>2. f.t < a.t - Skew
    BY <1>1 DEF Matching, Buffered, TooOld
  <2>3. f.t \in Int /\ a.t \in Int /\ Skew \in Nat
    BY <1>1, <2>1, RolesAre, MatcherAssumption
  <2>4. ~(a.t <= f.t + Skew)
    BY <2>2, <2>3
  <2> QED BY <1>1, <2>1, <2>4, Distances
<1>6. Matcher!Eligible(m, a, r) =
        {f \in Matcher!ToSet(m.buffers[r]) :
            Matcher!Distance(f, a) <= Skew /\ Matcher!Freshness(f, m.used[r]) = "accepted"}
  BY <1>1, EligibleAre
<1> HIDE DEF a, n
<1> QED BY <1>3, <1>4, <1>5, <1>6 DEF a, n

LEMMA DecideExact ==
    ASSUME NEW m, NEW p, NEW at, Matching(m, p, at), Waiting(m) # <<>>,
           m.overflow \cap Matcher!Views = {}
    PROVE  Exact(Matcher!Decide(m, Waiting(m)[1]).out, p, Len(m.out) + 1)
<1> DEFINE a == Waiting(m)[1]
           q == Matcher!Decide(m, a).out
           n == Len(m.out) + 1
<1>1. m \in Matchers /\ m.out \in Seq(Results)
  BY DEF Matching, Matchers
<1>2. /\ a \in MatchedFrames /\ q = Append(m.out, q[Len(q)])
      /\ q[Len(q)].anchor = a /\ q[Len(q)].reason = Matcher!Reason(m, a)
      /\ q[Len(q)].reason = "accepted" => q[Len(q)].members = Matcher!Members(m, a)
  BY <1>1, DecideIs
<1> HIDE DEF q, a
<1>3. Len(m.out) \in Nat /\ n = Len(q) /\ \A j \in 1..Len(m.out) : q[j] = m.out[j]
  BY <1>1, <1>2
<1>4. /\ q[n].anchor = a /\ q[n].reason = Matcher!Reason(m, a)
      /\ q[n].reason = "accepted" => q[n].members = Matcher!Members(m, a)
  BY <1>2, <1>3
<1>5. \A r \in Matcher!Views : ChoiceOf(q, p, n, r) = Matcher!Eligible(m, a, r)
  BY <1>3, <1>4, ChoiceIsEligible DEF a
<1>6. PriorOf(q, n, Anchor) = m.used[Anchor]
  BY <1>3, UsedIsPrior, RolesAre DEF Matching
<1>7. /\ Matcher!Reason(m, a) = "accepted" <=>
           /\ Matcher!Freshness(a, m.used[Anchor]) = "accepted"
           /\ \A r \in Matcher!Views : Matcher!Eligible(m, a, r) # {}
  BY Reasoned
<1> HIDE DEF n
<1>8. CASE Matcher!Reason(m, a) = "accepted"
  <2>1. \A r \in Matcher!Views :
          /\ Matcher!Members(m, a)[r] \in Matcher!Eligible(m, a, r)
          /\ \A g \in Matcher!Eligible(m, a, r) : Matcher!Nearer(Matcher!Members(m, a)[r], g, a)
    BY <1>1, <1>2, <1>8, MembersAre
  <2> QED BY <1>4, <1>5, <1>6, <1>7, <1>8, <2>1 DEF Exact, n, q, a
<1>9. CASE Matcher!Reason(m, a) # "accepted"
  BY <1>4, <1>5, <1>6, <1>7, <1>9 DEF Exact, n, q, a
<1> QED BY <1>8, <1>9

\* An anchor leaves the front, decided; the views keep what they have.
Leaves(m, d, result) ==
    /\ d \in Matchers
    /\ Waiting(d) = Tail(Waiting(m)) /\ \A r \in Matcher!Views : d.buffers[r] = m.buffers[r]
    /\ d.last = m.last /\ m.overflow \subseteq d.overflow
    /\ d.out = Append(m.out, result) /\ result.anchor = Waiting(m)[1]
    /\ result.reason = "accepted" => d.used = result.members
    /\ result.reason # "accepted" => d.used = m.used

LEMMA AnchorLeaves ==
    ASSUME NEW m, NEW p, NEW at, Matching(m, p, at), Waiting(m) # <<>>,
           NEW d, NEW result, Leaves(m, d, result)
    PROVE  Matching(d, p, at)
<1> DEFINE a == Waiting(m)[1]
<1>1. m \in Matchers /\ m.out \in Seq(Results) /\ Waiting(m) \in Seq(MatchedFrames)
  BY RolesAre DEF Matching, Matchers, Waiting
<1>2. /\ d \in Matchers
      /\ Waiting(d) = Tail(Waiting(m))
      /\ \A r \in Matcher!Views : d.buffers[r] = m.buffers[r]
      /\ d.last = m.last /\ m.overflow \subseteq d.overflow
      /\ d.out = Append(m.out, result)
      /\ result.anchor = a
      /\ result.reason = "accepted" => d.used = result.members
      /\ result.reason # "accepted" => d.used = m.used
  BY DEF Leaves
<1> HIDE DEF a
<1>3. /\ Len(Waiting(d)) = Len(Waiting(m)) - 1 /\ Len(Waiting(m)) \in Nat \ {0}
      /\ \A i \in 1..Len(Waiting(d)) : Waiting(d)[i] = Waiting(m)[i + 1] /\ i + 1 \in 1..Len(Waiting(m))
      /\ Waiting(m)[1] = a
  BY <1>1, <1>2 DEF a
<1>4. /\ Len(d.out) = Len(m.out) + 1 /\ Len(m.out) \in Nat
      /\ \A i \in 1..Len(m.out) : d.out[i] = m.out[i]
      /\ d.out[Len(m.out) + 1].anchor = a
  BY <1>1, <1>2
<1>5. InOrder(d, p)
  <2> DEFINE n == Len(m.out)
             k == Len(Waiting(m))
  <2>1. /\ n + k = Len(p[Anchor])
        /\ \A i \in 1..n : m.out[i].anchor = p[Anchor][i]
        /\ \A i \in 1..k : Waiting(m)[i] = p[Anchor][n + i]
    BY DEF Matching, InOrder
  <2>2. /\ n \in Nat /\ k \in Nat /\ Len(d.out) = n + 1 /\ Len(Waiting(d)) = k - 1
        /\ \A i \in 1..n : d.out[i] = m.out[i]
        /\ \A i \in 1..(k - 1) : Waiting(d)[i] = Waiting(m)[i + 1]
        /\ d.out[n + 1].anchor = Waiting(m)[1] /\ k > 0
    BY <1>3, <1>4
  <2> HIDE DEF n, k
  <2>3. ASSUME NEW i \in 1..(n + 1) PROVE d.out[i].anchor = p[Anchor][i]
    <3>1. CASE i \in 1..n
      BY <2>1, <2>2, <3>1
    <3>2. CASE i = n + 1
      <4>1. 1 \in 1..k
        BY <2>2
      <4> QED BY <2>1, <2>2, <3>2, <4>1
    <3> QED BY <2>2, <3>1, <3>2
  <2>4. ASSUME NEW i \in 1..(k - 1) PROVE Waiting(d)[i] = p[Anchor][(n + 1) + i]
    <3>1. i + 1 \in 1..k /\ n + (i + 1) = (n + 1) + i
      BY <2>2
    <3>2. Waiting(m)[i + 1] = p[Anchor][n + (i + 1)]
      BY <2>1, <3>1
    <3> QED BY <2>2, <3>1, <3>2
  <2>5. (n + 1) + (k - 1) = Len(p[Anchor])
    <3>1. n \in Nat /\ k \in Nat /\ n + k = Len(p[Anchor])
      BY <2>1, <2>2
    <3> QED BY <3>1
  <2> QED BY <2>2, <2>3, <2>4, <2>5 DEF InOrder
<1>6. Ascending(d, at)
  <2>1. Ascending(m, at)
    BY DEF Matching
  <2> QED BY <1>2, <1>3, <2>1 DEF Ascending
<1>7. Buffered(d, p, at)
  <2>1. \A f : TooOld(m, f) => TooOld(d, f)
    BY <1>2, <1>3 DEF TooOld
  <2> QED BY <1>2, <2>1 DEF Buffered, Matching
<1>8. InTime(d)
  BY <1>2, <1>3 DEF InTime, Matching
<1>9. UsedLast(d)
  <2>1. \A r : PriorOf(d.out, Len(m.out) + 1, r) = PriorOf(m.out, Len(m.out) + 1, r)
    BY <1>4, PriorKept
  <2>2. \A r : PriorOf(d.out, Len(m.out) + 2, r) =
                 IF result.reason = "accepted" THEN result.members[r]
                 ELSE PriorOf(m.out, Len(m.out) + 1, r)
    <3>1. d.out[Len(m.out) + 1] = result
      BY <1>1, <1>2
    <3> QED BY <1>4, <2>1, <3>1, PriorNext
  <2>3. Len(d.out) + 1 = Len(m.out) + 2
    BY <1>4
  <2> QED BY <1>2, <2>2, <2>3 DEF UsedLast, Matching
<1>10. p \in Histories /\ at \in Int
  BY DEF Matching
<1> QED BY <1>2, <1>5, <1>6, <1>7, <1>8, <1>9, <1>10 DEF Matching

LEMMA DecideKeeps ==
    ASSUME NEW m, NEW p, NEW at, Matching(m, p, at), Waiting(m) # <<>>
    PROVE  Matching(Matcher!Decide(m, Waiting(m)[1]), p, at)
<1> DEFINE d == Matcher!Decide(m, Waiting(m)[1])
           result == d.out[Len(d.out)]
<1>1. m \in Matchers
  BY DEF Matching
<1>2. Leaves(m, d, result)
  BY <1>1, DecideIs DEF Leaves
<1> HIDE DEF d, result
<1> QED BY <1>2, AnchorLeaves DEF d

-----------------------------------------------------------------------------
(* A run of decisions.                                                      *)

\* What came of m: decisions are only added, and each new one is exact.
Grown(m, d, p) ==
    /\ Len(m.out) <= Len(d.out)
    /\ \A i \in 1..Len(m.out) : d.out[i] = m.out[i]
    /\ m.overflow \subseteq d.overflow
    /\ d.overflow \cap Matcher!Views = {} =>
         \A i \in (Len(m.out) + 1)..Len(d.out) : Exact(d.out, p, i)

LEMMA MatcherLengths ==
    ASSUME NEW m \in Matchers
    PROVE  /\ m.out \in Seq(Results) /\ Len(m.out) \in Nat
           /\ Waiting(m) \in Seq(MatchedFrames) /\ Len(Waiting(m)) \in Nat
<1>1. m.out \in Seq(Results) /\ Waiting(m) \in Seq(MatchedFrames)
  BY RolesAre DEF Matchers, Waiting
<1> QED BY <1>1

LEMMA GrownSame ==
    ASSUME NEW m \in Matchers, NEW d, d.out = m.out, m.overflow \subseteq d.overflow, NEW p
    PROVE  Grown(m, d, p)
  BY MatcherLengths DEF Grown

LEMMA GrownOn ==
    ASSUME NEW m \in Matchers, NEW d \in Matchers, NEW e \in Matchers, NEW p,
           Grown(m, d, p), Grown(d, e, p)
    PROVE  Grown(m, e, p)
<1>1. Len(m.out) \in Nat /\ Len(d.out) \in Nat /\ Len(e.out) \in Nat
  BY MatcherLengths
<1>2. Len(m.out) <= Len(e.out) /\ m.overflow \subseteq e.overflow
  BY <1>1 DEF Grown
<1>3. \A i \in 1..Len(m.out) : e.out[i] = m.out[i]
  BY <1>1 DEF Grown
<1>4. ASSUME e.overflow \cap Matcher!Views = {}, NEW i \in (Len(m.out) + 1)..Len(e.out)
      PROVE  Exact(e.out, p, i)
  <2>1. CASE i \in (Len(d.out) + 1)..Len(e.out)
    BY <1>4, <2>1 DEF Grown
  <2>2. CASE i \in (Len(m.out) + 1)..Len(d.out)
    <3>1. d.overflow \cap Matcher!Views = {}
      BY <1>4 DEF Grown
    <3>2. Exact(d.out, p, i)
      BY <2>2, <3>1 DEF Grown
    <3>3. i \in Nat \ {0} /\ \A j \in 1..i : e.out[j] = d.out[j]
      BY <1>1, <2>2 DEF Grown
    <3> QED BY <3>2, <3>3, ExactKept
  <2> QED BY <1>1, <2>1, <2>2
<1> QED BY <1>2, <1>3, <1>4 DEF Grown

Run(m, s, g, n) == g = [i \in 0..n |-> IF i = 0 THEN m ELSE Matcher!Decide(g[i - 1], s[i])]

LEMMA Runs ==
    ASSUME NEW m, NEW s, NEW n \in Nat
    PROVE  \E g : Run(m, s, g, n)
<1> DEFINE S == {k \in Nat : \E g : Run(m, s, g, k)}
<1>1. 0 \in S
  <2> DEFINE g == [i \in 0..0 |-> m]
  <2>1. Run(m, s, g, 0)
    BY DEF Run
  <2> QED BY <2>1
<1>2. ASSUME NEW k \in S PROVE k + 1 \in S
  <2>1. PICK g : Run(m, s, g, k)
    OBVIOUS
  <2> DEFINE h == [i \in 0..(k + 1) |-> IF i = k + 1 THEN Matcher!Decide(g[k], s[k + 1]) ELSE g[i]]
  <2>2. Run(m, s, h, k + 1)
    <3>1. \A i \in 0..(k + 1) : h[i] = IF i = 0 THEN m ELSE Matcher!Decide(h[i - 1], s[i])
      BY <2>1 DEF Run
    <3> QED BY <3>1 DEF Run
  <2> QED BY <2>2
<1>3. S = Nat
  <2> S \subseteq Nat
    OBVIOUS
  <2> HIDE DEF S
  <2> QED BY <1>1, <1>2, AllNumbers
<1> QED BY <1>3

LEMMA DecidedRun ==
    ASSUME NEW m, NEW s, NEW n \in Nat
    PROVE  \E g : Run(m, s, g, n) /\ Matcher!Decided(m, s, n) = g[n]
<1> DEFINE g == CHOOSE g : Run(m, s, g, n)
<1>1. Run(m, s, g, n)
  BY Runs, Zenon
<1>2. Matcher!Decided(m, s, n) = g[n]
  BY DEF Matcher!Decided, Run
<1> QED BY <1>1, <1>2

\* m after the first k anchors that waited were decided.
After(m, d, k, p, at) ==
    /\ Matching(d, p, at) /\ Grown(m, d, p)
    /\ d.last = m.last /\ d.overflow = m.overflow
    /\ \A r \in Matcher!Views : d.buffers[r] = m.buffers[r]
    /\ Len(d.out) = Len(m.out) + k
    /\ Len(Waiting(d)) = Len(Waiting(m)) - k
    /\ \A i \in 1..(Len(Waiting(m)) - k) : Waiting(d)[i] = Waiting(m)[k + i]

LEMMA AfterNext ==
    ASSUME NEW m, NEW d, NEW p, NEW at, Matching(m, p, at), NEW k \in Nat, k < Len(Waiting(m)),
           After(m, d, k, p, at)
    PROVE  After(m, Matcher!Decide(d, Waiting(m)[k + 1]), k + 1, p, at)
<1>1. m \in Matchers /\ d \in Matchers /\ Matching(d, p, at)
  BY DEF Matching, After
<1>2. /\ Len(Waiting(m)) \in Nat /\ Len(m.out) \in Nat /\ Waiting(d) \in Seq(MatchedFrames)
      /\ Len(d.out) \in Nat /\ d.out \in Seq(Results)
  BY <1>1, MatcherLengths
<1>3. Len(Waiting(d)) > 0 /\ Waiting(d) # <<>> /\ Waiting(d)[1] = Waiting(m)[k + 1]
  BY <1>2 DEF After
<1> DEFINE e == Matcher!Decide(d, Waiting(d)[1])
<1>4. Matching(e, p, at) /\ e \in Matchers
  BY <1>1, <1>3, DecideKeeps DEF Matching
<1>5. /\ Waiting(e) = Tail(Waiting(d)) /\ e.last = d.last /\ e.overflow = d.overflow
      /\ \A r \in Matcher!Views : e.buffers[r] = d.buffers[r]
      /\ e.out = Append(d.out, e.out[Len(e.out)])
  BY <1>1, <1>3, DecideIs
<1>6. d.overflow \cap Matcher!Views = {} => Exact(e.out, p, Len(d.out) + 1)
  BY <1>1, <1>3, DecideExact
<1> HIDE DEF e
<1>7. /\ Len(e.out) = Len(d.out) + 1
      /\ \A i \in 1..Len(d.out) : e.out[i] = d.out[i]
  <2>1. PICK result : e.out = Append(d.out, result)
    BY <1>5
  <2> QED BY <1>2, <2>1
<1>8. Grown(d, e, p)
  <2>1. \A i \in (Len(d.out) + 1)..Len(e.out) : i = Len(d.out) + 1
    BY <1>2, <1>7
  <2> QED BY <1>2, <1>5, <1>6, <1>7, <2>1 DEF Grown
<1>9. Grown(m, e, p)
  BY <1>1, <1>4, <1>8, GrownOn DEF After
<1>10. Len(Waiting(e)) = Len(Waiting(d)) - 1
  BY <1>2, <1>3, <1>5
<1>11. ASSUME NEW i \in 1..(Len(Waiting(m)) - (k + 1))
       PROVE  Waiting(e)[i] = Waiting(m)[(k + 1) + i]
  <2>1. i + 1 \in 1..(Len(Waiting(m)) - k) /\ k + (i + 1) = (k + 1) + i
    BY <1>2
  <2>2. Len(Waiting(d)) = Len(Waiting(m)) - k
    BY DEF After
  <2>3. Waiting(e)[i] = Waiting(d)[i + 1]
    BY <1>2, <1>3, <1>5, <2>1, <2>2
  <2>4. Waiting(d)[i + 1] = Waiting(m)[k + (i + 1)]
    BY <2>1 DEF After
  <2> QED BY <2>1, <2>3, <2>4
<1>12. Len(e.out) = Len(m.out) + (k + 1) /\ Len(Waiting(e)) = Len(Waiting(m)) - (k + 1)
  BY <1>2, <1>7, <1>10 DEF After
<1>13. /\ e.last = m.last /\ e.overflow = m.overflow
       /\ \A r \in Matcher!Views : e.buffers[r] = m.buffers[r]
  BY <1>5 DEF After
<1>14. After(m, e, k + 1, p, at)
  BY <1>4, <1>9, <1>11, <1>12, <1>13 DEF After
<1> QED BY <1>3, <1>14 DEF e

LEMMA DecidedKeeps ==
    ASSUME NEW m, NEW p, NEW at, Matching(m, p, at), NEW n \in 0..Len(Waiting(m))
    PROVE  After(m, Matcher!Decided(m, Waiting(m), n), n, p, at)
<1>1. m \in Matchers /\ Len(Waiting(m)) \in Nat /\ n \in Nat /\ Len(m.out) \in Nat
  BY MatcherLengths DEF Matching
<1>2. PICK g : Run(m, Waiting(m), g, n) /\ Matcher!Decided(m, Waiting(m), n) = g[n]
  BY <1>1, DecidedRun
<1>3. /\ g[0] = m
      /\ \A k \in Nat : k < n => g[k + 1] = Matcher!Decide(g[k], Waiting(m)[k + 1])
  BY <1>1, <1>2 DEF Run
<1> DEFINE S == {k \in Nat : k <= n => After(m, g[k], k, p, at)}
<1>4. 0 \in S
  <2>1. Grown(m, m, p)
    BY <1>1, GrownSame
  <2>2. After(m, m, 0, p, at)
    BY <1>1, <2>1 DEF After
  <2> QED BY <1>3, <2>2
<1>5. ASSUME NEW k \in S PROVE k + 1 \in S
  <2>1. SUFFICES ASSUME k + 1 <= n PROVE After(m, g[k + 1], k + 1, p, at)
    OBVIOUS
  <2>2. k < n /\ k < Len(Waiting(m)) /\ After(m, g[k], k, p, at)
    BY <1>1, <2>1
  <2>3. g[k + 1] = Matcher!Decide(g[k], Waiting(m)[k + 1])
    BY <1>3, <2>2
  <2> QED BY <2>2, <2>3, AfterNext
<1>6. S = Nat
  <2> S \subseteq Nat
    OBVIOUS
  <2> HIDE DEF S
  <2> QED BY <1>4, <1>5, AllNumbers
<1>7. n \in S
  BY <1>1, <1>6
<1> QED BY <1>1, <1>2, <1>7

LEMMA LeadingIs ==
    ASSUME NEW s, Len(s) \in Nat, NEW S
    PROVE  /\ Matcher!Leading(s, S) \in 0..Len(s)
           /\ \A i \in 1..Matcher!Leading(s, S) : s[i] \in S
           /\ Matcher!Leading(s, S) < Len(s) => s[Matcher!Leading(s, S) + 1] \notin S
<1> DEFINE stops == {k \in 0..Len(s) : k < Len(s) => s[k + 1] \notin S}
<1>1. stops \in SUBSET Nat /\ Len(s) \in stops
  OBVIOUS
<1>2. PICK n \in stops : \A k \in stops : n <= k
  <2> HIDE DEF stops
  <2> QED BY <1>1, LeastNumber
<1>3. n \in 0..Len(s) /\ (n < Len(s) => s[n + 1] \notin S)
  BY <1>2
<1>4. ASSUME NEW i \in 1..n PROVE s[i] \in S
  <2>1. i - 1 \in 0..Len(s) /\ i - 1 < Len(s) /\ (i - 1) + 1 = i /\ ~(n <= i - 1)
    BY <1>3
  <2>2. i - 1 \notin stops
    BY <1>2, <2>1
  <2> QED BY <2>1, <2>2
<1>5. \E k \in 0..Len(s) :
         (\A i \in 1..k : s[i] \in S) /\ (k < Len(s) => s[k + 1] \notin S)
  BY <1>3, <1>4
<1> QED BY <1>5, Zenon DEF Matcher!Leading

\* Draining: the anchors at the front that are due are decided, no other.
LEMMA DrainKeeps ==
    ASSUME NEW m, NEW p, NEW at, Matching(m, p, at), NEW kind
    PROVE  LET d == Matcher!Drain(m, at, kind)
           IN  /\ Matching(d, p, at) /\ Grown(m, d, p)
               /\ d.last = m.last /\ d.overflow = m.overflow
               /\ \A r \in Matcher!Views : d.buffers[r] = m.buffers[r]
               /\ \A i \in 1..Len(Waiting(d)) : \E j \in 1..Len(Waiting(m)) :
                    Waiting(d)[i] = Waiting(m)[j]
               /\ \A i \in (Len(m.out) + 1)..Len(d.out) :
                    d.out[i].anchor \in Matcher!Due(m, at, kind)
               /\ Waiting(d) # <<>> => Waiting(d)[1] \notin Matcher!Due(m, at, kind)
<1>1. /\ m \in Matchers /\ Len(Waiting(m)) \in Nat /\ Len(m.out) \in Nat
  BY MatcherLengths DEF Matching
<1> DEFINE due == Matcher!Due(m, at, kind)
           n == Matcher!Leading(Waiting(m), due)
           d == Matcher!Drain(m, at, kind)
<1>2. /\ n \in 0..Len(Waiting(m)) /\ \A i \in 1..n : Waiting(m)[i] \in due
      /\ n < Len(Waiting(m)) => Waiting(m)[n + 1] \notin due
  <2> HIDE DEF due
  <2> QED BY <1>1, LeadingIs
<1>3. d = Matcher!Decided(m, Waiting(m), n)
  BY DEF Matcher!Drain, Waiting
<1> HIDE DEF due, n, d
<1>4. After(m, d, n, p, at)
  BY <1>2, <1>3, DecidedKeeps
<1>5. ASSUME NEW i \in 1..Len(Waiting(d)) PROVE \E j \in 1..Len(Waiting(m)) : Waiting(d)[i] = Waiting(m)[j]
  <2>1. n + i \in 1..Len(Waiting(m)) /\ i \in 1..(Len(Waiting(m)) - n)
    BY <1>1, <1>2, <1>4 DEF After
  <2> QED BY <1>4, <2>1 DEF After
<1>6. ASSUME NEW i \in (Len(m.out) + 1)..Len(d.out) PROVE d.out[i].anchor \in due
  <2>1. Len(d.out) = Len(m.out) + n
    BY <1>4 DEF After
  <2>2. i - Len(m.out) \in 1..n /\ i - Len(m.out) \in 1..Len(Waiting(m)) /\ i \in 1..Len(d.out)
        /\ Len(m.out) + (i - Len(m.out)) = i
    BY <1>1, <1>2, <2>1
  <2>3. d.out[i].anchor = p[Anchor][i]
    BY <1>4, <2>2 DEF After, Matching, InOrder
  <2>4. Waiting(m)[i - Len(m.out)] = p[Anchor][Len(m.out) + (i - Len(m.out))]
    BY <2>2 DEF Matching, InOrder
  <2>5. Waiting(m)[i - Len(m.out)] \in due
    BY <1>2, <2>2
  <2> QED BY <2>2, <2>3, <2>4, <2>5
<1>7. ASSUME Waiting(d) # <<>> PROVE Waiting(d)[1] \notin due
  <2>1. Waiting(d) \in Seq(MatchedFrames)
    BY <1>4, MatcherLengths DEF After, Matching
  <2>2. Len(Waiting(d)) > 0
    BY <1>7, <2>1
  <2>3. n < Len(Waiting(m)) /\ 1 \in 1..(Len(Waiting(m)) - n)
    BY <1>1, <1>2, <1>4, <2>2 DEF After
  <2>4. Waiting(d)[1] = Waiting(m)[n + 1]
    BY <1>4, <2>3 DEF After
  <2> QED BY <1>2, <2>3, <2>4
<1> QED BY <1>4, <1>5, <1>6, <1>7 DEF After, due, d

-----------------------------------------------------------------------------
(* A push.                                                                  *)

\* No anchor is due once those that are have been decided.
LEMMA AdvanceDecides ==
    ASSUME NEW m, NEW p, NEW at, Matching(m, p, at)
    PROVE  Undecided(Matcher!Drain(m, at, "advance"))
<1> DEFINE d == Matcher!Drain(m, at, "advance")
<1>1. /\ Matching(d, p, at) /\ d.last = m.last
      /\ \A i \in 1..Len(Waiting(d)) : \E j \in 1..Len(Waiting(m)) : Waiting(d)[i] = Waiting(m)[j]
      /\ Waiting(d) # <<>> => Waiting(d)[1] \notin Matcher!Due(m, at, "advance")
  BY DrainKeeps
<1> HIDE DEF d
<1>2. SUFFICES ASSUME NEW i \in 1..Len(Waiting(d))
               PROVE  /\ ~Matcher!Ready(d, Waiting(d)[i])
                      /\ Waiting(d)[i].at < Waiting(d)[i].receipt + MatchWait
  BY DEF Undecided, d
<1>3. /\ d \in Matchers /\ m \in Matchers /\ at \in Int
      /\ Waiting(d) \in Seq(MatchedFrames) /\ Waiting(m) \in Seq(MatchedFrames)
  BY <1>1, MatcherLengths DEF Matching
<1>4. /\ Waiting(d) # <<>> /\ 1 \in 1..Len(Waiting(d)) /\ Waiting(d)[1] \in MatchedFrames
      /\ Waiting(d)[i] \in MatchedFrames
  BY <1>2, <1>3
<1>5. Waiting(d)[1] \in Matcher!ToSet(m.buffers[Anchor])
  <2>1. \E j \in 1..Len(Waiting(m)) : Waiting(d)[1] = Waiting(m)[j]
    BY <1>1, <1>4
  <2> QED BY <1>3, <2>1, SetOf DEF Waiting
<1>6. ~Matcher!Expired(Waiting(d)[1], at, "advance") /\ ~Matcher!Ready(m, Waiting(d)[1])
  BY <1>1, <1>4, <1>5 DEF Matcher!Due
<1>7. ~(at >= Waiting(d)[1].receipt + MatchWait)
  BY <1>6 DEF Matcher!Expired
<1>8. /\ Waiting(d)[1].t <= Waiting(d)[i].t /\ Waiting(d)[1].receipt <= Waiting(d)[i].receipt
      /\ Waiting(d)[i].at <= at
  <2>1. CASE i = 1
    BY <1>1, <1>2, <1>4, <2>1, RolesAre DEF Matching, Ascending
  <2>2. CASE i # 1
    <3>1. 1 < i
      BY <1>2, <1>3, <2>2
    <3>2. /\ Waiting(d)[1].t < Waiting(d)[i].t /\ Waiting(d)[1].receipt <= Waiting(d)[i].receipt
          /\ Waiting(d)[i].at <= at
      BY <1>1, <1>2, <1>4, <3>1 DEF Matching, Ascending
    <3> QED BY <1>4, <3>2, RolesAre
  <2> QED BY <2>1, <2>2
<1>9. Waiting(d)[i].at < Waiting(d)[i].receipt + MatchWait
  <2>1. /\ Waiting(d)[1].receipt \in Int /\ Waiting(d)[i].receipt \in Int
        /\ Waiting(d)[i].at \in Int /\ MatchWait \in Int
    BY <1>4, FrameFields
  <2> QED BY <1>3, <1>7, <1>8, <2>1
<1>10. ~Matcher!Ready(d, Waiting(d)[i])
  <2>1. PICK r \in Matcher!Views : ~(m.last[r] # Nothing /\ m.last[r].t >= Waiting(d)[1].t)
    BY <1>6 DEF Matcher!Ready
  <2>2. m.last[r] \in Found
    BY <1>3, RolesAre DEF Matchers
  <2>3. /\ Waiting(d)[1].t \in Int /\ Waiting(d)[i].t \in Int
        /\ m.last[r] # Nothing => m.last[r].t \in Int
    BY <1>4, <2>2, FrameFields DEF Found
  <2>4. ~(m.last[r] # Nothing /\ m.last[r].t >= Waiting(d)[i].t)
    BY <1>8, <2>1, <2>3
  <2> QED BY <1>1, <2>4 DEF Matcher!Ready
<1> QED BY <1>9, <1>10

LEMMA FinishDecides ==
    ASSUME NEW m, NEW p, NEW at, Matching(m, p, at)
    PROVE  Waiting(Matcher!Drain(m, at, "finish")) = <<>>
<1> DEFINE d == Matcher!Drain(m, at, "finish")
<1>1. /\ Matching(d, p, at)
      /\ \A i \in 1..Len(Waiting(d)) : \E j \in 1..Len(Waiting(m)) : Waiting(d)[i] = Waiting(m)[j]
      /\ Waiting(d) # <<>> => Waiting(d)[1] \notin Matcher!Due(m, at, "finish")
  BY DrainKeeps
<1> HIDE DEF d
<1>2. Waiting(d) \in Seq(MatchedFrames) /\ Waiting(m) \in Seq(MatchedFrames)
  BY <1>1, MatcherLengths DEF Matching
<1>3. SUFFICES ASSUME Waiting(d) # <<>> PROVE FALSE
  BY DEF d
<1>4. 1 \in 1..Len(Waiting(d))
  BY <1>2, <1>3
<1>5. PICK j \in 1..Len(Waiting(m)) : Waiting(d)[1] = Waiting(m)[j]
  BY <1>1, <1>4
<1>6. Waiting(m)[j] \in Matcher!ToSet(m.buffers[Anchor])
  BY <1>2, SetOf DEF Waiting
<1> QED BY <1>1, <1>3, <1>5, <1>6 DEF Matcher!Due

\* A frame that comes finds the anchors decided whose deadline is past.
LEMMA PushDecides ==
    ASSUME NEW m, NEW p, NEW at, Matching(m, p, at), Undecided(m)
    PROVE  LET d == Matcher!Drain(m, at, "push")
           IN  /\ \A i \in 1..Len(Waiting(d)) : at <= Waiting(d)[i].receipt + MatchWait
               /\ \A i \in (Len(m.out) + 1)..Len(d.out) :
                    ~(at <= d.out[i].anchor.receipt + MatchWait) /\ ~(at <= d.out[i].anchor.at)
<1> DEFINE d == Matcher!Drain(m, at, "push")
<1>1. /\ Matching(d, p, at)
      /\ \A i \in 1..Len(Waiting(d)) : \E j \in 1..Len(Waiting(m)) : Waiting(d)[i] = Waiting(m)[j]
      /\ \A i \in (Len(m.out) + 1)..Len(d.out) : d.out[i].anchor \in Matcher!Due(m, at, "push")
      /\ Waiting(d) # <<>> => Waiting(d)[1] \notin Matcher!Due(m, at, "push")
  BY DrainKeeps
<1> HIDE DEF d
<1>2. /\ d \in Matchers /\ m \in Matchers /\ at \in Int
      /\ Waiting(d) \in Seq(MatchedFrames) /\ Waiting(m) \in Seq(MatchedFrames)
  BY <1>1, MatcherLengths DEF Matching
<1>3. ASSUME NEW i \in 1..Len(Waiting(d)) PROVE at <= Waiting(d)[i].receipt + MatchWait
  <2>1. /\ Waiting(d) # <<>> /\ 1 \in 1..Len(Waiting(d)) /\ Waiting(d)[1] \in MatchedFrames
        /\ Waiting(d)[i] \in MatchedFrames
    BY <1>2, <1>3
  <2>2. Waiting(d)[1] \in Matcher!ToSet(m.buffers[Anchor])
    <3>1. \E j \in 1..Len(Waiting(m)) : Waiting(d)[1] = Waiting(m)[j]
      BY <1>1, <2>1
    <3> QED BY <1>2, <3>1, SetOf DEF Waiting
  <2>3. ~Matcher!Expired(Waiting(d)[1], at, "push")
    BY <1>1, <2>1, <2>2 DEF Matcher!Due
  <2>4. ~(at > Waiting(d)[1].receipt + MatchWait)
    BY <2>3 DEF Matcher!Expired
  <2>5. Waiting(d)[1].receipt <= Waiting(d)[i].receipt
    <3>1. CASE i = 1
      BY <2>1, <3>1, RolesAre
    <3>2. CASE i # 1
      <4>1. 1 < i
        BY <1>2, <1>3, <3>2
      <4> QED BY <1>1, <1>3, <2>1, <4>1 DEF Matching, Ascending
    <3> QED BY <3>1, <3>2
  <2>6. /\ Waiting(d)[1].receipt \in Int /\ Waiting(d)[i].receipt \in Int
        /\ MatchWait \in Int
    BY <2>1, FrameFields
  <2> QED BY <1>2, <2>4, <2>5, <2>6
<1>4. ASSUME NEW i \in (Len(m.out) + 1)..Len(d.out)
      PROVE  ~(at <= d.out[i].anchor.receipt + MatchWait) /\ ~(at <= d.out[i].anchor.at)
  <2> DEFINE a == d.out[i].anchor
  <2>1. a \in Matcher!ToSet(m.buffers[Anchor])
        /\ (Matcher!Expired(a, at, "push") \/ Matcher!Ready(m, a))
    BY <1>1 DEF Matcher!Due
  <2>2. PICK j \in 1..Len(Waiting(m)) : a = Waiting(m)[j]
    BY <1>2, <2>1, SetOf DEF Waiting
  <2> HIDE DEF a
  <2>3. ~Matcher!Ready(m, a) /\ a.at < a.receipt + MatchWait /\ a \in MatchedFrames
    BY <1>2, <2>2 DEF Undecided
  <2>4. at > a.receipt + MatchWait
    BY <2>1, <2>3 DEF Matcher!Expired
  <2>5. a.receipt \in Int /\ a.at \in Int /\ MatchWait \in Int
    BY <2>3, FrameFields
  <2>6. ~(at <= a.receipt + MatchWait) /\ ~(at <= a.at)
    BY <1>2, <2>3, <2>4, <2>5
  <2> QED BY <2>6 DEF a
<1> QED BY <1>3, <1>4 DEF d

\* A frame that came too late for a decision makes no difference to it.
LEMMA LateFrame ==
    ASSUME NEW o, NEW p, NEW q, NEW i, NEW f,
           \A r \in Matcher!Views :
               \/ Matcher!ToSet(q[r]) = Matcher!ToSet(p[r])
               \/ Matcher!ToSet(q[r]) = Matcher!ToSet(p[r]) \cup {f},
           ~(f.at <= o[i].anchor.receipt + MatchWait), ~(f.at <= o[i].anchor.at)
    PROVE  Exact(o, q, i) <=> Exact(o, p, i)
<1>1. ASSUME NEW r \in Matcher!Views PROVE ChoiceOf(o, q, i, r) = ChoiceOf(o, p, i, r)
  <2>1. CASE Matcher!ToSet(q[r]) = Matcher!ToSet(p[r])
    BY <2>1 DEF ChoiceOf
  <2>2. CASE Matcher!ToSet(q[r]) = Matcher!ToSet(p[r]) \cup {f}
    BY <2>2 DEF ChoiceOf
  <2> QED BY <2>1, <2>2
<1> QED BY <1>1 DEF Exact

\* A frame follows the last of its role; it fits when it is that last one.
Follows(m, f) ==
    f.role = Anchor /\ m.last[Anchor] # Nothing =>
        m.last[Anchor].t < f.t /\ m.last[Anchor].receipt <= f.receipt

Fits(m, f, at) ==
    /\ f \in MatchedFrames /\ f.at = at /\ m.last[f.role] = f
    /\ \A i \in 1..Len(Waiting(m)) :
         /\ f.role = Anchor => Waiting(m)[i].t < f.t /\ Waiting(m)[i].receipt <= f.receipt
         /\ f.role # Anchor => at <= Waiting(m)[i].receipt + MatchWait

LEMMA LastKeeps ==
    ASSUME NEW m, NEW p, NEW at, Matching(m, p, at),
           NEW f \in MatchedFrames, f.at = at, Follows(m, f),
           \A i \in 1..Len(Waiting(m)) : at <= Waiting(m)[i].receipt + MatchWait
    PROVE  LET d == [m EXCEPT !.last[f.role] = f]
           IN  /\ Matching(d, p, at) /\ Fits(d, f, at)
               /\ d.out = m.out /\ d.overflow = m.overflow
<1> DEFINE d == [m EXCEPT !.last[f.role] = f]
<1>1. m \in Matchers /\ f.role \in Matcher!Roles
  BY RolesAre DEF Matching
<1>2. /\ d.buffers = m.buffers /\ d.used = m.used /\ d.out = m.out /\ d.overflow = m.overflow
      /\ d.last = [m.last EXCEPT ![f.role] = f] /\ Waiting(d) = Waiting(m)
  BY <1>1 DEF Matchers, Waiting
<1>3. d \in Matchers
  BY <1>1 DEF Matchers, Found
<1>4. d.last[f.role] = f
  BY <1>1, <1>2 DEF Matchers
<1> HIDE DEF d
<1>5. /\ Waiting(m) \in Seq(MatchedFrames) /\ m.last[Anchor] \in Found
      /\ d.last[Anchor] \in Found /\ Anchor \in Matcher!Roles
  BY <1>1, <1>3, MatcherLengths, RolesAre DEF Matchers
<1>6. m.last[Anchor] # Nothing =>
        /\ m.last[Anchor] \in MatchedFrames /\ d.last[Anchor] \in MatchedFrames
        /\ d.last[Anchor] # Nothing
        /\ m.last[Anchor].t <= d.last[Anchor].t /\ m.last[Anchor].receipt <= d.last[Anchor].receipt
        /\ f.role = Anchor => m.last[Anchor].t < f.t /\ m.last[Anchor].receipt <= f.receipt
  <2>1. CASE f.role = Anchor
    <3>1. d.last[Anchor] = f /\ f # Nothing
      BY <1>4, <2>1, FrameFields
    <3>2. m.last[Anchor] # Nothing => m.last[Anchor] \in MatchedFrames
      BY <1>5 DEF Found
    <3>3. m.last[Anchor] # Nothing => m.last[Anchor].t < f.t /\ m.last[Anchor].receipt <= f.receipt
      BY <2>1 DEF Follows
    <3>4. m.last[Anchor] # Nothing => m.last[Anchor].t \in Int /\ f.t \in Int
      BY <3>2, FrameFields
    <3>5. m.last[Anchor] # Nothing => m.last[Anchor].t <= f.t
      BY <3>3, <3>4
    <3> QED BY <3>1, <3>2, <3>3, <3>5
  <2>2. CASE f.role # Anchor
    <3>1. d.last[Anchor] = m.last[Anchor]
      BY <1>1, <1>2, <1>5, <2>2 DEF Matchers
    <3>2. m.last[Anchor] # Nothing =>
            /\ m.last[Anchor] \in MatchedFrames
            /\ m.last[Anchor].t \in Int /\ m.last[Anchor].receipt \in Int
      BY <1>5, FrameFields DEF Found
    <3> QED BY <2>2, <3>1, <3>2
  <2> QED BY <2>1, <2>2
<1>7. \A i \in 1..Len(Waiting(m)) :
        /\ m.last[Anchor] # Nothing
        /\ Waiting(m)[i] \in MatchedFrames
        /\ Waiting(m)[i].t <= m.last[Anchor].t
        /\ Waiting(m)[i].receipt <= m.last[Anchor].receipt
        /\ Waiting(m)[i].at <= at
  BY <1>5 DEF Matching, Ascending
<1>8. Ascending(d, at)
  <2>1. \A i, j \in 1..Len(Waiting(d)) : i < j =>
          Waiting(d)[i].t < Waiting(d)[j].t /\ Waiting(d)[i].receipt <= Waiting(d)[j].receipt
    BY <1>2 DEF Matching, Ascending
  <2>2. ASSUME NEW i \in 1..Len(Waiting(d))
        PROVE  /\ d.last[Anchor] # Nothing /\ Waiting(d)[i].t <= d.last[Anchor].t
               /\ Waiting(d)[i].receipt <= d.last[Anchor].receipt /\ Waiting(d)[i].at <= at
    <3>1. i \in 1..Len(Waiting(m)) /\ Waiting(d)[i] = Waiting(m)[i]
      BY <1>2
    <3>2. /\ d.last[Anchor] # Nothing /\ Waiting(m)[i].at <= at
          /\ Waiting(m)[i].t <= m.last[Anchor].t /\ m.last[Anchor].t <= d.last[Anchor].t
          /\ Waiting(m)[i].receipt <= m.last[Anchor].receipt
          /\ m.last[Anchor].receipt <= d.last[Anchor].receipt
          /\ Waiting(m)[i] \in MatchedFrames /\ m.last[Anchor] \in MatchedFrames
          /\ d.last[Anchor] \in MatchedFrames
      BY <1>6, <1>7, <3>1
    <3>3. /\ Waiting(m)[i].t \in Int /\ m.last[Anchor].t \in Int /\ d.last[Anchor].t \in Int
          /\ Waiting(m)[i].receipt \in Int /\ m.last[Anchor].receipt \in Int
          /\ d.last[Anchor].receipt \in Int
      BY <3>2, FrameFields
    <3> QED BY <3>1, <3>2, <3>3
  <2> QED BY <2>1, <2>2 DEF Ascending
<1>9. Buffered(d, p, at)
  <2>1. ASSUME NEW g \in MatchedFrames, TooOld(m, g) PROVE TooOld(d, g)
    <3>1. /\ m.last[Anchor] # Nothing /\ g.t < m.last[Anchor].t - Skew
          /\ \A i \in 1..Len(Waiting(d)) : g.t < Waiting(d)[i].t - Skew
      BY <1>2, <2>1 DEF TooOld
    <3>2. g.t \in Int /\ m.last[Anchor].t \in Int /\ d.last[Anchor].t \in Int /\ Skew \in Int
      BY <1>6, <3>1, FrameFields
    <3>3. g.t < d.last[Anchor].t - Skew /\ d.last[Anchor] # Nothing
      BY <1>6, <3>1, <3>2
    <3> QED BY <3>1, <3>3 DEF TooOld
  <2>2. \A r \in Matcher!Views : Matcher!ToSet(p[r]) \subseteq MatchedFrames
    BY RolesAre, SetOf DEF Matching, Histories
  <2> QED BY <1>2, <2>1, <2>2 DEF Buffered, Matching
<1>10. InOrder(d, p) /\ InTime(d) /\ UsedLast(d)
  BY <1>2 DEF InOrder, InTime, UsedLast, Matching
<1>11. Fits(d, f, at)
  <2>1. \A i \in 1..Len(Waiting(m)) :
          f.role = Anchor => Waiting(m)[i].t < f.t /\ Waiting(m)[i].receipt <= f.receipt
    <3> SUFFICES ASSUME NEW i \in 1..Len(Waiting(m)), f.role = Anchor
                 PROVE  Waiting(m)[i].t < f.t /\ Waiting(m)[i].receipt <= f.receipt
      OBVIOUS
    <3>1. /\ Waiting(m)[i].t <= m.last[Anchor].t /\ m.last[Anchor].t < f.t
          /\ Waiting(m)[i].receipt <= m.last[Anchor].receipt
          /\ m.last[Anchor].receipt <= f.receipt
          /\ m.last[Anchor] \in MatchedFrames /\ Waiting(m)[i] \in MatchedFrames
      BY <1>6, <1>7
    <3>2. /\ Waiting(m)[i].t \in Int /\ m.last[Anchor].t \in Int /\ f.t \in Int
          /\ Waiting(m)[i].receipt \in Int /\ m.last[Anchor].receipt \in Int /\ f.receipt \in Int
      BY <3>1, FrameFields
    <3> QED BY <3>1, <3>2
  <2> QED BY <1>2, <1>4, <2>1 DEF Fits
<1> QED BY <1>2, <1>3, <1>8, <1>9, <1>10, <1>11 DEF Matching, d

LEMMA RecentIs ==
    ASSUME NEW s \in Seq(MatchedFrames), NEW e
    PROVE  /\ Matcher!Recent(s, e) \in Seq(MatchedFrames)
           /\ Len(Matcher!Recent(s, e)) <= Len(s)
           /\ Matcher!ToSet(Matcher!Recent(s, e)) \subseteq Matcher!ToSet(s)
           /\ \A f \in Matcher!ToSet(s) \ Matcher!ToSet(Matcher!Recent(s, e)) : f.t < e
<1> DEFINE old == {f \in Matcher!ToSet(s) : f.t < e}
           n == Matcher!Leading(s, old)
           u == Matcher!Recent(s, e)
<1>1. n \in 0..Len(s) /\ \A i \in 1..n : s[i] \in old
  <2> HIDE DEF old
  <2> QED BY LeadingIs
<1>2. u = SubSeq(s, n + 1, Len(s))
  BY DEF Matcher!Recent
<1> HIDE DEF n, u
<1>3. /\ u \in Seq(MatchedFrames) /\ Len(u) = Len(s) - n
      /\ \A i \in 1..(Len(s) - n) : u[i] = s[n + i]
  BY <1>1, <1>2
<1>4. Matcher!ToSet(u) \subseteq Matcher!ToSet(s)
  <2>1. ASSUME NEW f \in Matcher!ToSet(u) PROVE f \in Matcher!ToSet(s)
    <3>1. PICK i \in 1..(Len(s) - n) : f = s[n + i]
      BY <1>3, SetOf
    <3>2. n + i \in 1..Len(s)
      BY <1>1
    <3> QED BY <3>1, <3>2, SetOf
  <2> QED BY <2>1
<1>5. ASSUME NEW f \in Matcher!ToSet(s) \ Matcher!ToSet(u) PROVE f.t < e
  <2>1. PICK i \in 1..Len(s) : f = s[i]
    BY SetOf
  <2>2. CASE i \in 1..n
    BY <1>1, <2>1, <2>2
  <2>3. CASE i \in (n + 1)..Len(s)
    <3>1. i - n \in 1..(Len(s) - n) /\ n + (i - n) = i
      BY <1>1, <2>3
    <3>2. u[i - n] = f /\ i - n \in 1..Len(u)
      BY <1>3, <2>1, <3>1
    <3> QED BY <1>3, <3>2, SetOf
  <2> QED BY <1>1, <2>2, <2>3
<1> QED BY <1>1, <1>3, <1>4, <1>5 DEF u

\* What pruning removes is too old for what waits and for what comes.
LEMMA PruneKeeps ==
    ASSUME NEW m, NEW p, NEW at, Matching(m, p, at)
    PROVE  LET d == Matcher!Prune(m)
           IN  /\ Matching(d, p, at) /\ Waiting(d) = Waiting(m)
               /\ d.last = m.last /\ d.out = m.out /\ d.overflow = m.overflow
<1> DEFINE d == Matcher!Prune(m)
           a == IF Waiting(m) # <<>> THEN Waiting(m)[1] ELSE m.last[Anchor]
           e == Matcher!Earliest(a)
<1>1. /\ m \in Matchers /\ Waiting(m) \in Seq(MatchedFrames) /\ m.last[Anchor] \in Found
      /\ Anchor \in Matcher!Roles
  BY MatcherLengths, RolesAre DEF Matching, Matchers
<1>2. CASE a = Nothing
  <2>1. d = m
    BY <1>2 DEF Matcher!Prune, Waiting
  <2> QED BY <2>1
<1>3. CASE a # Nothing
  <2>1. d = [m EXCEPT !.buffers = [r \in Matcher!Roles |->
                 IF r = Anchor THEN @[r] ELSE Matcher!Recent(@[r], e)]]
    BY <1>3 DEF Matcher!Prune, Waiting
  <2>2. a \in MatchedFrames /\ e = a.t - Skew
    BY <1>1, <1>3 DEF Found, Matcher!Earliest
  <2> HIDE DEF d, e
  <2>3. /\ d.buffers = [r \in Matcher!Roles |->
                           IF r = Anchor THEN m.buffers[r] ELSE Matcher!Recent(m.buffers[r], e)]
        /\ d.last = m.last /\ d.used = m.used /\ d.out = m.out /\ d.overflow = m.overflow
    BY <1>1, <2>1 DEF Matchers
  <2>4. Waiting(d) = Waiting(m)
    BY <1>1, <2>3 DEF Waiting
  <2>5. ASSUME NEW r \in Matcher!Views
        PROVE  /\ d.buffers[r] \in Seq(MatchedFrames)
               /\ Matcher!ToSet(d.buffers[r]) \subseteq Matcher!ToSet(m.buffers[r])
               /\ \A f \in Matcher!ToSet(m.buffers[r]) \ Matcher!ToSet(d.buffers[r]) : f.t < e
    <3>1. r \in Matcher!Roles /\ r # Anchor /\ m.buffers[r] \in Seq(MatchedFrames)
      BY <1>1, RolesAre DEF Matchers
    <3>2. d.buffers[r] = Matcher!Recent(m.buffers[r], e)
      BY <2>3, <3>1
    <3> QED BY <3>1, <3>2, RecentIs
  <2>6. d \in Matchers
    <3>1. d.buffers \in [Matcher!Roles -> Seq(MatchedFrames)]
      <4>1. ASSUME NEW r \in Matcher!Roles PROVE d.buffers[r] \in Seq(MatchedFrames)
        BY <1>1, <2>4, <2>5, RolesAre DEF Waiting
      <4> QED BY <2>3, <4>1
    <3>2. d = [buffers |-> d.buffers, last |-> m.last, used |-> m.used,
               overflow |-> m.overflow, out |-> m.out]
      BY <1>1, <2>1, <2>3 DEF Matchers
    <3> QED BY <1>1, <3>1, <3>2 DEF Matchers
  <2>7. ASSUME NEW f \in MatchedFrames, f.t < e PROVE TooOld(m, f)
    <3>1. /\ f.t \in Int /\ a.t \in Int /\ Skew \in Int /\ f.t < a.t - Skew
      BY <2>2, <2>7, FrameFields
    <3>2. CASE Waiting(m) = <<>>
      BY <1>3, <3>1, <3>2 DEF TooOld
    <3>3. CASE Waiting(m) # <<>>
      <4>1. a = Waiting(m)[1] /\ 1 \in 1..Len(Waiting(m))
        BY <1>1, <3>3
      <4> HIDE DEF a
      <4>2. /\ m.last[Anchor] # Nothing /\ m.last[Anchor].t \in Int /\ a.t <= m.last[Anchor].t
        BY <1>1, <4>1, FrameFields DEF Matching, Ascending, Found
      <4>3. ASSUME NEW i \in 1..Len(Waiting(m)) PROVE f.t < Waiting(m)[i].t - Skew
        <5>1. Waiting(m)[i].t \in Int
          BY <1>1, FrameFields
        <5>2. CASE i = 1
          BY <3>1, <4>1, <5>2
        <5>3. CASE i # 1
          <6>1. a.t < Waiting(m)[i].t
            BY <1>1, <4>1, <5>3 DEF Matching, Ascending
          <6> QED BY <3>1, <5>1, <6>1
        <5> QED BY <5>2, <5>3
      <4>4. f.t < m.last[Anchor].t - Skew
        BY <3>1, <4>2
      <4> QED BY <4>2, <4>3, <4>4 DEF TooOld
    <3> QED BY <3>2, <3>3
  <2>8. Buffered(d, p, at)
    <3>1. \A f : TooOld(m, f) => TooOld(d, f)
      BY <2>3, <2>4 DEF TooOld
    <3>2. ASSUME NEW r \in Matcher!Views
          PROVE  /\ Matcher!ToSet(d.buffers[r]) \subseteq Matcher!ToSet(p[r])
                 /\ r \notin d.overflow =>
                      \A f \in Matcher!ToSet(p[r]) \ Matcher!ToSet(d.buffers[r]) : TooOld(d, f)
                 /\ \A f \in Matcher!ToSet(p[r]) : f.at <= at
      <4>1. /\ Matcher!ToSet(m.buffers[r]) \subseteq Matcher!ToSet(p[r])
            /\ \A f \in Matcher!ToSet(p[r]) : f.at <= at
            /\ r \notin d.overflow =>
                 \A f \in Matcher!ToSet(p[r]) \ Matcher!ToSet(m.buffers[r]) : TooOld(d, f)
        BY <2>3, <3>1 DEF Matching, Buffered
      <4>2. \A f \in Matcher!ToSet(m.buffers[r]) \ Matcher!ToSet(d.buffers[r]) : TooOld(d, f)
        <5>1. Matcher!ToSet(m.buffers[r]) \subseteq MatchedFrames
          BY <1>1, RolesAre, SetOf DEF Matchers
        <5> QED BY <2>5, <2>7, <3>1, <5>1
      <4> QED BY <2>5, <4>1, <4>2
    <3> QED BY <3>2 DEF Buffered
  <2>9. InTime(d)
    <3>1. InTime(m)
      BY DEF Matching
    <3> QED BY <2>4, <2>5, <3>1 DEF InTime
  <2>10. InOrder(d, p) /\ Ascending(d, at) /\ UsedLast(d)
    BY <2>3, <2>4 DEF InOrder, Ascending, UsedLast, Matching
  <2> QED BY <2>3, <2>4, <2>6, <2>8, <2>9, <2>10 DEF Matching, d
<1> QED BY <1>2, <1>3

\* Room: the first anchor is decided, or the first frame of a view is lost.
LEMMA MakeRoomKeeps ==
    ASSUME NEW m, NEW p, NEW at, Matching(m, p, at), NEW r \in Matcher!Roles, NEW q
    PROVE  LET d == Matcher!MakeRoom(m, r)
           IN  /\ Matching(d, p, at) /\ Grown(m, d, q) /\ d.last = m.last
               /\ \A i \in 1..Len(Waiting(d)) : \E j \in 1..Len(Waiting(m)) :
                    Waiting(d)[i] = Waiting(m)[j]
<1> DEFINE d == Matcher!MakeRoom(m, r)
<1>1. /\ m \in Matchers /\ Waiting(m) \in Seq(MatchedFrames) /\ m.buffers[r] \in Seq(MatchedFrames)
      /\ m.out \in Seq(Results) /\ Anchor \in Matcher!Roles
  BY MatcherLengths, RolesAre DEF Matching, Matchers
<1>2. CASE Len(m.buffers[r]) # MatchCapacity
  <2>1. d = m
    BY <1>2 DEF Matcher!MakeRoom
  <2> QED BY <1>1, <2>1, GrownSame
<1>3. CASE Len(m.buffers[r]) = MatchCapacity
  <2> DEFINE result == [anchor |-> Head(Waiting(m)), reason |-> "overflow", members |-> Nothing]
  <2>1. /\ d = [m EXCEPT !.buffers[r] = Tail(@), !.overflow = @ \cup {r},
                         !.out = IF r = Anchor THEN Append(@, result) ELSE @]
        /\ m.buffers[r] # <<>>
    <3>1. Len(m.buffers[r]) > 0
      BY <1>3, MatcherAssumption
    <3> QED BY <1>1, <1>3, <3>1 DEF Matcher!MakeRoom, Matcher!Evict, Matcher!Result, Waiting
  <2> HIDE DEF d, result
  <2>2. /\ d.buffers = [m.buffers EXCEPT ![r] = Tail(m.buffers[r])]
        /\ d.last = m.last /\ d.used = m.used /\ d.overflow = m.overflow \cup {r}
        /\ d.out = IF r = Anchor THEN Append(m.out, result) ELSE m.out
    BY <1>1, <2>1 DEF Matchers
  <2>3. /\ Tail(m.buffers[r]) \in Seq(MatchedFrames)
        /\ Matcher!ToSet(Tail(m.buffers[r])) \subseteq Matcher!ToSet(m.buffers[r])
    <3>1. /\ Tail(m.buffers[r]) \in Seq(MatchedFrames)
          /\ \A i \in 1..Len(Tail(m.buffers[r])) :
               /\ i + 1 \in 1..Len(m.buffers[r])
               /\ Tail(m.buffers[r])[i] = m.buffers[r][i + 1]
      BY <1>1, <2>1
    <3>2. ASSUME NEW f \in Matcher!ToSet(Tail(m.buffers[r])) PROVE f \in Matcher!ToSet(m.buffers[r])
      <4>1. PICK i \in 1..Len(Tail(m.buffers[r])) : f = Tail(m.buffers[r])[i]
        BY <3>1, SetOf
      <4> QED BY <1>1, <3>1, <4>1, SetOf
    <3> QED BY <3>1, <3>2
  <2>4. CASE r = Anchor
    <3>1. /\ Waiting(m) # <<>> /\ Waiting(d) = Tail(Waiting(m))
          /\ \A v \in Matcher!Views : d.buffers[v] = m.buffers[v]
      BY <1>1, <2>1, <2>2, <2>4, RolesAre DEF Waiting, Matchers
    <3>2. /\ result \in Results /\ result.anchor = Waiting(m)[1] /\ result.reason = "overflow"
      BY <1>1, <3>1 DEF result, Results, Reasons
    <3>3. d \in Matchers
      <4>1. d.buffers \in [Matcher!Roles -> Seq(MatchedFrames)]
        BY <1>1, <2>2, <2>3 DEF Matchers
      <4>2. d.out \in Seq(Results) /\ d.overflow \in SUBSET Matcher!Roles
        BY <1>1, <2>2, <2>4, <3>2 DEF Matchers
      <4>3. d = [buffers |-> d.buffers, last |-> m.last, used |-> m.used,
                 overflow |-> d.overflow, out |-> d.out]
        BY <1>1, <2>1, <2>2 DEF Matchers
      <4> QED BY <1>1, <4>1, <4>2, <4>3 DEF Matchers
    <3>4. d.out = Append(m.out, result)
      BY <2>2, <2>4
    <3>5. Leaves(m, d, result)
      BY <2>2, <3>1, <3>2, <3>3, <3>4 DEF Leaves
    <3>6. Matching(d, p, at)
      BY <3>1, <3>5, AnchorLeaves
    <3>7. Grown(m, d, q)
      <4>1. /\ Len(d.out) = Len(m.out) + 1 /\ Len(m.out) \in Nat
            /\ \A i \in 1..Len(m.out) : d.out[i] = m.out[i]
            /\ d.out[Len(m.out) + 1] = result
        BY <1>1, <3>4
      <4>2. \A i \in (Len(m.out) + 1)..Len(d.out) : i = Len(m.out) + 1
        BY <4>1
      <4>3. Exact(d.out, q, Len(m.out) + 1)
        BY <3>2, <4>1 DEF Exact
      <4> QED BY <2>2, <4>1, <4>2, <4>3 DEF Grown
    <3>8. ASSUME NEW i \in 1..Len(Waiting(d))
          PROVE  i + 1 \in 1..Len(Waiting(m)) /\ Waiting(d)[i] = Waiting(m)[i + 1]
      BY <1>1, <3>1
    <3> QED BY <2>2, <3>6, <3>7, <3>8 DEF d
  <2>5. CASE r # Anchor
    <3>1. /\ Waiting(d) = Waiting(m) /\ r \in Matcher!Views
          /\ \A v \in Matcher!Views : v # r => d.buffers[v] = m.buffers[v]
          /\ d.buffers[r] = Tail(m.buffers[r]) /\ d.out = m.out
      BY <1>1, <2>2, <2>5, RolesAre DEF Waiting, Matchers
    <3>2. d \in Matchers
      <4>1. d.buffers \in [Matcher!Roles -> Seq(MatchedFrames)]
        BY <1>1, <2>2, <2>3 DEF Matchers
      <4>2. d.overflow \in SUBSET Matcher!Roles
        BY <1>1, <2>2 DEF Matchers
      <4>3. d = [buffers |-> d.buffers, last |-> m.last, used |-> m.used,
                 overflow |-> d.overflow, out |-> m.out]
        BY <1>1, <2>1, <2>2, <3>1 DEF Matchers
      <4> QED BY <1>1, <4>1, <4>2, <4>3 DEF Matchers
    <3>3. \A v \in Matcher!Views : Matcher!ToSet(d.buffers[v]) \subseteq Matcher!ToSet(m.buffers[v])
      BY <2>3, <3>1
    <3>4. Buffered(d, p, at)
      <4>1. \A f : TooOld(m, f) => TooOld(d, f)
        BY <2>2, <3>1 DEF TooOld
      <4>2. Buffered(m, p, at)
        BY DEF Matching
      <4> QED BY <2>2, <3>1, <3>3, <4>1, <4>2 DEF Buffered
    <3>5. InTime(d)
      <4>1. InTime(m)
        BY DEF Matching
      <4> QED BY <3>1, <3>3, <4>1 DEF InTime
    <3>6. InOrder(d, p) /\ Ascending(d, at) /\ UsedLast(d)
      BY <2>2, <3>1 DEF InOrder, Ascending, UsedLast, Matching
    <3>7. Grown(m, d, q)
      BY <1>1, <2>2, <3>1, GrownSame
    <3> QED BY <2>2, <3>1, <3>2, <3>4, <3>5, <3>6, <3>7 DEF Matching, d
  <2> QED BY <2>4, <2>5
<1> QED BY <1>2, <1>3

LEMMA Appended ==
    ASSUME NEW s \in Seq(MatchedFrames), NEW f \in MatchedFrames
    PROVE  Matcher!ToSet(Append(s, f)) = Matcher!ToSet(s) \cup {f}
<1>1. /\ Append(s, f) \in Seq(MatchedFrames) /\ Len(Append(s, f)) = Len(s) + 1 /\ Len(s) \in Nat
      /\ \A i \in 1..Len(s) : Append(s, f)[i] = s[i]
      /\ Append(s, f)[Len(s) + 1] = f
  OBVIOUS
<1>2. Matcher!ToSet(Append(s, f)) = {Append(s, f)[i] : i \in 1..(Len(s) + 1)}
      /\ Matcher!ToSet(s) = {s[i] : i \in 1..Len(s)}
  BY <1>1, SetOf
<1>3. ASSUME NEW g \in Matcher!ToSet(Append(s, f)) PROVE g \in Matcher!ToSet(s) \cup {f}
  <2>1. PICK i \in 1..(Len(s) + 1) : g = Append(s, f)[i]
    BY <1>2
  <2>2. i \in 1..Len(s) \/ i = Len(s) + 1
    BY <1>1
  <2> QED BY <1>1, <1>2, <2>1, <2>2
<1>4. ASSUME NEW g \in Matcher!ToSet(s) \cup {f} PROVE g \in Matcher!ToSet(Append(s, f))
  <2>1. CASE g = f
    <3>1. Len(s) + 1 \in 1..(Len(s) + 1)
      BY <1>1
    <3> QED BY <1>1, <1>2, <2>1, <3>1
  <2>2. CASE g \in Matcher!ToSet(s)
    <3>1. PICK i \in 1..Len(s) : g = s[i]
      BY <1>2, <2>2
    <3>2. i \in 1..(Len(s) + 1)
      BY <1>1
    <3> QED BY <1>1, <1>2, <3>1, <3>2
  <2> QED BY <2>1, <2>2
<1> QED BY <1>3, <1>4

\* The frame goes into the buffer of its role.
LEMMA AppendKeeps ==
    ASSUME NEW m, NEW p, NEW at, Matching(m, p, at), NEW f, Fits(m, f, at)
    PROVE  Matching([m EXCEPT !.buffers[f.role] = Append(@, f)],
                    [p EXCEPT ![f.role] = Append(@, f)], at)
<1> DEFINE d == [m EXCEPT !.buffers[f.role] = Append(@, f)]
           q == [p EXCEPT ![f.role] = Append(@, f)]
<1>1. /\ m \in Matchers /\ p \in Histories /\ at \in Int /\ Anchor \in Matcher!Roles
      /\ f \in MatchedFrames /\ f.role \in Matcher!Roles /\ f.at = at
  BY RolesAre DEF Matching, Fits
<1>2. /\ \A r \in Matcher!Roles : m.buffers[r] \in Seq(MatchedFrames) /\ p[r] \in Seq(MatchedFrames)
      /\ Waiting(m) \in Seq(MatchedFrames)
  BY <1>1, MatcherLengths DEF Matchers, Histories
<1>3. /\ d.buffers = [m.buffers EXCEPT ![f.role] = Append(m.buffers[f.role], f)]
      /\ d.last = m.last /\ d.used = m.used /\ d.out = m.out /\ d.overflow = m.overflow
  BY <1>1 DEF Matchers
<1>4. d \in Matchers
  <2>1. d.buffers \in [Matcher!Roles -> Seq(MatchedFrames)]
    BY <1>1, <1>2, <1>3 DEF Matchers
  <2>2. d = [m EXCEPT !.buffers[f.role] = Append(@, f)]
    OBVIOUS
  <2> HIDE DEF d
  <2>3. d = [buffers |-> d.buffers, last |-> m.last, used |-> m.used,
             overflow |-> m.overflow, out |-> m.out]
    BY <1>1, <1>3, <2>2 DEF Matchers
  <2> QED BY <1>1, <2>1, <2>3 DEF Matchers
<1>5. q \in Histories
  BY <1>1, <1>2 DEF Histories
<1> HIDE DEF d, q
<1>7. CASE f.role = Anchor
  <2>1. /\ Waiting(d) = Append(Waiting(m), f) /\ q[Anchor] = Append(p[Anchor], f)
        /\ \A r \in Matcher!Views : d.buffers[r] = m.buffers[r] /\ q[r] = p[r]
    BY <1>1, <1>3, <1>7, RolesAre DEF Waiting, Matchers, Histories, q
  <2> DEFINE k == Len(Waiting(m))
             n == Len(m.out)
  <2>2. /\ k \in Nat /\ Len(Waiting(d)) = k + 1 /\ Waiting(d)[k + 1] = f
        /\ \A i \in 1..k : Waiting(d)[i] = Waiting(m)[i]
    BY <1>1, <1>2, <2>1
  <2>3. /\ n \in Nat /\ n + k = Len(p[Anchor]) /\ Len(q[Anchor]) = (n + k) + 1
        /\ q[Anchor][(n + k) + 1] = f
        /\ \A i \in 1..(n + k) : q[Anchor][i] = p[Anchor][i]
    <3>1. n \in Nat /\ n + k = Len(p[Anchor])
      BY <1>1, MatcherLengths DEF Matching, InOrder
    <3> HIDE DEF n, k
    <3> QED BY <1>1, <1>2, <2>1, <3>1
  <2>4. /\ \A i \in 1..n : m.out[i].anchor = p[Anchor][i]
        /\ \A i \in 1..k : Waiting(m)[i] = p[Anchor][n + i]
    BY DEF Matching, InOrder
  <2>5. /\ m.last[Anchor] = f
        /\ \A i \in 1..k : Waiting(m)[i].t < f.t /\ Waiting(m)[i].receipt <= f.receipt
    BY <1>7 DEF Fits
  <2>6. /\ \A i, j \in 1..k : i < j =>
             /\ Waiting(m)[i].t < Waiting(m)[j].t
             /\ Waiting(m)[i].receipt <= Waiting(m)[j].receipt
        /\ \A i \in 1..k : Waiting(m)[i].at <= at
    BY DEF Matching, Ascending
  <2>7. f.t \in Int /\ f.receipt \in Int /\ f.at \in Int /\ f # Nothing
    BY <1>1, FrameFields
  <2>8. /\ d.out = m.out /\ d.last = m.last
    BY <1>3
  <2> HIDE DEF n, k
  <2>9. InOrder(d, q)
    <3>1. ASSUME NEW i \in 1..n PROVE d.out[i].anchor = q[Anchor][i]
      <4>1. i \in 1..(n + k)
        BY <2>2, <2>3
      <4> QED BY <2>3, <2>4, <2>8, <4>1
    <3>2. ASSUME NEW i \in 1..(k + 1) PROVE Waiting(d)[i] = q[Anchor][n + i]
      <4>1. CASE i \in 1..k
        <5>1. n + i \in 1..(n + k)
          BY <2>2, <2>3, <4>1
        <5> QED BY <2>2, <2>3, <2>4, <4>1, <5>1
      <4>2. CASE i = k + 1
        <5>1. n + i = (n + k) + 1
          BY <2>2, <2>3, <4>2
        <5> QED BY <2>2, <2>3, <4>2, <5>1
      <4> QED BY <2>2, <4>1, <4>2
    <3>3. n + (k + 1) = Len(q[Anchor])
      BY <2>2, <2>3
    <3> QED BY <2>2, <2>8, <3>1, <3>2, <3>3 DEF InOrder, n
  <2>10. Ascending(d, at)
    <3>1. ASSUME NEW i \in 1..(k + 1), NEW j \in 1..(k + 1), i < j
          PROVE  /\ Waiting(d)[i].t < Waiting(d)[j].t
                 /\ Waiting(d)[i].receipt <= Waiting(d)[j].receipt
      <4>1. i \in 1..k /\ (j \in 1..k \/ j = k + 1)
        BY <2>2, <3>1
      <4> QED BY <2>2, <2>5, <2>6, <3>1, <4>1
    <3>2. ASSUME NEW i \in 1..(k + 1)
          PROVE  /\ d.last[Anchor] # Nothing
                 /\ Waiting(d)[i].t <= d.last[Anchor].t
                 /\ Waiting(d)[i].receipt <= d.last[Anchor].receipt
                 /\ Waiting(d)[i].at <= at
      <4>1. CASE i \in 1..k
        <5>1. Waiting(m)[i] \in MatchedFrames /\ Waiting(m)[i].t \in Int
          BY <1>2, <4>1, FrameFields DEF k
        <5>2. Waiting(m)[i].t <= f.t
          BY <2>5, <2>7, <4>1, <5>1
        <5> QED BY <2>2, <2>5, <2>6, <2>7, <2>8, <4>1, <5>2
      <4>2. CASE i = k + 1
        BY <1>1, <2>2, <2>5, <2>7, <2>8, <4>2
      <4> QED BY <2>2, <4>1, <4>2
    <3> QED BY <2>2, <3>1, <3>2 DEF Ascending
  <2>11. Buffered(d, q, at)
    <3>1. ASSUME NEW g, TooOld(m, g) PROVE TooOld(d, g)
      <4>1. /\ g.t < f.t - Skew /\ \A i \in 1..k : g.t < Waiting(m)[i].t - Skew
        BY <2>5, <3>1 DEF TooOld, k
      <4>2. ASSUME NEW i \in 1..(k + 1) PROVE g.t < Waiting(d)[i].t - Skew
        <5>1. i \in 1..k \/ i = k + 1
          BY <2>2
        <5> QED BY <2>2, <4>1, <5>1
      <4> QED BY <2>2, <2>5, <2>7, <2>8, <4>1, <4>2 DEF TooOld
    <3>2. Buffered(m, p, at)
      BY DEF Matching
    <3> QED BY <1>3, <2>1, <3>1, <3>2 DEF Buffered
  <2>12. InTime(d)
    <3>1. ASSUME NEW r \in Matcher!Views, NEW g \in Matcher!ToSet(d.buffers[r]), NEW i \in 1..(k + 1)
          PROVE  g.at <= Waiting(d)[i].receipt + MatchWait \/ g.at <= Waiting(d)[i].at
      <4>1. CASE i \in 1..k
        BY <2>1, <2>2, <4>1 DEF Matching, InTime, k
      <4>2. CASE i = k + 1
        <5>1. g.at <= at
          BY <2>1 DEF Matching, Buffered
        <5> QED BY <1>1, <2>2, <4>2, <5>1
      <4> QED BY <2>2, <4>1, <4>2
    <3> QED BY <2>2, <3>1 DEF InTime
  <2>13. UsedLast(d)
    BY <1>3 DEF Matching, UsedLast
  <2> QED BY <1>1, <1>4, <1>5, <2>9, <2>10, <2>11, <2>12, <2>13 DEF Matching, d, q
<1>8. CASE f.role # Anchor
  <2>1. /\ Waiting(d) = Waiting(m) /\ q[Anchor] = p[Anchor] /\ f.role \in Matcher!Views
        /\ d.buffers[f.role] = Append(m.buffers[f.role], f) /\ q[f.role] = Append(p[f.role], f)
        /\ \A r \in Matcher!Views : r # f.role => d.buffers[r] = m.buffers[r] /\ q[r] = p[r]
    BY <1>1, <1>3, <1>8, RolesAre DEF Waiting, Matchers, Histories, q
  <2>2. /\ Matcher!ToSet(d.buffers[f.role]) = Matcher!ToSet(m.buffers[f.role]) \cup {f}
        /\ Matcher!ToSet(q[f.role]) = Matcher!ToSet(p[f.role]) \cup {f}
    BY <1>1, <1>2, <2>1, Appended
  <2>3. Buffered(d, q, at)
    <3>1. \A g : TooOld(m, g) => TooOld(d, g)
      BY <1>3, <2>1 DEF TooOld
    <3>2. Buffered(m, p, at)
      BY DEF Matching
    <3>3. ASSUME NEW r \in Matcher!Views
          PROVE  /\ Matcher!ToSet(d.buffers[r]) \subseteq Matcher!ToSet(q[r])
                 /\ r \notin d.overflow =>
                      \A g \in Matcher!ToSet(q[r]) \ Matcher!ToSet(d.buffers[r]) : TooOld(d, g)
                 /\ \A g \in Matcher!ToSet(q[r]) : g.at <= at
      <4>1. CASE r = f.role
        BY <1>1, <1>3, <2>2, <3>1, <3>2, <4>1 DEF Buffered
      <4>2. CASE r # f.role
        BY <1>3, <2>1, <3>1, <3>2, <4>2 DEF Buffered
      <4> QED BY <4>1, <4>2
    <3> QED BY <3>3 DEF Buffered
  <2>4. InTime(d)
    <3>1. ASSUME NEW r \in Matcher!Views, NEW g \in Matcher!ToSet(d.buffers[r]),
                 NEW i \in 1..Len(Waiting(d))
          PROVE  g.at <= Waiting(d)[i].receipt + MatchWait \/ g.at <= Waiting(d)[i].at
      <4>1. g \in Matcher!ToSet(m.buffers[r]) \/ g = f
        BY <2>1, <2>2
      <4>2. CASE g \in Matcher!ToSet(m.buffers[r])
        BY <2>1, <4>2 DEF Matching, InTime
      <4>3. CASE g = f
        BY <1>1, <1>8, <2>1, <4>3 DEF Fits
      <4> QED BY <4>1, <4>2, <4>3
    <3> QED BY <3>1 DEF InTime
  <2>5. InOrder(d, q) /\ Ascending(d, at) /\ UsedLast(d)
    BY <1>3, <2>1 DEF Matching, InOrder, Ascending, UsedLast
  <2> QED BY <1>1, <1>4, <1>5, <2>3, <2>4, <2>5 DEF Matching, d, q
<1> QED BY <1>7, <1>8

\* The whole push of a frame that follows.
LEMMA PushKeeps ==
    ASSUME NEW m, NEW p, NEW at, Matching(m, p, at), Undecided(m),
           NEW f \in MatchedFrames, f.at = at, Follows(m, f)
    PROVE  LET expired == Matcher!Drain(m, at, "push")
               room == Matcher!MakeRoom(Matcher!Prune([expired EXCEPT !.last[f.role] = f]), f.role)
               taken == [room EXCEPT !.buffers[f.role] = Append(@, f)]
               d == Matcher!Drain(taken, at, "advance")
               q == [p EXCEPT ![f.role] = Append(@, f)]
           IN  Matching(d, q, at) /\ Undecided(d) /\ Grown(m, d, q)
<1> DEFINE expired == Matcher!Drain(m, at, "push")
           newest == [expired EXCEPT !.last[f.role] = f]
           pruned == Matcher!Prune(newest)
           room == Matcher!MakeRoom(pruned, f.role)
           taken == [room EXCEPT !.buffers[f.role] = Append(@, f)]
           d == Matcher!Drain(taken, at, "advance")
           q == [p EXCEPT ![f.role] = Append(@, f)]
<1>1. /\ Matching(expired, p, at) /\ Grown(m, expired, p)
      /\ expired.last = m.last /\ expired.overflow = m.overflow
  BY DrainKeeps
<1>2. /\ \A i \in 1..Len(Waiting(expired)) : at <= Waiting(expired)[i].receipt + MatchWait
      /\ \A i \in (Len(m.out) + 1)..Len(expired.out) :
           /\ ~(at <= expired.out[i].anchor.receipt + MatchWait)
           /\ ~(at <= expired.out[i].anchor.at)
  BY PushDecides
<1> HIDE DEF expired
<1>3. /\ Matching(newest, p, at) /\ Fits(newest, f, at)
      /\ newest.out = expired.out /\ newest.overflow = expired.overflow
  <2>1. Follows(expired, f)
    BY <1>1 DEF Follows
  <2> QED BY <1>1, <1>2, <2>1, LastKeeps
<1> HIDE DEF newest
<1>4. /\ Matching(pruned, p, at) /\ Waiting(pruned) = Waiting(newest)
      /\ pruned.last = newest.last /\ pruned.out = newest.out /\ pruned.overflow = newest.overflow
  BY <1>3, PruneKeeps
<1> HIDE DEF pruned
<1>5. /\ Matching(room, p, at) /\ Grown(pruned, room, q) /\ room.last = pruned.last
      /\ \A i \in 1..Len(Waiting(room)) : \E j \in 1..Len(Waiting(pruned)) :
           Waiting(room)[i] = Waiting(pruned)[j]
  <2>1. f.role \in Matcher!Roles
    BY RolesAre
  <2> HIDE DEF q
  <2> QED BY <1>4, <2>1, MakeRoomKeeps
<1> HIDE DEF room
<1>6. Fits(room, f, at)
  BY <1>3, <1>4, <1>5 DEF Fits
<1>7. Matching(taken, q, at)
  BY <1>5, <1>6, AppendKeeps
<1>8. taken.out = room.out /\ taken.overflow = room.overflow
  BY <1>5 DEF Matching, Matchers
<1> HIDE DEF taken
<1>9. Matching(d, q, at) /\ Grown(taken, d, q) /\ Undecided(d)
  BY <1>7, DrainKeeps, AdvanceDecides
<1> HIDE DEF d
<1>10. /\ m \in Matchers /\ expired \in Matchers /\ pruned \in Matchers /\ room \in Matchers
       /\ taken \in Matchers /\ d \in Matchers /\ p \in Histories
  BY <1>1, <1>4, <1>5, <1>7, <1>9 DEF Matching
<1>11. Grown(m, expired, q)
  <2>1. \A r \in Matcher!Views :
           \/ Matcher!ToSet(q[r]) = Matcher!ToSet(p[r])
           \/ Matcher!ToSet(q[r]) = Matcher!ToSet(p[r]) \cup {f}
    <3> SUFFICES ASSUME NEW r \in Matcher!Views
                 PROVE  \/ Matcher!ToSet(q[r]) = Matcher!ToSet(p[r])
                        \/ Matcher!ToSet(q[r]) = Matcher!ToSet(p[r]) \cup {f}
      OBVIOUS
    <3>1. p[r] \in Seq(MatchedFrames) /\ r \in Matcher!Roles
      BY <1>10, RolesAre DEF Histories
    <3>2. CASE r = f.role
      <4>1. q[r] = Append(p[r], f)
        BY <1>10, <3>1, <3>2 DEF Histories
      <4> QED BY <3>1, <4>1, Appended
    <3>3. CASE r # f.role
      BY <1>10, <3>1, <3>3 DEF Histories
    <3> QED BY <3>2, <3>3
  <2>2. \A i \in (Len(m.out) + 1)..Len(expired.out) :
          Exact(expired.out, p, i) => Exact(expired.out, q, i)
    <3> HIDE DEF q
    <3> QED BY <1>2, <2>1, LateFrame
  <2> HIDE DEF q
  <2> QED BY <1>1, <2>2 DEF Grown
<1> HIDE DEF q
<1>12. Grown(expired, pruned, q)
  <2>1. pruned.out = expired.out /\ expired.overflow \subseteq pruned.overflow
    BY <1>3, <1>4
  <2> QED BY <1>10, <2>1, GrownSame
<1>13. Grown(room, taken, q)
  BY <1>8, <1>10, GrownSame
<1>14. Grown(m, pruned, q)
  BY <1>10, <1>11, <1>12, GrownOn
<1>15. Grown(m, room, q)
  BY <1>5, <1>10, <1>14, GrownOn
<1>16. Grown(m, taken, q)
  BY <1>10, <1>13, <1>15, GrownOn
<1>17. Grown(m, d, q)
  BY <1>9, <1>10, <1>16, GrownOn
<1> QED BY <1>9, <1>17 DEF d, taken, room, pruned, newest, expired, q

-----------------------------------------------------------------------------
(* The specification.                                                       *)

Once(m, p) == [i \in DOMAIN m.out |-> m.out[i].anchor] \o Waiting(m) = p[Anchor]

MatchingInv ==
    /\ Matcher!EveryAnchorOnce
    /\ state = "open" => Matching(Matcher!Matcher, pushed, clock) /\ Undecided(Matcher!Matcher)

LEMMA AnchorsOf ==
    ASSUME NEW o \in Seq(Results), NEW i \in 1..Len(o)
    PROVE  o[i].anchor \in MatchedFrames
<1>1. o[i] \in Results
  OBVIOUS
<1> HIDE DEF MatchedFrames
<1> QED BY <1>1 DEF Results

LEMMA OnceInOrder ==
    ASSUME NEW m, NEW p, NEW at, Matching(m, p, at)
    PROVE  Once(m, p)
<1>1. m \in Matchers /\ p \in Histories /\ InOrder(m, p) /\ Anchor \in Matcher!Roles
  BY RolesAre DEF Matching
<1> DEFINE anchors == [i \in DOMAIN m.out |-> m.out[i].anchor]
           n == Len(m.out)
           k == Len(Waiting(m))
<1>2. /\ m.out \in Seq(Results) /\ n \in Nat /\ Waiting(m) \in Seq(MatchedFrames) /\ k \in Nat
      /\ p[Anchor] \in Seq(MatchedFrames) /\ DOMAIN m.out = 1..n
  BY <1>1, MatcherLengths DEF Histories
<1>3. anchors \in Seq(MatchedFrames) /\ Len(anchors) = n
  <2>1. \A i \in 1..n : m.out[i].anchor \in MatchedFrames
    BY <1>2, AnchorsOf
  <2>2. anchors = [i \in 1..n |-> m.out[i].anchor]
    BY <1>2
  <2> HIDE DEF anchors, n
  <2> QED BY <1>2, <2>1, <2>2
<1>4. /\ n + k = Len(p[Anchor])
      /\ \A i \in 1..n : anchors[i] = p[Anchor][i]
      /\ \A i \in 1..k : Waiting(m)[i] = p[Anchor][n + i]
  BY <1>1, <1>2 DEF InOrder
<1> HIDE DEF anchors, n, k
<1>5. /\ anchors \o Waiting(m) \in Seq(MatchedFrames)
      /\ Len(anchors \o Waiting(m)) = n + k
      /\ \A i \in 1..(n + k) :
           (anchors \o Waiting(m))[i] = IF i <= n THEN anchors[i] ELSE Waiting(m)[i - n]
  BY <1>2, <1>3, ConcatProperties DEF k
<1>6. ASSUME NEW i \in 1..(n + k) PROVE (anchors \o Waiting(m))[i] = p[Anchor][i]
  <2>1. CASE i <= n
    <3>1. i \in 1..n
      BY <1>2, <2>1
    <3> QED BY <1>4, <1>5, <2>1, <3>1
  <2>2. CASE ~(i <= n)
    <3>1. i - n \in 1..k /\ n + (i - n) = i
      BY <1>2, <2>2
    <3> QED BY <1>4, <1>5, <2>2, <3>1
  <2> QED BY <2>1, <2>2
<1>7. anchors \o Waiting(m) = p[Anchor]
  <2> DEFINE whole == anchors \o Waiting(m)
  <2>1. /\ whole \in Seq(MatchedFrames) /\ p[Anchor] \in Seq(MatchedFrames)
        /\ Len(whole) = Len(p[Anchor]) /\ \A i \in 1..Len(whole) : whole[i] = p[Anchor][i]
    BY <1>2, <1>4, <1>5, <1>6
  <2> HIDE DEF whole
  <2>2. whole = p[Anchor]
    BY <2>1
  <2> QED BY <2>2 DEF whole
<1> QED BY <1>7 DEF Once, anchors

LEMMA OnceIs ==
    /\ Matcher!EveryAnchorOnce <=> Once(Matcher!Matcher, pushed)
    /\ Matcher!EveryAnchorOnce' <=> Once(Matcher!Matcher, pushed)'
  BY DEF Matcher!EveryAnchorOnce, Once, Waiting, Matcher!Matcher

\* The words of the property, of the decisions and frames of a state.
LEMMA SameWords ==
    /\ \A i, r : Matcher!Prior(i, r)' = PriorOf(out', i, r)
    /\ \A i, r : Matcher!Choice(i, r)' = ChoiceOf(out', pushed', i, r)
<1>1. \A i, r : Matcher!Prior(i, r)' = PriorOf(out', i, r)
  BY DEF Matcher!Prior, PriorOf, Accepted, Latest
<1> QED BY <1>1 DEF Matcher!Choice, ChoiceOf

MatchingStep ==
    out' # out /\ state' # "blocked" /\ overflow' \cap Matcher!Views = {} =>
      \A i \in (Len(out) + 1)..Len(out') : Exact(out', pushed', i)

ExactStep ==
    Matcher!EveryAnchorOnce' /\
    (out' # out /\ state' # "blocked" /\ overflow' \cap Matcher!Views = {} =>
       \A i \in (Len(out) + 1)..Len(out') :
          LET a == out'[i].anchor
              fresh == Matcher!Freshness(a, Matcher!Prior(i, Anchor)') = "accepted"
          IN  CASE out'[i].reason = "accepted" ->
                     /\ fresh
                     /\ \A r \in Matcher!Views :
                          /\ out'[i].members[r] \in Matcher!Choice(i, r)'
                          /\ \A g \in Matcher!Choice(i, r)' :
                               Matcher!Nearer(out'[i].members[r], g, a)
                [] out'[i].reason = "overflow" -> TRUE
                [] OTHER -> ~fresh \/ \E r \in Matcher!Views : Matcher!Choice(i, r)' = {})

LEMMA StepIsExact ==
    ASSUME Matcher!EveryAnchorOnce', MatchingStep
    PROVE  ExactStep
  BY SameWords DEF MatchingStep, Exact, ExactStep

LEMMA MatchingInit ==
    ASSUME Matcher!Init PROVE MatchingInv
<1> DEFINE m == Matcher!Matcher
<1>1. /\ m.buffers = [r \in Matcher!Roles |-> <<>>] /\ m.last = [r \in Matcher!Roles |-> Nothing]
      /\ m.used = [r \in Matcher!Roles |-> Nothing] /\ m.overflow = {} /\ m.out = <<>>
      /\ m = [buffers |-> m.buffers, last |-> m.last, used |-> m.used,
              overflow |-> m.overflow, out |-> m.out]
      /\ pushed = [r \in Matcher!Roles |-> <<>>] /\ clock = 0
  BY DEF Matcher!Init, Matcher!Matcher
<1> HIDE DEF m
<1>2. <<>> \in Seq(MatchedFrames) /\ <<>> \in Seq(Results) /\ Len(<<>>) = 0
  OBVIOUS
<1>3. m \in Matchers /\ pushed \in Histories /\ clock \in Int
  <2>1. m.buffers \in [Matcher!Roles -> Seq(MatchedFrames)] /\ m.last \in [Matcher!Roles -> Found]
        /\ m.used \in [Matcher!Roles -> Found] /\ m.overflow \in SUBSET Matcher!Roles
        /\ m.out \in Seq(Results)
    BY <1>1, <1>2 DEF Found
  <2>2. pushed \in Histories
    BY <1>1, <1>2 DEF Histories
  <2>3. m \in Matchers
    BY <1>1, <2>1 DEF Matchers
  <2>4. clock \in Int
    BY <1>1
  <2> QED BY <2>2, <2>3, <2>4
<1>4. Waiting(m) = <<>> /\ Len(Waiting(m)) = 0 /\ Len(m.out) = 0 /\ pushed[Anchor] = <<>>
  BY <1>1, <1>2, RolesAre DEF Waiting
<1>5. InOrder(m, pushed) /\ Ascending(m, clock) /\ InTime(m) /\ Undecided(m)
  BY <1>2, <1>4 DEF InOrder, Ascending, InTime, Undecided
<1>6. Buffered(m, pushed, clock)
  <2>1. \A r \in Matcher!Views : m.buffers[r] = <<>> /\ pushed[r] = <<>>
    BY <1>1, RolesAre
  <2>2. Matcher!ToSet(<<>>) = {}
    BY DEF Matcher!ToSet
  <2> QED BY <2>1, <2>2 DEF Buffered
<1>7. UsedLast(m)
  <2>1. Accepted(m.out, Len(m.out) + 1) = {}
    BY <1>4 DEF Accepted
  <2> QED BY <1>1, <2>1 DEF UsedLast, PriorOf
<1>8. Matching(m, pushed, clock)
  BY <1>3, <1>5, <1>6, <1>7 DEF Matching
<1> QED BY <1>5, <1>8, OnceInOrder, OnceIs DEF MatchingInv, m

\* An operation that grows the matcher keeps the invariant.
LEMMA GrownStep ==
    ASSUME MatchingInv, NEW d, Matcher!Becomes(d), Matching(d, pushed', clock'), Undecided(d),
           Grown(Matcher!Matcher, d, pushed')
    PROVE  MatchingInv' /\ MatchingStep
<1>1. d \in Matchers
  BY DEF Matching
<1>2. (Matcher!Matcher)' = d
  BY <1>1 DEF Matcher!Becomes, Matcher!Matcher, Matchers
<1>3. Once(d, pushed')
  BY OnceInOrder
<1>4. Matcher!EveryAnchorOnce'
  BY <1>2, <1>3, OnceIs
<1>5. MatchingInv'
  BY <1>2, <1>4 DEF MatchingInv
<1>6. MatchingStep
  BY <1>1 DEF MatchingStep, Grown, Matcher!Becomes, Matcher!Matcher
<1> QED BY <1>5, <1>6

LEMMA PushStep ==
    ASSUME MatchingInv, NEW r \in Matcher!Roles, Matcher!Push(r)
    PROVE  MatchingInv' /\ MatchingStep
<1> DEFINE m == Matcher!Matcher
<1>1. /\ Matching(m, pushed, clock) /\ Undecided(m) /\ clock' = clock
      /\ m.last = last /\ m \in Matchers /\ clock \in Int
  BY DEF MatchingInv, Matcher!Push, Matcher!Matcher, Matching
<1>2. PICK gap \in Gaps[r], delay \in Delays, step \in DepthSteps[r] :
         /\ Matcher!LastReceipt(r) <= clock - delay
         /\ LET f == [role |-> r, t |-> Matcher!LastTime(r) + gap, receipt |-> clock - delay,
                      at |-> clock, depth |-> Matcher!LastDepth(r)[1] + step[1],
                      depthTime |-> Matcher!LastDepth(r)[2] + step[2]]
            IN  Matcher!PushFrame(f) /\ pushed' = [pushed EXCEPT ![r] = Append(@, f)]
  BY DEF Matcher!Push
<1> DEFINE f == [role |-> r, t |-> Matcher!LastTime(r) + gap, receipt |-> clock - delay,
                 at |-> clock, depth |-> Matcher!LastDepth(r)[1] + step[1],
                 depthTime |-> Matcher!LastDepth(r)[2] + step[2]]
<1>3. /\ gap \in Nat /\ gap > 0 /\ delay \in Int /\ step \in Int \X Int
  BY MatcherAssumption
<1>4. last[r] \in Found
  BY <1>1 DEF Matchers
<1>5. /\ Matcher!LastTime(r) \in Int /\ Matcher!LastDepth(r)[1] \in Int
      /\ Matcher!LastDepth(r)[2] \in Int
      /\ last[r] # Nothing => /\ Matcher!LastTime(r) = last[r].t
                              /\ Matcher!LastReceipt(r) = last[r].receipt
  BY <1>4, RolesAre DEF Found, Matcher!LastTime, Matcher!LastDepth, Matcher!LastReceipt
<1>6. /\ f.role = r /\ f.at = clock /\ f.t = Matcher!LastTime(r) + gap /\ f.receipt = clock - delay
      /\ f \in MatchedFrames
  BY <1>1, <1>3, <1>5, RolesAre
<1>7. Matcher!PushFrame(f) /\ pushed' = [pushed EXCEPT ![f.role] = Append(@, f)]
  BY <1>2
<1> HIDE DEF f
<1>8. Follows(m, f)
  BY <1>1, <1>2, <1>3, <1>5, <1>6 DEF Follows
<1> HIDE DEF m
<1> DEFINE d == Matcher!Drain([Matcher!MakeRoom(Matcher!Prune(
                     [Matcher!Drain(m, clock, "push") EXCEPT !.last[f.role] = f]), f.role)
                     EXCEPT !.buffers[f.role] = Append(@, f)], clock, "advance")
<1>9. Matching(d, pushed', clock) /\ Undecided(d) /\ Grown(m, d, pushed')
  BY <1>1, <1>6, <1>7, <1>8, PushKeeps
<1>10. Matcher!Becomes(d)
  BY <1>7 DEF Matcher!PushFrame, m
<1> HIDE DEF d
<1> QED BY <1>1, <1>9, <1>10, GrownStep DEF m

LEMMA AdvanceStep ==
    ASSUME MatchingInv, Matcher!Advance
    PROVE  MatchingInv' /\ MatchingStep
<1> DEFINE m == Matcher!Matcher
           d == Matcher!Drain(m, clock, "advance")
<1>1. Matching(m, pushed, clock) /\ Matcher!Becomes(d) /\ clock' = clock /\ pushed' = pushed
  BY DEF MatchingInv, Matcher!Advance
<1>2. Matching(d, pushed, clock) /\ Grown(m, d, pushed) /\ Undecided(d)
  <2> HIDE DEF m
  <2> QED BY <1>1, DrainKeeps, AdvanceDecides
<1> HIDE DEF d
<1> QED BY <1>1, <1>2, GrownStep

LEMMA FinishStep ==
    ASSUME MatchingInv, Matcher!Finish
    PROVE  MatchingInv' /\ MatchingStep
<1> DEFINE m == Matcher!Matcher
           d == Matcher!Drain(m, clock, "finish")
<1>1. /\ Matching(m, pushed, clock) /\ pushed' = pushed /\ state' = "finished"
      /\ Matcher!Becomes([d EXCEPT !.buffers = [r \in Matcher!Roles |-> <<>>]])
  BY DEF MatchingInv, Matcher!Finish
<1>2. Matching(d, pushed, clock) /\ Grown(m, d, pushed) /\ Waiting(d) = <<>>
  <2> HIDE DEF m
  <2> QED BY <1>1, DrainKeeps, FinishDecides
<1> HIDE DEF d
<1>3. d \in Matchers /\ Once(d, pushed)
  BY <1>2, OnceInOrder DEF Matching
<1>4. /\ out' = d.out /\ overflow' = d.overflow /\ buffers'[Anchor] = <<>>
  BY <1>1, <1>3, RolesAre DEF Matcher!Becomes, Matchers
<1>5. Matcher!EveryAnchorOnce'
  <2>1. [i \in DOMAIN d.out |-> d.out[i].anchor] \o <<>> = pushed[Anchor]
    BY <1>2, <1>3 DEF Once
  <2> QED BY <1>1, <1>4, <2>1 DEF Matcher!EveryAnchorOnce
<1>6. MatchingInv'
  BY <1>1, <1>5 DEF MatchingInv
<1>7. MatchingStep
  BY <1>1, <1>2, <1>4 DEF MatchingStep, Grown, Matcher!Matcher
<1> QED BY <1>6, <1>7

LEMMA InvalidStep ==
    ASSUME MatchingInv, Matcher!PushInvalid
    PROVE  MatchingInv' /\ MatchingStep
<1> DEFINE m == Matcher!Matcher
           k == Len(Waiting(m))
           n == Len(out)
           rejected == [i \in 1..k |-> Matcher!Result(Waiting(m)[i], "source_fault", Nothing)]
           anchors == [i \in 1..n |-> out[i].anchor]
<1>1. /\ Matching(m, pushed, clock) /\ pushed' = pushed /\ state' = "blocked"
      /\ out' = out \o rejected /\ buffers' = [r \in Matcher!Roles |-> <<>>]
      /\ m.out = out /\ Waiting(m) = buffers[Anchor]
  BY DEF MatchingInv, Matcher!PushInvalid, Matcher!Invalidate, Matcher!Matcher, Waiting
<1>2. Once(m, pushed) /\ m \in Matchers
  BY <1>1, OnceInOrder DEF Matching
<1>3. /\ out \in Seq(Results) /\ n \in Nat /\ Waiting(m) \in Seq(MatchedFrames) /\ k \in Nat
  BY <1>1, <1>2, MatcherLengths
<1>4. anchors \o Waiting(m) = pushed[Anchor]
  <2>1. DOMAIN m.out = 1..n
    BY <1>1, <1>3
  <2> HIDE DEF m
  <2> QED BY <1>1, <1>2, <2>1 DEF Once
<1>5. rejected \in Seq(Results)
  <2>1. \A i \in 1..k : Matcher!Result(Waiting(m)[i], "source_fault", Nothing) \in Results
    BY <1>3 DEF Matcher!Result, Results, Reasons
  <2> HIDE DEF k, m
  <2> QED BY <1>3, <2>1
<1>6. anchors \in Seq(MatchedFrames)
  <2>1. \A i \in 1..n : out[i].anchor \in MatchedFrames
    BY <1>3, AnchorsOf
  <2> HIDE DEF n
  <2> QED BY <1>3, <2>1
<1>7. Len(rejected) = k /\ Len(anchors) = n
  BY <1>3
<1>8. \A i \in 1..k : rejected[i].anchor = Waiting(m)[i]
  BY DEF Matcher!Result
<1>9. \A i \in 1..n : anchors[i] = out[i].anchor
  OBVIOUS
<1> HIDE DEF rejected, anchors, m, k, n
<1>10. /\ out' \in Seq(Results) /\ Len(out') = n + k
       /\ \A i \in 1..(n + k) : out'[i] = IF i <= n THEN out[i] ELSE rejected[i - n]
  <2>1. /\ out \o rejected \in Seq(Results)
        /\ Len(out \o rejected) = Len(out) + Len(rejected)
        /\ \A i \in 1..(Len(out) + Len(rejected)) :
             (out \o rejected)[i] = IF i <= Len(out) THEN out[i] ELSE rejected[i - Len(out)]
    BY <1>3, <1>5, ConcatProperties
  <2> QED BY <1>1, <1>7, <2>1 DEF n
<1>11. /\ anchors \o Waiting(m) \in Seq(MatchedFrames) /\ Len(anchors \o Waiting(m)) = n + k
       /\ \A i \in 1..(n + k) :
            (anchors \o Waiting(m))[i] = IF i <= n THEN anchors[i] ELSE Waiting(m)[i - n]
  BY <1>3, <1>6, <1>7, ConcatProperties DEF k
<1> DEFINE later == [i \in DOMAIN out' |-> out'[i].anchor]
<1>12. later = anchors \o Waiting(m)
  <2>1. DOMAIN out' = 1..(n + k) /\ \A i \in 1..(n + k) : out'[i].anchor \in MatchedFrames
    BY <1>3, <1>10, AnchorsOf
  <2>2. later = [i \in 1..(n + k) |-> out'[i].anchor]
    BY <2>1
  <2>3. later \in Seq(MatchedFrames) /\ Len(later) = n + k
    <3> HIDE DEF later
    <3> QED BY <1>3, <2>1, <2>2
  <2>4. ASSUME NEW i \in 1..(n + k) PROVE later[i] = (anchors \o Waiting(m))[i]
    <3>1. later[i] = out'[i].anchor
      BY <2>2
    <3>2. CASE i <= n
      <4>1. i \in 1..n
        BY <1>3, <3>2
      <4> QED BY <1>9, <1>10, <1>11, <3>1, <3>2, <4>1
    <3>3. CASE ~(i <= n)
      <4>1. i - n \in 1..k
        BY <1>3, <3>3
      <4> QED BY <1>8, <1>10, <1>11, <3>1, <3>3, <4>1
    <3> QED BY <3>2, <3>3
  <2> HIDE DEF later
  <2> QED BY <1>11, <2>3, <2>4
<1>13. Matcher!EveryAnchorOnce'
  <2>1. buffers'[Anchor] = <<>>
    BY <1>1, RolesAre
  <2>2. later \in Seq(MatchedFrames) /\ later \o <<>> = later
    <3> HIDE DEF later
    <3> QED BY <1>11, <1>12, ConcatEmptySeq
  <2>3. later \o buffers'[Anchor] = pushed'[Anchor]
    BY <1>1, <1>4, <1>12, <2>1, <2>2
  <2> QED BY <2>3 DEF Matcher!EveryAnchorOnce
<1>14. MatchingInv'
  BY <1>1, <1>13 DEF MatchingInv
<1> QED BY <1>1, <1>14 DEF MatchingStep

\* Time passes, or nothing happens.
LEMMA TimeStep ==
    ASSUME MatchingInv, Matcher!Tick \/ UNCHANGED Matcher!vars
    PROVE  MatchingInv' /\ MatchingStep
<1>1. /\ UNCHANGED <<state, buffers, last, used, overflow, out, pushed>>
      /\ clock' = clock + 1 \/ clock' = clock
  BY DEF Matcher!Tick, Matcher!vars
<1>2. (Matcher!Matcher)' = Matcher!Matcher /\ MatchingStep
  BY <1>1 DEF Matcher!Matcher, MatchingStep
<1>3. Matcher!EveryAnchorOnce'
  BY <1>1 DEF MatchingInv, Matcher!EveryAnchorOnce
<1>4. ASSUME state = "open" PROVE Matching(Matcher!Matcher, pushed, clock')
  <2> DEFINE m == Matcher!Matcher
  <2>1. Matching(m, pushed, clock)
    BY <1>4 DEF MatchingInv
  <2> HIDE DEF m
  <2>2. m \in Matchers /\ pushed \in Histories /\ clock \in Int /\ clock' \in Int /\ clock <= clock'
    BY <1>1, <2>1 DEF Matching
  <2>3. Waiting(m) \in Seq(MatchedFrames)
    BY <2>2, MatcherLengths
  <2>4. Ascending(m, clock')
    <3>1. \A i \in 1..Len(Waiting(m)) : Waiting(m)[i].at \in Int /\ Waiting(m)[i].at <= clock
      BY <2>1, <2>3, FrameFields DEF Matching, Ascending
    <3>2. \A i \in 1..Len(Waiting(m)) : Waiting(m)[i].at <= clock'
      BY <2>2, <3>1
    <3> QED BY <2>1, <3>2 DEF Matching, Ascending
  <2>5. Buffered(m, pushed, clock')
    <3>1. ASSUME NEW r \in Matcher!Views, NEW g \in Matcher!ToSet(pushed[r]) PROVE g.at <= clock'
      <4>1. g \in MatchedFrames
        BY <2>2, RolesAre, SetOf DEF Histories
      <4>2. g.at \in Int /\ g.at <= clock
        BY <2>1, <4>1, FrameFields DEF Matching, Buffered
      <4> QED BY <2>2, <4>2
    <3> QED BY <2>1, <3>1 DEF Matching, Buffered
  <2> QED BY <2>1, <2>2, <2>4, <2>5 DEF Matching, m
<1>5. MatchingInv'
  BY <1>1, <1>2, <1>3, <1>4 DEF MatchingInv
<1> QED BY <1>2, <1>5

LEMMA MatcherStep ==
    ASSUME MatchingInv, [Matcher!Next]_(Matcher!vars) PROVE MatchingInv' /\ MatchingStep
<1>1. ASSUME NEW r \in Matcher!Roles, Matcher!Push(r) PROVE MatchingInv' /\ MatchingStep
  BY <1>1, PushStep
<1>2. CASE Matcher!PushInvalid
  BY <1>2, InvalidStep
<1>3. CASE Matcher!Advance
  BY <1>3, AdvanceStep
<1>4. CASE Matcher!Finish
  BY <1>4, FinishStep
<1>5. CASE Matcher!Tick \/ UNCHANGED Matcher!vars
  BY <1>5, TimeStep
<1> QED BY <1>1, <1>2, <1>3, <1>4, <1>5 DEF Matcher!Next

(* Every wrist frame is decided once, in its order, and every group is made *)
(* of the nearest choice there ever was of every other camera: what pruning,*)
(* expiry and the order of arrival took away was no choice.                 *)
THEOREM DecisionsAreExact == Matcher!Spec => DecisionsExact
<1>1. MatchingInv /\ [Matcher!Next]_(Matcher!vars) => MatchingInv' /\ [ExactStep]_(Matcher!vars)
  <2> SUFFICES ASSUME MatchingInv, [Matcher!Next]_(Matcher!vars)
               PROVE  MatchingInv' /\ ExactStep
    OBVIOUS
  <2>1. MatchingInv' /\ MatchingStep
    BY MatcherStep
  <2>2. Matcher!EveryAnchorOnce'
    BY <2>1 DEF MatchingInv
  <2> QED BY <2>1, <2>2, StepIsExact
<1>2. Matcher!Init => MatchingInv
  BY MatchingInit
<1> QED BY <1>1, <1>2, PTL DEF Matcher!Spec, DecisionsExact, Matcher!DecisionsExact, ExactStep
=============================================================================
