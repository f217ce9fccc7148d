------------------------------ MODULE SlotRing ------------------------------
(***************************************************************************)
(* shared_frames.py: the ring of image slots between one camera worker and *)
(* the process that reads it.  Pixels stay in shared memory; the queue     *)
(* carries a ticket.  The two ends share a semaphore, the queue and the    *)
(* memory, and each keeps its own index.                                   *)
(*                                                                         *)
(* The ring is a record and an operation maps a ring to a ring, so that a  *)
(* rig can keep one ring for each camera.  The images of a frame are two   *)
(* copies, each written and read by a step of its own; a copy is named by  *)
(* the ticket of the frame it belongs to.                                  *)
(***************************************************************************)
EXTENDS Integers, Sequences

CONSTANTS
    Capacity,   \* slots, and the bound of the queue: camera_queue_capacity
    Nothing     \* no image

ASSUME CapacityAssumption == Capacity \in Nat \ {0} /\ Nothing \notin Nat

Idle == [step |-> "idle", ticket |-> 0, rgb |-> Nothing, depth |-> Nothing]

NewRing ==
    [write    |-> 0,           \* Slots.write_index of the worker
     read     |-> 0,           \* Slots.read_index of the reader
     free     |-> Capacity,    \* Slots.available
     queue    |-> <<>>,        \* the tickets put and not yet got
     memory   |-> [s \in 0..(Capacity - 1) |-> [rgb |-> Nothing, depth |-> Nothing]],
     producer |-> Idle,        \* pack, up to put_nowait
     consumer |-> Idle]        \* get_nowait, then unpack

SlotOf(ticket) == ticket % Capacity

-----------------------------------------------------------------------------
(* The worker: Slots.pack, then Queue.put_nowait.                           *)

CanReserve(ring) == ring.producer.step = "idle" /\ ring.free > 0

Reserve(ring) ==
    [ring EXCEPT !.free = @ - 1, !.write = @ + 1,
                 !.producer = [Idle EXCEPT !.step = "rgb", !.ticket = ring.write]]

PackRgb(ring) ==
    [ring EXCEPT !.memory[SlotOf(ring.producer.ticket)].rgb = ring.producer.ticket,
                 !.producer.step = "depth"]
PackDepth(ring) ==
    [ring EXCEPT !.memory[SlotOf(ring.producer.ticket)].depth = ring.producer.ticket,
                 !.producer.step = "put"]

CanPut(ring) == ring.producer.step = "put" /\ Len(ring.queue) < Capacity
Put(ring) ==
    [ring EXCEPT !.queue = Append(@, ring.producer.ticket), !.producer = Idle]

-----------------------------------------------------------------------------
(* The reader: Queue.get_nowait, then Slots.unpack.                         *)

CanTake(ring) ==
    ring.consumer.step = "idle" /\ ring.queue # <<>> /\ Head(ring.queue) = ring.read

Take(ring) ==
    [ring EXCEPT !.queue = Tail(@),
                 !.consumer = [Idle EXCEPT !.step = "rgb", !.ticket = Head(ring.queue)]]

UnpackRgb(ring) ==
    [ring EXCEPT !.consumer.rgb = ring.memory[SlotOf(ring.consumer.ticket)].rgb,
                 !.consumer.step = "depth"]
UnpackDepth(ring) ==
    [ring EXCEPT !.consumer.depth = ring.memory[SlotOf(ring.consumer.ticket)].depth,
                 !.consumer.step = "copied"]

Release(ring) == [ring EXCEPT !.read = @ + 1, !.free = @ + 1, !.consumer = Idle]
=============================================================================
