---------------------------- MODULE SharedSlots -----------------------------
(***************************************************************************)
(* What the ring of one camera promises, whatever its two ends do: the     *)
(* worker and the reader take their steps in any order, and either may     *)
(* stop for good at any of them.                                           *)
(***************************************************************************)
EXTENDS SlotRing

VARIABLE ring

Init == ring = NewRing

WorkerReserves == CanReserve(ring) /\ ring' = Reserve(ring)
WorkerPacksRgb == ring.producer.step = "rgb" /\ ring' = PackRgb(ring)
WorkerPacksDepth == ring.producer.step = "depth" /\ ring' = PackDepth(ring)
WorkerPuts == CanPut(ring) /\ ring' = Put(ring)
ReaderTakes == CanTake(ring) /\ ring' = Take(ring)
ReaderUnpacksRgb == ring.consumer.step = "rgb" /\ ring' = UnpackRgb(ring)
ReaderUnpacksDepth == ring.consumer.step = "depth" /\ ring' = UnpackDepth(ring)
ReaderReleases == ring.consumer.step = "copied" /\ ring' = Release(ring)

Next ==
    \/ WorkerReserves \/ WorkerPacksRgb \/ WorkerPacksDepth \/ WorkerPuts
    \/ ReaderTakes \/ ReaderUnpacksRgb \/ ReaderUnpacksDepth \/ ReaderReleases

Spec == Init /\ [][Next]_ring

-----------------------------------------------------------------------------
(* A frame that leaves the ring has its own two images: no slot is written *)
(* again before both were copied, although slots are reused after          *)
(* Capacity tickets and the two ends share no lock.  Frames leave in the   *)
(* order they were packed.                                                 *)
ImagesIntact ==
    ring.consumer.step = "copied" =>
        /\ ring.consumer.rgb = ring.read
        /\ ring.consumer.depth = ring.read
        /\ ring.consumer.ticket = ring.read

(* The reader never meets a ticket that is not the next one: the error     *)
(* "shared camera slot is repeated or out of order" is unreachable.        *)
NextTicket == ring.queue # <<>> /\ ring.consumer.step = "idle" => CanTake(ring)
=============================================================================
