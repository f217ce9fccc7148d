------------------------------ MODULE RigRings ------------------------------
(***************************************************************************)
(* The rings of a rig, one ring of image slots for each camera, which its  *)
(* worker and the rig's reader share, and what the rig's processes owe to  *)
(* each of them.  CameraRig says what these processes do.                  *)
(***************************************************************************)
EXTENDS SlotRing, SequencesExt

CONSTANT RoleOrder   \* the cameras, in the order of CAMERA_ROLES

Roles == ToSet(RoleOrder)

VARIABLE rings       \* the slots of each camera

Ring(r) == rings[r]
SetRing(r, ring) == rings' = [rings EXCEPT ![r] = ring]

(* The workers and the reader use every ring as SharedSlots says, so the   *)
(* frames a read returns carry their own images.                           *)
RingOf(r) == INSTANCE SharedSlots WITH ring <- rings[r]
RingsImplementSlots ==
    /\ \A r \in Roles : RingOf(r)!Init
    /\ [][\A r \in Roles : [RingOf(r)!Next]_(rings[r])]_rings
=============================================================================
