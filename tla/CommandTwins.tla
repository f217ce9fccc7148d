---------------------------- MODULE CommandTwins ----------------------------
(***************************************************************************)
(* followers/dispatch.py: the group of one required follower and an        *)
(* optional twin, which repeats what the first one has accepted and may    *)
(* neither block it nor fail it.                                           *)
(*                                                                         *)
(* The control thread offers commands to a queue of one place, the thread  *)
(* of the twin takes them from it; each call on the queue is a step.  A    *)
(* command is known by its number.  The twin's transport is a FollowerLink *)
(* of its own: here it executes a command, raises, or reports that motion  *)
(* is not allowed.                                                         *)
(***************************************************************************)
EXTENDS Integers, Sequences

CONSTANTS None, MaxCommands

Operations == {"motion", "stop"}

VARIABLES
    commands, \* the operations that were asked for, in order
    group,    \* the control thread: what it does, and the numbers accepted
    pending,  \* Twin.pending
    twin      \* the twin's thread, its transport, fault and stop event

vars == <<commands, group, pending, twin>>

Init ==
    /\ commands = <<>> /\ pending = None
    /\ group = [at |-> "idle", accepted |-> {}]
    /\ twin = [at |-> "opening", command |-> None, executed |-> <<>>, fault |-> FALSE, stop |-> FALSE]

-----------------------------------------------------------------------------
(* The group.                                                               *)

Last == Len(commands)

\* Only what was accepted is passed on, but a stop always is.
Offers(operation, accepted) == accepted \/ operation = "stop"

\* move, servo or stop, as far as the primary follower.
Command ==
    /\ group.at = "idle" /\ Last < MaxCommands
    /\ \E operation \in Operations, accepted \in BOOLEAN :
          /\ commands' = Append(commands, operation)
          /\ group' = [at |-> IF Offers(operation, accepted) THEN "clear" ELSE "idle",
                       accepted |-> IF accepted THEN group.accepted \cup {Last + 1} ELSE group.accepted]
    /\ UNCHANGED <<pending, twin>>

\* Twin.offer, its two calls.
OfferClears ==
    /\ group.at = "clear"
    /\ pending' = None /\ group' = [group EXCEPT !.at = "put"]
    /\ UNCHANGED <<commands, twin>>

OfferPuts ==
    /\ group.at = "put"
    /\ pending' = IF pending = None THEN Last ELSE pending
    /\ group' = [group EXCEPT !.at = "idle"]
    /\ UNCHANGED <<commands, twin>>

\* close, of the first follower and then of the twin.
GroupCloses ==
    /\ group.at = "idle"
    /\ group' = [group EXCEPT !.at = "closed"] /\ twin' = [twin EXCEPT !.stop = TRUE]
    /\ UNCHANGED <<commands, pending>>

-----------------------------------------------------------------------------
(* The twin.                                                                *)

Twin(t) == twin' = t /\ UNCHANGED <<commands, group>>
Ended(fault) == [twin EXCEPT !.at = "ended", !.command = None, !.fault = fault]

Opens ==
    /\ twin.at = "opening" /\ pending' = pending
    /\ \/ Twin([twin EXCEPT !.at = "waiting"])
       \/ Twin(Ended(TRUE))

Takes ==
    /\ twin.at = "waiting" /\ ~twin.stop /\ pending # None
    /\ pending' = None /\ Twin([twin EXCEPT !.at = "executing", !.command = pending])

\* The call returns or raises.  What follows, and happens 50 ms later if no
\* command comes, is a look at the twin's own feedback.
Executes ==
    /\ twin.at = "executing" /\ pending' = pending
    /\ \/ Twin([twin EXCEPT !.at = "waiting", !.command = None, !.executed = Append(@, twin.command)])
       \/ Twin(Ended(TRUE))

MotionLost == twin.at = "waiting" /\ pending' = pending /\ Twin(Ended(TRUE))

NoticesStop == twin.at = "waiting" /\ twin.stop /\ pending' = pending /\ Twin(Ended(FALSE))

Next ==
    \/ Command \/ OfferClears \/ OfferPuts \/ GroupCloses
    \/ Opens \/ Takes \/ Executes \/ MotionLost \/ NoticesStop

Spec == Init /\ [][Next]_vars

-----------------------------------------------------------------------------
(* Properties.                                                              *)

TypeOK ==
    /\ pending \in 1..MaxCommands \cup {None}
    /\ group.at \in {"idle", "clear", "put", "closed"}
    /\ twin.at \in {"opening", "waiting", "executing", "ended"}

Offered == {n \in DOMAIN commands : n \in group.accepted \/ commands[n] = "stop"}
Newest == CHOOSE n \in Offered : \A m \in Offered : m <= n

(* The twin does what the first follower does, later and with gaps: it      *)
(* executes accepted commands and stops only, never an older one after a    *)
(* newer one, and whenever it has nothing left to do the newest of them was *)
(* its last, so that the stop that ends a motion is not lost in a queue of  *)
(* one place, however the calls on the queue interleave.                    *)
TwinFollows ==
    /\ \A i \in DOMAIN twin.executed :
         /\ twin.executed[i] \in Offered
         /\ i > 1 => twin.executed[i - 1] < twin.executed[i]
    /\ (group.at = "idle" /\ twin.at = "waiting" /\ pending = None /\ Offered # {}) =>
         twin.executed # <<>> /\ twin.executed[Len(twin.executed)] = Newest
=============================================================================
