--------------------------- MODULE ControlRecords ---------------------------
(***************************************************************************)
(* control_records.Validator: what the log of a controlled episode must    *)
(* look like, checked one record at a time while the episode is written    *)
(* and again, by another process, when it is verified.                     *)
(*                                                                         *)
(* A record has a kind, the number it has among its kind, the host's       *)
(* receipt, the source's own time, the identity it claims and what it is   *)
(* about: the action of an authority event, the values of the others.      *)
(* Values are only compared.  The audit of the leader's mapping, which     *)
(* recomputes the numbers of an intent and of its command, is left out.    *)
(***************************************************************************)
EXTENDS Integers, Sequences, FiniteSets

CONSTANTS
    None,
    MaxGap,       \* max_control_gap_ns
    CommandEvery, \* the longest mean time between commands: 1 / minimum_command_hz
    Hande         \* the Hand-E is recorded (context["hande"] = "urcap")

Feedbacks == {"follower_state", "ur_feedback"} \cup (IF Hande THEN {"hande_feedback"} ELSE {})
Streams == {"leader_intent", "sent_command"} \cup Feedbacks
Kinds == {"authority_event"} \cup Streams

NewLog ==
    [previous |-> [k \in Kinds |-> None], first |-> [k \in Kinds |-> None],
     sent |-> 0, acquired |-> None, released |-> None,
     earliest |-> None, latest |-> None, intent |-> None, state |-> None]

Earlier(a, b) == IF a = None \/ b < a THEN b ELSE a
Later(a, b) == IF a = None \/ b > a THEN b ELSE a

\* _receipt, of a record and of the frames of a group.
Observed(v, at) == [v EXCEPT !.earliest = Earlier(@, at), !.latest = Later(@, at)]

-----------------------------------------------------------------------------
(* check.                                                                   *)

\* _clock: the controller's uptime, the host's clock, or none.
ClockRight(r) ==
    CASE r.kind \in {"follower_state", "ur_feedback"} -> r.source # None
      [] r.kind = "hande_feedback" -> r.source = None
      [] OTHER -> r.source = r.at

Follows(p, r) ==
    /\ r.seq = p.seq + 1 /\ r.at > p.at
    /\ r.source # None => r.source > p.source
    /\ r.kind # "authority_event" => r.at - p.at <= MaxGap

AuthorityNext(v, r) ==
    IF v.acquired = None THEN r.value = "acquired"
    ELSE v.released = None /\ r.value = "released"

\* An intent is followed by the command it led to, a state by its readback.
Paired(v, r) ==
    CASE r.kind = "leader_intent"  -> v.intent = None
      [] r.kind = "sent_command"   -> v.intent # None /\ v.intent.value = r.value /\ v.intent.at <= r.at
      [] r.kind = "follower_state" -> v.state = None
      [] r.kind = "ur_feedback"    -> v.state = [r EXCEPT !.kind = "follower_state"]
      [] OTHER -> TRUE

Accepts(v, r, publish) ==
    /\ r.kind \in Kinds
    /\ r.genuine                  \* the source the snapshot declares
    /\ publish = r.at             \* both clocks started together
    /\ ClockRight(r)
    /\ v.previous[r.kind] # None => Follows(v.previous[r.kind], r)
    /\ IF r.kind = "authority_event" THEN AuthorityNext(v, r) ELSE Paired(v, r)

Checked(v, r) ==
    LET u == [v EXCEPT !.previous[r.kind] = r,
                       !.first[r.kind] = IF @ = None THEN r.at ELSE @]
    IN  CASE r.kind = "authority_event" ->
               IF r.value = "acquired" THEN [u EXCEPT !.acquired = r.at]
               ELSE [u EXCEPT !.released = r.at]
          [] r.kind = "leader_intent"   -> Observed([u EXCEPT !.intent = r], r.at)
          [] r.kind = "sent_command"    -> Observed([u EXCEPT !.intent = None, !.sent = @ + 1], r.at)
          [] r.kind = "follower_state"  -> Observed([u EXCEPT !.state = r], r.at)
          [] r.kind = "ur_feedback"     -> Observed([u EXCEPT !.state = None], r.at)
          [] OTHER -> Observed(u, r.at)

-----------------------------------------------------------------------------
(* finish: an incomplete interval never becomes a valid episode.            *)
Complete(v) ==
    /\ \A k \in Kinds : v.previous[k] # None
    /\ v.intent = None /\ v.state = None
    /\ v.acquired # None /\ v.released # None
    /\ v.sent * CommandEvery > v.released - v.acquired
    /\ \A k \in Streams :
         v.first[k] - v.acquired <= MaxGap /\ v.released - v.previous[k].at <= MaxGap
    /\ v.acquired <= v.earliest /\ v.latest < v.released
=============================================================================
