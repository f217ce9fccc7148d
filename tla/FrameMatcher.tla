---------------------------- MODULE FrameMatcher ----------------------------
(***************************************************************************)
(* matching.py: the online matcher.  Every wrist frame is an anchor that   *)
(* waits in a bounded buffer until it is decided, once: an accepted group  *)
(* with the nearest fresh frame of every other camera, or a rejection.     *)
(* The decision is taken from what the buffers still hold, and frames      *)
(* leave them by pruning and by eviction.                                  *)
(*                                                                         *)
(* Data abstraction: a frame is its source time, its depth counter and     *)
(* depth time, its receipt, and (history) the instant it was pushed.       *)
(* Camera time and host time are two different clocks.  The color counter  *)
(* grows with the source time in every accepted source, so the time stands *)
(* for both; anything else is an invalid source frame.                     *)
(***************************************************************************)
EXTENDS Integers, Sequences, FiniteSets, SequencesExt

CONSTANTS
    None,        \* no frame yet
    Anchor,      \* the wrist role
    ViewOrder,   \* the other roles, in the order of CAMERA_ROLES
    Skew,        \* MatchConfig.max_skew_ns
    Wait,        \* MatchConfig.wait_ns
    Capacity,    \* MatchConfig.capacity
    Quantum,     \* RGB_TIME_QUANTUM_NS
    MaxNow,      \* bound: ticks of the host clock
    MaxFrames,   \* bound: frames, by role
    Gaps,        \* bound: source time from a frame to the next, by role
    Delays,      \* bound: time from the receipt of an anchor to its push
    DepthSteps   \* bound: growth of depth counter and depth time, by role

Views == ToSet(ViewOrder)
Roles == {Anchor} \cup Views

VARIABLES
    now,       \* Matcher._now
    state,     \* open, blocked (a source fault) or finished
    buffers,   \* Matcher._buffers
    last,      \* Matcher._last
    used,      \* Matcher._used
    overflow,  \* the roles Matcher.counters counts an overflow of
    out,       \* history: the decisions returned, in order
    pushed     \* history: every valid frame pushed

vars == <<now, state, buffers, last, used, overflow, out, pushed>>

Init ==
    /\ now = 0 /\ state = "open"
    /\ buffers = [r \in Roles |-> <<>>]
    /\ last = [r \in Roles |-> None] /\ used = [r \in Roles |-> None]
    /\ overflow = {} /\ out = <<>>
    /\ pushed = [r \in Roles |-> <<>>]

Distance(f, g) == IF f.t >= g.t THEN f.t - g.t ELSE g.t - f.t

-----------------------------------------------------------------------------
(* One decision.  A matcher in the middle of an operation is a record m of *)
(* its buffers, last, used, overflow and out.                               *)

Freshness(f, previous) ==
    IF previous = None THEN "accepted"
    ELSE IF f.t <= previous.t \/ f.depth <= previous.depth THEN "frame_reuse"
    ELSE IF f.t - previous.t < Quantum \/ f.depthTime <= previous.depthTime
         THEN "invalid_timing"
    ELSE "accepted"

Candidates(m, anchor, r) == {f \in ToSet(m.buffers[r]) : Distance(f, anchor) <= Skew}

Eligible(m, anchor, r) ==
    {f \in Candidates(m, anchor, r) : Freshness(f, m.used[r]) = "accepted"}

Nearer(f, g, anchor) ==
    \/ Distance(f, anchor) < Distance(g, anchor)
    \/ Distance(f, anchor) = Distance(g, anchor) /\ f.t <= g.t
Nearest(S, anchor) == CHOOSE f \in S : \A g \in S : Nearer(f, g, anchor)

NoMember(m, anchor, r) ==
    IF m.buffers[r] = <<>> THEN "missing_view"
    ELSE IF Candidates(m, anchor, r) = {} THEN "excessive_skew"
    ELSE IF \E f \in Candidates(m, anchor, r) : Freshness(f, m.used[r]) = "invalid_timing"
         THEN "invalid_timing"
    ELSE "frame_reuse"

\* The places of the roles that have no member.
Failing(m, anchor) == {k \in DOMAIN ViewOrder : Eligible(m, anchor, ViewOrder[k]) = {}}

Reason(m, anchor) ==
    IF Freshness(anchor, m.used[Anchor]) # "accepted" THEN Freshness(anchor, m.used[Anchor])
    ELSE IF Failing(m, anchor) # {} THEN NoMember(m, anchor, ViewOrder[Min(Failing(m, anchor))])
    ELSE "accepted"

Members(m, anchor) ==
    [r \in Roles |-> IF r = Anchor THEN anchor ELSE Nearest(Eligible(m, anchor, r), anchor)]

Result(anchor, reason, members) == [anchor |-> anchor, reason |-> reason, members |-> members]

\* Matcher._decide of an anchor that _drain has taken from its buffer.
Decide(m, anchor) ==
    LET reason == Reason(m, anchor) IN
    [m EXCEPT !.buffers[Anchor] = Tail(@),
              !.used = IF reason = "accepted" THEN Members(m, anchor) ELSE @,
              !.out = Append(@, Result(anchor, reason,
                                       IF reason = "accepted" THEN Members(m, anchor) ELSE None))]

-----------------------------------------------------------------------------
(* The operations.                                                          *)

Ready(m, anchor) == \A r \in Views : m.last[r] # None /\ m.last[r].t >= anchor.t

\* Mutant of Expired: a push decides an expired anchor after its own frame.
ExpiredLate(anchor, at, kind) == at >= anchor.receipt + Wait /\ kind # "push"

Expired(anchor, at, kind) ==
    IF kind = "push" THEN at > anchor.receipt + Wait ELSE at >= anchor.receipt + Wait

\* How many of s are in S, from the first on.
Leading(s, S) ==
    CHOOSE n \in 0..Len(s) :
        (\A i \in 1..n : s[i] \in S) /\ (n < Len(s) => s[n + 1] \notin S)

\* Which anchors _drain decides: kind is push (strict deadline), advance or
\* finish (force).  That does not depend on the decisions before it.
Due(m, at, kind) ==
    {a \in ToSet(m.buffers[Anchor]) : kind = "finish" \/ Expired(a, at, kind) \/ Ready(m, a)}

Decided(m, anchors, n) ==
    LET after[i \in 0..n] == IF i = 0 THEN m ELSE Decide(after[i - 1], anchors[i])
    IN  after[n]

Drain(m, at, kind) ==
    LET waiting == m.buffers[Anchor]
    IN  Decided(m, waiting, Leading(waiting, Due(m, at, kind)))

Earliest(a) == a.t - Skew

\* The frames without the leading ones that are too old.
Recent(frames, earliest) ==
    SubSeq(frames, Leading(frames, {f \in ToSet(frames) : f.t < earliest}) + 1, Len(frames))

Prune(m) ==
    LET pending == m.buffers[Anchor]
        a == IF pending # <<>> THEN pending[1] ELSE m.last[Anchor]
    IN  IF a = None THEN m
        ELSE [m EXCEPT !.buffers = [r \in Roles |->
                  IF r = Anchor THEN @[r] ELSE Recent(@[r], Earliest(a))]]

Evict(m, role) ==
    [m EXCEPT !.buffers[role] = Tail(@), !.overflow = @ \cup {role},
              !.out = IF role = Anchor
                      THEN Append(@, Result(Head(m.buffers[Anchor]), "overflow", None))
                      ELSE @]

MakeRoom(m, role) == IF Len(m.buffers[role]) = Capacity THEN Evict(m, role) ELSE m

Matcher == [buffers |-> buffers, last |-> last, used |-> used,
            overflow |-> overflow, out |-> out]
Becomes(m) ==
    /\ buffers' = m.buffers /\ last' = m.last /\ used' = m.used
    /\ overflow' = m.overflow /\ out' = m.out

PushFrame(f) ==
    LET expired == Drain(Matcher, now, "push")
        room == MakeRoom(Prune([expired EXCEPT !.last[f.role] = f]), f.role)
        taken == [room EXCEPT !.buffers[f.role] = Append(@, f)]
    IN  Becomes(Drain(taken, now, "advance"))

LastTime(r) == IF last[r] = None THEN 0 ELSE last[r].t
LastReceipt(r) == IF last[r] = None THEN 0 ELSE last[r].receipt
LastDepth(r) == IF last[r] = None THEN <<0, 0>> ELSE <<last[r].depth, last[r].depthTime>>

Push(r) ==
    /\ state = "open" /\ Len(pushed[r]) < MaxFrames[r]
    /\ \E gap \in Gaps[r], delay \in Delays, step \in DepthSteps[r] :
         /\ LastReceipt(r) <= now - delay /\ (r # Anchor => delay = 0)
         /\ LET f == [role |-> r, t |-> LastTime(r) + gap, receipt |-> now - delay, at |-> now,
                      depth |-> LastDepth(r)[1] + step[1], depthTime |-> LastDepth(r)[2] + step[2]]
            IN  /\ PushFrame(f)
                /\ pushed' = [pushed EXCEPT ![r] = Append(@, f)]
    /\ UNCHANGED <<now, state>>

\* _invalidate: pending anchors are rejected, everything else is forgotten.
Invalidate(reason) ==
    /\ out' = out \o [i \in 1..Len(buffers[Anchor]) |->
                          Result(buffers[Anchor][i], reason, None)]
    /\ buffers' = [r \in Roles |-> <<>>]
    /\ last' = [r \in Roles |-> None] /\ used' = [r \in Roles |-> None]

\* A frame of another clock, generation or source, or with counters that
\* went back: push raises SourceFault and the matcher is blocked.
PushInvalid ==
    /\ state = "open" /\ \E r \in Roles : pushed[r] # <<>>
    /\ Invalidate("source_fault")
    /\ state' = "blocked"
    /\ UNCHANGED <<now, overflow, pushed>>

Advance ==
    /\ state = "open"
    /\ Becomes(Drain(Matcher, now, "advance"))
    /\ UNCHANGED <<now, state, pushed>>

Finish ==
    /\ state = "open"
    /\ LET m == Drain(Matcher, now, "finish") IN
       Becomes([m EXCEPT !.buffers = [r \in Roles |-> <<>>]])
    /\ state' = "finished"
    /\ UNCHANGED <<now, pushed>>

Tick ==
    /\ now < MaxNow
    /\ now' = now + 1
    /\ UNCHANGED <<state, buffers, last, used, overflow, out, pushed>>

Next ==
    \/ \E r \in Roles : Push(r)
    \/ PushInvalid \/ Advance \/ Finish \/ Tick

Spec == Init /\ [][Next]_vars

-----------------------------------------------------------------------------
(* Properties.                                                              *)

TypeOK ==
    /\ now \in 0..MaxNow /\ state \in {"open", "blocked", "finished"}
    /\ \A r \in Roles :
         /\ ToSet(buffers[r]) \subseteq ToSet(pushed[r]) /\ Len(buffers[r]) <= Capacity
         /\ {last[r], used[r]} \subseteq {None} \cup ToSet(pushed[r])
    /\ \A i \in DOMAIN out : out[i].anchor \in ToSet(pushed[Anchor])

(* Every wrist frame that was pushed is decided exactly once, in the order *)
(* of arrival, or still waits: pruning, eviction, expiry inside a push, a  *)
(* source fault and the forced finish neither lose nor repeat an anchor.   *)
EveryAnchorOnce ==
    [i \in DOMAIN out |-> out[i].anchor] \o buffers[Anchor] = pushed[Anchor]

(* The last member of a role in an accepted group before the i-th decision. *)
Prior(i, r) ==
    LET groups == {j \in 1..(i - 1) : out[j].reason = "accepted"}
    IN  IF groups = {} THEN None
        ELSE out[CHOOSE j \in groups : \A k \in groups : k <= j].members[r]

(* The frames of r an anchor may be grouped with, of those pushed so far:   *)
(* near, newer than the group before, and not pushed after the anchor had   *)
(* waited in vain.                                                          *)
Choice(i, r) ==
    LET a == out[i].anchor IN
    {f \in ToSet(pushed[r]) :
        /\ Distance(f, a) <= Skew /\ Freshness(f, Prior(i, r)) = "accepted"
        /\ f.at <= a.receipt + Wait \/ f.at <= a.at}

(* A group in the making is decided from everything that was ever pushed:  *)
(* an accepted anchor has of every camera the nearest choice there is, and *)
(* an anchor is given up only when a camera offers no choice or the anchor *)
(* itself is not newer than the last group.  That holds at the decision:   *)
(* what pruning and expiry removed was no choice, and a frame that came    *)
(* after the deadline rescues nothing.  Only a buffer overflow may hide a  *)
(* choice, so it is stated as long as no view overflowed.  No anchor is    *)
(* lost or decided twice.                                                  *)
DecisionsExact ==
    [][EveryAnchorOnce' /\
       (out' # out /\ state' # "blocked" /\ overflow' \cap Views = {} =>
         \A i \in (Len(out) + 1)..Len(out') :
            LET a == out'[i].anchor
                fresh == Freshness(a, Prior(i, Anchor)') = "accepted"
            IN  CASE out'[i].reason = "accepted" ->
                       /\ fresh
                       /\ \A r \in Views :
                            /\ out'[i].members[r] \in Choice(i, r)'
                            /\ \A g \in Choice(i, r)' : Nearer(out'[i].members[r], g, a)
                  [] out'[i].reason = "overflow" -> TRUE
                  [] OTHER -> ~fresh \/ \E r \in Views : Choice(i, r)' = {})]_vars
=============================================================================
