------------------------------- MODULE Settling -------------------------------
(***************************************************************************)
(* control/settling.py: the policy that turns measured samples into the    *)
(* statement "the arm stands still".  The object keeps no history, only    *)
(* the last sample it accepted and the sample its window starts at.        *)
(*                                                                         *)
(* A sample is placed at a pair of times, <<source, host>>: the robot      *)
(* controller's uptime and the receipt on the host.  Neither clock is      *)
(* trusted: a feedback cache repeats its source time, a restarted          *)
(* controller moves it back, a late loop leaves a gap in both.             *)
(***************************************************************************)
EXTENDS Integers

CONSTANTS
    Fresh,          \* freshness_ns: the longest gap inside a window
    Stable,         \* STABLE_NS: how long a window must be
    None            \* no sample yet, no window open

Place == Int \X Int

ASSUME SettlingAssumption ==
    /\ Fresh \in Nat /\ Stable \in Nat
    /\ None \notin Place

Clocks == {1, 2}
Gap(p, q, c) == q[c] - p[c]

\* Mutant of Broken: the longest allowed gap already breaks the window.
BrokenAtFresh(p, q) == \E c \in Clocks : Gap(p, q, c) < 0 \/ Gap(p, q, c) >= Fresh

Broken(p, q) == \E c \in Clocks : Gap(p, q, c) < 0 \/ Gap(p, q, c) > Fresh
Repeated(p, q) == ~Broken(p, q) /\ \E c \in Clocks : Gap(p, q, c) = 0

Fresher == [previous |-> None, start |-> None]

Ignores(s, at) == s.previous # None /\ Repeated(s.previous, at)
Reopens(s, at) ==
    s.start = None \/ (s.previous # None /\ Broken(s.previous, at))

\* Mutant of Kept: the window survives a sample that is too fast.
KeptThroughSpeed(s, at, slow) ==
    IF Ignores(s, at) THEN s
    ELSE [previous |-> at,
          start    |-> IF Reopens(s, at) THEN at ELSE s.start]

\* What the object keeps after update(qd, at): slow says that every joint is
\* finite and within STOP_SPEED.
Kept(s, at, slow) ==
    IF Ignores(s, at) THEN s
    ELSE [previous |-> at,
          start    |-> IF ~slow THEN None
                       ELSE IF Reopens(s, at) THEN at ELSE s.start]

Confirms(s, at, slow) ==
    /\ ~Ignores(s, at)
    /\ slow
    /\ \A c \in Clocks : Gap(Kept(s, at, slow).start, at, c) >= Stable
===============================================================================
