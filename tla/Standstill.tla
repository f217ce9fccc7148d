------------------------------ MODULE Standstill ------------------------------
(***************************************************************************)
(* The standstill policy of Settling fed with arbitrary samples, and the   *)
(* history of all of them, which the program does not keep: what the       *)
(* object says after an update is a statement about that history.          *)
(***************************************************************************)
EXTENDS Settling, Sequences

CONSTANTS
    Jumps,          \* by how much a clock may move between two updates
    MaxSamples      \* bound: updates in a behaviour

ASSUME StandstillAssumption ==
    /\ Jumps \subseteq Int
    /\ MaxSamples \in Nat

-----------------------------------------------------------------------------
VARIABLES
    window,     \* the object's two fields
    samples,    \* every update so far: where it was and whether it was slow
    confirmed   \* the answer of the last update

vars == <<window, samples, confirmed>>

Sample == [at : Place, slow : BOOLEAN]

\* The fields hold places, and a window is only open behind a sample.
TypeOK ==
    /\ window \in [previous : Place \cup {None}, start : Place \cup {None}]
    /\ window.start # None => window.previous # None
    /\ samples \in Seq(Sample)
    /\ confirmed \in BOOLEAN

Init ==
    /\ window = Fresher
    /\ samples = <<>>
    /\ confirmed = FALSE

Last == IF samples = <<>> THEN <<0, 0>> ELSE samples[Len(samples)].at

Update(at, slow) ==
    /\ Len(samples) < MaxSamples
    /\ window' = Kept(window, at, slow)
    /\ confirmed' = Confirms(window, at, slow)
    /\ samples' = Append(samples, [at |-> at, slow |-> slow])

Next ==
    \E jump \in Jumps \X Jumps, slow \in BOOLEAN :
        Update(<<Last[1] + jump[1], Last[2] + jump[2]>>, slow)

Spec == Init /\ [][Next]_vars

-----------------------------------------------------------------------------
(* What a confirmation means, said of the history alone.                   *)

\* Two samples of one window with nothing but repetitions of the first
\* between them: both clocks moved, by no more than Fresh.
Linked(h, i, j) ==
    /\ \A c \in Clocks : Gap(h[i].at, h[j].at, c) \in 1 .. Fresh
    /\ \A k \in (i + 1) .. (j - 1) : Repeated(h[i].at, h[k].at)

\* A set of samples that is an unbroken stretch of rest.
Rest(h, S) ==
    /\ S \subseteq DOMAIN h
    /\ \A i \in S : h[i].slow
    /\ \A i, j \in S :
          (i < j /\ \A k \in S : k <= i \/ j <= k) => Linked(h, i, j)

Spans(h, i, j) == \A c \in Clocks : Gap(h[i].at, h[j].at, c) >= Stable

\* "Standing still" is only said at the end of an unbroken stretch of slow
\* samples that is Stable long on both clocks: no sample of the stretch is a
\* cached repetition, no gap in it exceeds Fresh on either clock, and every
\* sample passed over in between only repeats one of the stretch.
HoldMeasured ==
    confirmed =>
        \E S \in SUBSET DOMAIN samples :
            /\ Rest(samples, S)
            /\ Len(samples) \in S
            /\ \E i \in S :
                  /\ \A j \in S : i <= j
                  /\ Spans(samples, i, Len(samples))

\* Nor is it withheld: as soon as samples that advance on both clocks, each
\* within Fresh of the last, have been slow for Stable after the first of
\* them, the arm is said to stand still, whatever came before.
HoldGranted ==
    \A i \in DOMAIN samples :
        (/\ i + 1 < Len(samples)
         /\ \A j \in i .. Len(samples) : samples[j].slow
         /\ \A j \in i .. (Len(samples) - 1), c \in Clocks :
               Gap(samples[j].at, samples[j + 1].at, c) \in 1 .. Fresh
         /\ Spans(samples, i + 1, Len(samples)))
        => confirmed

===============================================================================
