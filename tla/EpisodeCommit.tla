--------------------------- MODULE EpisodeCommit ---------------------------
(***************************************************************************)
(* What a writer promises its owner (storage.EpisodeWriter): entries are   *)
(* taken until the episode is sealed or lost; a sealed episode is either   *)
(* published whole, in one step, or lost; neither verdict is revised.      *)
(***************************************************************************)
EXTENDS Sequences

CONSTANT Entry      \* what can be submitted

VARIABLES
    phase,          \* "recording", "sealed", "committed" or "lost"
    content,        \* the entries the owner was told are accepted
    published       \* the entries of the published episode

vars == <<phase, content, published>>

Init == phase = "recording" /\ content = <<>> /\ published = <<>>

Accept(e) ==
    /\ phase = "recording"
    /\ content' = Append(content, e)
    /\ UNCHANGED <<phase, published>>

Seal ==
    /\ phase = "recording"
    /\ phase' = "sealed"
    /\ UNCHANGED <<content, published>>

Publish ==
    /\ phase = "sealed"
    /\ phase' = "committed"
    /\ published' = content
    /\ UNCHANGED content

Lose ==
    /\ phase \in {"recording", "sealed"}
    /\ phase' = "lost"
    /\ UNCHANGED <<content, published>>

Next == (\E e \in Entry : Accept(e)) \/ Seal \/ Publish \/ Lose

Spec == Init /\ [][Next]_vars
=============================================================================
