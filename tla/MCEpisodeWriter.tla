-------------------------- MODULE MCEpisodeWriter --------------------------
(***************************************************************************)
(* Two processes are given the same episode name; the queues hold one item *)
(* and one batch of two feedback records, so both overflow.                *)
(***************************************************************************)
EXTENDS EpisodeWriter

MCBatches == {1, 2}
=============================================================================
