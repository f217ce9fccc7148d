------------------------- MODULE MaintenanceJournal -------------------------
(***************************************************************************)
(* The journal that leader/maintenance.py keeps on disk while it moves the *)
(* motors of the leader from one baud rate to another, and what a reader   *)
(* of it may conclude about the motors.  LeaderMaintenance says what is    *)
(* done to them.                                                           *)
(***************************************************************************)
EXTENDS Integers, Sequences

CONSTANTS
    Ids,      \* bus.IDS in order
    Source,   \* from_baud of the plan
    Target    \* to_baud of the plan

Motors == {Ids[i] : i \in DOMAIN Ids}

VARIABLES
    rate,     \* the rate each motor answers at
    began,    \* history: the rates as apply began
    journal,  \* the durable events
    found     \* result.classification

Event(name, m) == [event |-> name, motor |-> m]
Journalled(name) == {journal[i].motor : i \in {i \in DOMAIN journal : journal[i].event = name}}

(* Wherever the process dies or gives up, and whatever bus an earlier run   *)
(* has left, the journal on disk locates the motors.  One without an intent *)
(* has not been written; an intent is only there after a preflight, which   *)
(* says that every motor began at the old rate; a verified motor is at the  *)
(* new one, and at most one, the last with an intent, is neither.  So a bus *)
(* of both rates is left as it is, and is not taken for one the journal has *)
(* checked.                                                                 *)
(* A rate found for a motor after a failure is the rate of the motor, even  *)
(* when its write was never acknowledged; and apply reports completion only *)
(* when every motor answers at the new rate.                                *)
JournalLocates ==
    LET open == Journalled("write_intent") \ Journalled("verified") IN
    /\ \A m \in Motors \ Journalled("write_intent") : rate[m] = began[m]
    /\ Journalled("write_intent") # {} => Journalled("preflight") # {}
    /\ Journalled("preflight") # {} => \A m \in Motors : began[m] = Source
    /\ \A m \in Journalled("verified") : rate[m] = Target
    /\ \A m, k \in open : m = k
    /\ \A m \in Motors : found[m] \subseteq {rate[m]}
    /\ (\E i \in DOMAIN journal : journal[i] = Event("completed", 0)) =>
         \A m \in Motors : rate[m] = Target
=============================================================================
