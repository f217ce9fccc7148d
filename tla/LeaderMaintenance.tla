------------------------- MODULE LeaderMaintenance -------------------------
(***************************************************************************)
(* leader/maintenance.py over leader/bus.py: the motors of the leader are  *)
(* moved, one after the other, from one baud rate to the next by a write   *)
(* to each motor's EEPROM.  A motor answers only at its own rate, the      *)
(* acknowledgement of a write may be lost, and a journal on disk says what *)
(* was attempted.                                                          *)
(*                                                                         *)
(* Every read of the bus and every line of the journal may fail, a         *)
(* keyboard interrupt may come at any step, and the process may die at any *)
(* step: what is left then is the journal and the motors.  Registers other *)
(* than the baud rate are one flag: unchanged since the plan, torque off.  *)
(***************************************************************************)
EXTENDS MaintenanceJournal

VARIABLES
    healthy,  \* no fault, torque off, settings as prepared
    host,     \* the rate of the serial port
    permit,   \* _BaudPort.permit: the motor whose write is armed
    run       \* where apply is: step and position in Ids

vars == <<rate, began, healthy, host, permit, journal, run, found>>

\* An earlier migration that failed has left the bus as it is.
Init ==
    /\ rate \in [Motors -> {Source, Target}] /\ began = rate
    /\ healthy \in [Motors -> BOOLEAN]
    /\ host = Source /\ permit = {}
    /\ journal = <<>> /\ run = [step |-> "preflight", at |-> 1]
    /\ found = [m \in Motors |-> {}]

At(step) == run.step = step
To(step) == run' = [run EXCEPT !.step = step]
Motor == Ids[run.at]

BusUnchanged == UNCHANGED <<rate, began, healthy, host, permit>>

\* _event: flushed and synced before the next step.
Logs(name, m) == journal' = Append(journal, Event(name, m))

-----------------------------------------------------------------------------
(* _checked_inventory and _same_settings: every motor answers, at the rate  *)
(* of the port, with its registers as planned.                              *)
Inventoried(at) == \A m \in Motors : rate[m] = at /\ healthy[m]

Preflight ==
    /\ At("preflight") /\ Inventoried(Source)
    /\ Logs("preflight", 0)
    /\ To("intent")
    /\ BusUnchanged /\ UNCHANGED found

\* Mutant of WriteIntent: the motor is written before its intent is durable.
WriteIntentLate ==
    /\ At("intent")
    /\ host' = Source /\ To("arm")
    /\ UNCHANGED <<rate, began, healthy, permit, journal, found>>

WriteIntent ==
    /\ At("intent")
    /\ host' = Source
    /\ Logs("write_intent", Motor) /\ To("arm")
    /\ UNCHANGED <<rate, began, healthy, permit, found>>

\* write_baud: torque is read, then exactly one write is armed.
Arm ==
    /\ At("arm") /\ rate[Motor] = host /\ healthy[Motor]
    /\ permit' = {Motor} /\ To("write")
    /\ UNCHANGED <<rate, began, healthy, host, journal, found>>

\* The packet reaches the motor or is lost; so is the answer, or it reports
\* a fault of the motor.
Write ==
    /\ At("write") /\ Motor \in permit
    /\ rate' \in {rate, [rate EXCEPT ![Motor] = Target]}
    /\ permit' = {}
    /\ To("result") \/ To("failing")
    /\ UNCHANGED <<began, healthy, host, journal, found>>

WriteResult ==
    /\ At("result")
    /\ Logs("write_result", Motor)
    /\ host' = Target /\ To("confirm")
    /\ UNCHANGED <<rate, began, healthy, permit, found>>

\* _confirm_motor: the read at the new rate resolves a lost acknowledgement.
Confirmed == rate[Motor] = host /\ healthy[Motor]

Verify ==
    /\ At("confirm") /\ Confirmed
    /\ Logs("verified", Motor)
    /\ run' = IF run.at = Len(Ids) THEN [run EXCEPT !.step = "check"]
              ELSE [step |-> "intent", at |-> run.at + 1]
    /\ BusUnchanged /\ UNCHANGED found

\* The whole bus at the new rate, then once more through a new connection.
Check ==
    /\ At("check") \/ At("reopen")
    /\ Inventoried(Target) /\ host' = Target
    /\ To(IF At("check") THEN "reopen" ELSE "complete")
    /\ UNCHANGED <<rate, began, healthy, permit, journal, found>>

Complete ==
    /\ At("complete")
    /\ Logs("completed", 0)
    /\ To("completed")
    /\ BusUnchanged /\ UNCHANGED found

-----------------------------------------------------------------------------
(* A read, a check or a line of the journal failed, or an interrupt.        *)

Migrating == run.step \in {"preflight", "intent", "arm", "write", "result", "confirm", "check"}

\* A line that could not be synced may still be on the disk, and the line
\* of the preflight is written before the settings are compared.
LineAtStep ==
    CASE At("preflight") /\ (\A m \in Motors : rate[m] = Source) -> {Event("preflight", 0)}
      [] At("intent") -> {Event("write_intent", Motor)}
      [] At("result") -> {Event("write_result", Motor)}
      [] At("confirm") /\ Confirmed -> {Event("verified", Motor)}
      [] OTHER -> {}

Fails ==
    /\ Migrating
    /\ permit' = {} /\ To("failing")
    /\ journal' \in {journal} \cup {Append(journal, e) : e \in LineAtStep}
    /\ UNCHANGED <<rate, began, healthy, host, found>>

\* Without its own line in the journal a failure is not classified.
Failing ==
    /\ At("failing")
    /\ \/ Logs("failed", 0) /\ run' = [step |-> "classify", at |-> 1] /\ host' = Source
       \/ To("failed") /\ UNCHANGED <<journal, host>>
    /\ UNCHANGED <<rate, began, healthy, permit, found>>

\* A motor at the other rate does not answer; one at this rate may not.
Answers(m) == IF rate[m] = host THEN {{}, {host}} ELSE {{}}

Classify ==
    /\ At("classify")
    /\ \E seen \in Answers(Motor) : found' = [found EXCEPT ![Motor] = @ \cup seen]
    /\ IF run.at < Len(Ids) THEN run' = [run EXCEPT !.at = @ + 1] /\ UNCHANGED host
       ELSE IF host = Source THEN run' = [run EXCEPT !.at = 1] /\ host' = Target
       ELSE To("failed") /\ UNCHANGED host
    /\ UNCHANGED <<rate, began, healthy, permit, journal>>

\* After the migration: nothing is written or classified any more.
FailsLate ==
    /\ At("reopen") \/ At("complete") \/ At("classify")
    /\ To("failed")
    /\ BusUnchanged /\ UNCHANGED <<journal, found>>

\* The process dies; an armed write may just have left.
Dies ==
    /\ run.step \notin {"completed", "failed", "dead"}
    /\ To("dead")
    /\ BusUnchanged /\ UNCHANGED <<journal, found>>

Next ==
    \/ Preflight \/ WriteIntent \/ Arm \/ Write \/ WriteResult \/ Verify \/ Check \/ Complete
    \/ Fails \/ Failing \/ Classify \/ FailsLate \/ Dies

Spec == Init /\ [][Next]_vars

-----------------------------------------------------------------------------
(* The type invariant; the property is JournalLocates.                      *)

TypeOK ==
    /\ rate \in [Motors -> {Source, Target}] /\ host \in {Source, Target}
    /\ permit \subseteq Motors /\ run.at \in DOMAIN Ids
    /\ found \in [Motors -> SUBSET {Source, Target}]
=============================================================================
