----------------------- MODULE StationPrograms_proofs -----------------------
(***************************************************************************)
(* What holds of the programs of StationPrograms for every value of their  *)
(* constants: what a migration's journal locates, whom the simulator       *)
(* session and its robot obey, what the station lease covers, and what the *)
(* station file and the bundles keep.                                      *)
(***************************************************************************)
EXTENDS StationPrograms, TLAPS

-----------------------------------------------------------------------------
(* The maintenance of the leader's motors.  The events of the journal are   *)
(* only known through two sets, the motors with an intent and the verified  *)
(* ones.  While apply runs they are the motors before its position, with or *)
(* without the one it is at; once it has failed, what they say of the rates *)
(* is all that is left.                                                     *)

(* The motors of the bus are different ones.                               *)
BusOrdered ==
    /\ Ids \in Seq(Nat) /\ Ids # <<>>
    /\ \A i, j \in DOMAIN Ids : Ids[i] = Ids[j] => i = j

JournalEvents == {"preflight", "write_intent", "write_result", "verified", "completed", "failed"}
JournalEntries == [event : JournalEvents, motor : Nat]
RunSteps ==
    {"preflight", "intent", "arm", "write", "result", "confirm", "check", "reopen", "complete",
     "completed", "failing", "classify", "failed", "dead"}

JournalTyped ==
    /\ rate \in [Maintenance!Motors -> {Source, Target}] /\ host \in {Source, Target}
    /\ journal \in Seq(JournalEntries)
    /\ run \in [step : RunSteps, at : DOMAIN Ids]
    /\ found \in [Maintenance!Motors -> SUBSET {Source, Target}]

Passed == {Ids[i] : i \in 1..(run.at - 1)}
Intended == Maintenance!Journalled("write_intent")
Verified == Maintenance!Journalled("verified")

Preflighted == Maintenance!Journalled("preflight")

JournalFinished == \E i \in DOMAIN journal : journal[i] = Maintenance!Event("completed", 0)

(* What the journal says of the rates.                                     *)
MotorsLocated ==
    /\ \A m \in Maintenance!Motors \ Intended : rate[m] = began[m]
    /\ Intended # {} => Preflighted # {}
    /\ Preflighted # {} => \A m \in Maintenance!Motors : began[m] = Source
    /\ \A m \in Verified : rate[m] = Target

(* How far the journal is at each step of apply.                           *)
JournalProgress ==
    /\ run.step \notin {"preflight", "failing", "classify", "failed", "dead"} => Preflighted # {}
    /\ Maintenance!At("preflight") => Intended = {} /\ Verified = {} /\ run.at = 1
    /\ Maintenance!At("intent") => Intended = Passed /\ Verified = Passed
    /\ run.step \in {"arm", "write", "result", "confirm"} =>
         Intended = Passed \cup {Maintenance!Motor} /\ Verified = Passed
    /\ Maintenance!At("confirm") => host = Target
    /\ run.step \in {"check", "reopen", "complete", "completed"} =>
         Intended = Maintenance!Motors /\ Verified = Maintenance!Motors

(* The doubt is about one motor at most, a failure only looks at the rates, *)
(* and the last line is written last.                                       *)
RatesSettled ==
    /\ \A m, k \in Intended \ Verified : m = k
    /\ run.step \in {"preflight", "intent", "arm", "write", "result", "confirm", "check",
                     "reopen", "complete", "completed", "failing"} =>
         \A m \in Maintenance!Motors : found[m] = {}
    /\ \A m \in Maintenance!Motors : found[m] \subseteq {rate[m]}
    /\ JournalFinished => Maintenance!At("completed")

JournalOrdered ==
    /\ JournalTyped /\ Verified \subseteq Maintenance!Motors
    /\ MotorsLocated /\ JournalProgress /\ RatesSettled

-----------------------------------------------------------------------------
(* Facts about the journal and the order of the motors.                     *)

LEMMA MotorsOfIds ==
    ASSUME BusOrdered
    PROVE  /\ Maintenance!Motors = {Ids[i] : i \in DOMAIN Ids} /\ Maintenance!Motors \subseteq Nat
           /\ DOMAIN Ids = 1..Len(Ids) /\ Len(Ids) \in Nat /\ Len(Ids) > 0
BY DEF BusOrdered, Maintenance!Motors

LEMMA MotorIsOne ==
    ASSUME BusOrdered, JournalTyped
    PROVE  /\ Maintenance!Motor \in Maintenance!Motors /\ Maintenance!Motor \in Nat
           /\ Maintenance!Motor \notin Passed /\ Passed \subseteq Maintenance!Motors
<1>1. run.at \in DOMAIN Ids
  BY DEF JournalTyped
<1>2. Maintenance!Motor \in Maintenance!Motors /\ Maintenance!Motor \in Nat
  BY <1>1, MotorsOfIds DEF Maintenance!Motor
<1>3. ASSUME NEW i \in 1..(run.at - 1)
      PROVE  Ids[i] \in Maintenance!Motors /\ Ids[i] # Maintenance!Motor
  <2>1. i \in DOMAIN Ids /\ i # run.at
    BY <1>1, MotorsOfIds
  <2> QED BY <1>1, <2>1, MotorsOfIds DEF BusOrdered, Maintenance!Motor
<1> QED BY <1>2, <1>3 DEF Passed

\* A new line adds its motor to the set of its event, and to no other.
LEMMA LineAdds ==
    ASSUME JournalTyped, NEW e \in JournalEntries, NEW name \in JournalEvents,
           journal' = Append(journal, e)
    PROVE  /\ Maintenance!Journalled(name)' = IF e.event = name
                                               THEN Maintenance!Journalled(name) \cup {e.motor}
                                  ELSE Maintenance!Journalled(name)
           /\ JournalFinished' <=> JournalFinished \/ e = Maintenance!Event("completed", 0)
           /\ journal' \in Seq(JournalEntries)
<1>1. /\ journal \in Seq(JournalEntries) /\ journal' \in Seq(JournalEntries)
      /\ DOMAIN journal = 1..Len(journal) /\ DOMAIN journal' = 1..(Len(journal) + 1)
      /\ Len(journal) \in Nat
  BY DEF JournalTyped
<1>2. \A i \in DOMAIN journal : journal'[i] = journal[i]
  BY <1>1
<1>3. journal'[Len(journal) + 1] = e
  BY <1>1
<1>4. DOMAIN journal' = DOMAIN journal \cup {Len(journal) + 1}
  BY <1>1
<1>5. JournalFinished' <=> JournalFinished \/ e = Maintenance!Event("completed", 0)
  BY <1>2, <1>3, <1>4 DEF JournalFinished, Maintenance!Event
<1>6. ASSUME NEW m
      PROVE  m \in Maintenance!Journalled(name)' <=>
                 m \in Maintenance!Journalled(name) \/ (e.event = name /\ m = e.motor)
  BY <1>2, <1>3, <1>4 DEF Maintenance!Journalled
<1> QED BY <1>1, <1>5, <1>6

LEMMA LinesKept ==
    ASSUME journal' = journal
    PROVE  Intended' = Intended /\ Verified' = Verified /\ Preflighted' = Preflighted
           /\ (JournalFinished' <=> JournalFinished)
BY DEF Intended, Verified, Preflighted, Maintenance!Journalled, JournalFinished

\* A step that stays at its motor.
LEMMA SameMotor ==
    ASSUME JournalTyped, NEW step \in RunSteps, Maintenance!To(step)
    PROVE  /\ run'.step = step /\ run'.at = run.at /\ run' \in [step : RunSteps, at : DOMAIN Ids]
           /\ Passed' = Passed /\ Maintenance!Motor' = Maintenance!Motor
BY DEF JournalTyped, Maintenance!To, Passed, Maintenance!Motor

-----------------------------------------------------------------------------
(* One lemma for each action.                                               *)

LEMMA InitHolds ==
    ASSUME BusOrdered, Maintenance!Init
    PROVE  JournalOrdered
<1>1. /\ Maintenance!Journalled("write_intent") = {}
      /\ Maintenance!Journalled("verified") = {} /\ ~JournalFinished
      /\ Maintenance!Journalled("preflight") = {}
  BY DEF Maintenance!Init, Maintenance!Journalled, JournalFinished
<1>2. JournalTyped
  BY MotorsOfIds DEF Maintenance!Init, JournalTyped, RunSteps
<1> QED BY <1>1, <1>2
  DEF Maintenance!Init, JournalOrdered, MotorsLocated, JournalProgress, RatesSettled, Intended,
      Verified, Preflighted, Maintenance!At

LEMMA PreflightHolds ==
    ASSUME BusOrdered, JournalOrdered, Maintenance!Preflight
    PROVE  JournalOrdered'
<1> USE DEF Maintenance!Preflight, JournalOrdered, Maintenance!At
<1>1. /\ Maintenance!Event("preflight", 0) \in JournalEntries
      /\ Maintenance!Event("preflight", 0) # Maintenance!Event("completed", 0)
  BY DEF Maintenance!Event, JournalEntries, JournalEvents
<1>2. /\ Intended' = Intended /\ Verified' = Verified /\ Preflighted' # {}
      /\ (JournalFinished' <=> JournalFinished)
      /\ journal' \in Seq(JournalEntries)
  BY <1>1, LineAdds DEF Maintenance!Logs, Intended, Verified, Preflighted, Maintenance!Event,
      JournalEvents
<1>3. /\ run'.step = "intent" /\ run'.at = run.at /\ run' \in [step : RunSteps, at : DOMAIN Ids]
      /\ Passed' = Passed
  BY SameMotor DEF RunSteps
<1>4. Passed = {}
  BY DEF JournalProgress, Passed, JournalTyped
<1>5. JournalTyped' /\ MotorsLocated'
  BY <1>2, <1>3 DEF JournalTyped, MotorsLocated, JournalProgress, Maintenance!BusUnchanged, Maintenance!Inventoried
<1>6. JournalProgress'
  BY <1>2, <1>3, <1>4 DEF JournalProgress
<1>7. RatesSettled'
  BY <1>2, <1>3 DEF RatesSettled, Maintenance!BusUnchanged
<1> QED BY <1>2, <1>5, <1>6, <1>7

LEMMA WriteIntentHolds ==
    ASSUME BusOrdered, JournalOrdered, Maintenance!WriteIntent
    PROVE  JournalOrdered'
<1> USE DEF Maintenance!WriteIntent, JournalOrdered, Maintenance!At
<1>1. Maintenance!Event("write_intent", Maintenance!Motor) \in JournalEntries
  BY MotorIsOne DEF Maintenance!Event, JournalEntries, JournalEvents
<1>2. /\ Intended' = Intended \cup {Maintenance!Motor} /\ Verified' = Verified
      /\ Preflighted' = Preflighted /\ (JournalFinished' <=> JournalFinished)
      /\ journal' \in Seq(JournalEntries)
  BY <1>1, LineAdds DEF Maintenance!Logs, Intended, Verified, Preflighted, Maintenance!Event,
      JournalEvents
<1>3. /\ run'.step = "arm" /\ run'.at = run.at /\ run' \in [step : RunSteps, at : DOMAIN Ids]
      /\ Passed' = Passed /\ Maintenance!Motor' = Maintenance!Motor
  BY SameMotor DEF RunSteps
<1>4. JournalTyped' /\ MotorsLocated'
  BY <1>2, <1>3 DEF JournalTyped, MotorsLocated, JournalProgress
<1>5. JournalProgress'
  BY <1>2, <1>3 DEF JournalProgress
<1>6. RatesSettled'
  BY <1>2, <1>3 DEF RatesSettled, JournalProgress
<1> QED BY <1>2, <1>4, <1>5, <1>6

LEMMA ArmHolds ==
    ASSUME BusOrdered, JournalOrdered, Maintenance!Arm
    PROVE  JournalOrdered'
<1> USE DEF Maintenance!Arm, JournalOrdered, Maintenance!At
<1>1. Intended' = Intended /\ Verified' = Verified /\ Preflighted' = Preflighted
      /\ (JournalFinished' <=> JournalFinished)
  BY LinesKept
<1>2. /\ run'.step = "write" /\ run'.at = run.at /\ run' \in [step : RunSteps, at : DOMAIN Ids]
      /\ Passed' = Passed /\ Maintenance!Motor' = Maintenance!Motor
  BY SameMotor DEF RunSteps
<1> QED BY <1>1, <1>2 DEF JournalTyped, MotorsLocated, JournalProgress, RatesSettled

\* The motor that is written is neither without an intent nor verified.
LEMMA WriteHolds ==
    ASSUME BusOrdered, JournalOrdered, Maintenance!Write
    PROVE  JournalOrdered'
<1> USE DEF Maintenance!Write, JournalOrdered, Maintenance!At
<1>1. Intended' = Intended /\ Verified' = Verified /\ Preflighted' = Preflighted
      /\ (JournalFinished' <=> JournalFinished)
  BY LinesKept
<1>2. PICK step \in {"result", "failing"} : Maintenance!To(step)
  OBVIOUS
<1>3. /\ run'.step = step /\ run'.at = run.at /\ run' \in [step : RunSteps, at : DOMAIN Ids]
      /\ Passed' = Passed /\ Maintenance!Motor' = Maintenance!Motor
  BY <1>2, SameMotor DEF RunSteps
<1>4. /\ rate' \in [Maintenance!Motors -> {Source, Target}]
      /\ \A m \in Maintenance!Motors : m # Maintenance!Motor => rate'[m] = rate[m]
  BY DEF JournalTyped
<1>5. JournalTyped'
  BY <1>3, <1>4 DEF JournalTyped
<1>6. MotorsLocated'
  <2>1. Maintenance!Motor \in Intended /\ Maintenance!Motor \notin Verified
    BY MotorIsOne DEF JournalProgress
  <2> QED BY <1>1, <1>4, <2>1 DEF MotorsLocated
<1>7. JournalProgress' /\ RatesSettled'
  BY <1>1, <1>2, <1>3 DEF JournalProgress, RatesSettled
<1> QED BY <1>1, <1>5, <1>6, <1>7

LEMMA WriteResultHolds ==
    ASSUME BusOrdered, JournalOrdered, Maintenance!WriteResult
    PROVE  JournalOrdered'
<1> USE DEF Maintenance!WriteResult, JournalOrdered, Maintenance!At
<1>1. Maintenance!Event("write_result", Maintenance!Motor) \in JournalEntries
  BY MotorIsOne DEF Maintenance!Event, JournalEntries, JournalEvents
<1>2. /\ Intended' = Intended /\ Verified' = Verified /\ Preflighted' = Preflighted
      /\ (JournalFinished' <=> JournalFinished)
      /\ journal' \in Seq(JournalEntries)
  BY <1>1, LineAdds DEF Maintenance!Logs, Intended, Verified, Preflighted, Maintenance!Event,
      JournalEvents
<1>3. /\ run'.step = "confirm" /\ run'.at = run.at /\ run' \in [step : RunSteps, at : DOMAIN Ids]
      /\ Passed' = Passed /\ Maintenance!Motor' = Maintenance!Motor
  BY SameMotor DEF RunSteps
<1> QED BY <1>2, <1>3 DEF JournalTyped, MotorsLocated, JournalProgress, RatesSettled

\* A verified motor joins those before the next one; the last completes them.
LEMMA VerifyHolds ==
    ASSUME BusOrdered, JournalOrdered, Maintenance!Verify
    PROVE  JournalOrdered'
<1> USE DEF Maintenance!Verify, JournalOrdered, Maintenance!At
<1>1. Maintenance!Event("verified", Maintenance!Motor) \in JournalEntries
  BY MotorIsOne DEF Maintenance!Event, JournalEntries, JournalEvents
<1>2. /\ Intended' = Intended /\ Verified' = Verified \cup {Maintenance!Motor}
      /\ Preflighted' = Preflighted /\ (JournalFinished' <=> JournalFinished)
      /\ journal' \in Seq(JournalEntries)
  BY <1>1, LineAdds DEF Maintenance!Logs, Intended, Verified, Preflighted, Maintenance!Event,
      JournalEvents
<1>3. Intended = Passed \cup {Maintenance!Motor} /\ Verified = Passed /\ host = Target
  BY DEF JournalProgress
<1>4. MotorsLocated'
  BY <1>2, <1>3 DEF MotorsLocated, Maintenance!BusUnchanged, Maintenance!Confirmed
<1>5. CASE run.at = Len(Ids)
  <2>1. run' = [run EXCEPT !.step = "check"]
    BY <1>5
  <2>2. run'.step = "check" /\ run' \in [step : RunSteps, at : DOMAIN Ids]
    BY <2>1 DEF JournalTyped, RunSteps
  <2>3. Passed \cup {Maintenance!Motor} = Maintenance!Motors
    BY <1>5, MotorsOfIds DEF Passed, Maintenance!Motor
  <2>4. JournalTyped'
    BY <1>2, <2>2 DEF JournalTyped, Maintenance!BusUnchanged
  <2>5. JournalProgress'
    BY <1>2, <1>3, <2>2, <2>3 DEF JournalProgress
  <2>6. RatesSettled'
    BY <1>2, <1>3, <2>2 DEF RatesSettled, Maintenance!BusUnchanged
  <2>7. Verified' \subseteq Maintenance!Motors
    BY <1>2, MotorIsOne
  <2> QED BY <1>4, <2>4, <2>5, <2>6, <2>7
<1>6. CASE run.at # Len(Ids)
  <2>1. run' = [step |-> "intent", at |-> run.at + 1]
    BY <1>6
  <2>2. run'.step = "intent" /\ run' \in [step : RunSteps, at : DOMAIN Ids]
    BY <1>6, <2>1, MotorsOfIds DEF JournalTyped, RunSteps
  <2>3. Passed' = Passed \cup {Maintenance!Motor}
    BY <2>1, MotorsOfIds DEF JournalTyped, Passed, Maintenance!Motor
  <2>4. JournalTyped'
    BY <1>2, <2>2 DEF JournalTyped, Maintenance!BusUnchanged
  <2>5. JournalProgress'
    BY <1>2, <1>3, <2>2, <2>3 DEF JournalProgress
  <2>6. RatesSettled'
    BY <1>2, <1>3, <2>2 DEF RatesSettled, Maintenance!BusUnchanged
  <2>7. Verified' \subseteq Maintenance!Motors
    BY <1>2, MotorIsOne
  <2> QED BY <1>4, <2>4, <2>5, <2>6, <2>7
<1> QED BY <1>5, <1>6

LEMMA CheckHolds ==
    ASSUME BusOrdered, JournalOrdered, Maintenance!Check
    PROVE  JournalOrdered'
<1> USE DEF Maintenance!Check, JournalOrdered, Maintenance!At
<1>1. Intended' = Intended /\ Verified' = Verified /\ Preflighted' = Preflighted
      /\ (JournalFinished' <=> JournalFinished)
  BY LinesKept
<1>2. PICK step \in {"reopen", "complete"} : Maintenance!To(step)
  OBVIOUS
<1>3. /\ run'.step = step /\ run'.at = run.at /\ run' \in [step : RunSteps, at : DOMAIN Ids]
  BY <1>2, SameMotor DEF RunSteps
<1> QED BY <1>1, <1>2, <1>3 DEF JournalTyped, MotorsLocated, JournalProgress, RatesSettled

LEMMA CompleteHolds ==
    ASSUME BusOrdered, JournalOrdered, Maintenance!Complete
    PROVE  JournalOrdered'
<1> USE DEF Maintenance!Complete, JournalOrdered, Maintenance!At
<1>1. Maintenance!Event("completed", 0) \in JournalEntries
  BY DEF Maintenance!Event, JournalEntries, JournalEvents
<1>2. Intended' = Intended /\ Verified' = Verified /\ Preflighted' = Preflighted /\ journal' \in Seq(JournalEntries)
  BY <1>1, LineAdds DEF Maintenance!Logs, Intended, Verified, Preflighted, Maintenance!Event,
      JournalEvents
<1>3. run'.step = "completed" /\ run'.at = run.at /\ run' \in [step : RunSteps, at : DOMAIN Ids]
  BY SameMotor DEF RunSteps
<1> QED BY <1>2, <1>3
  DEF JournalTyped, MotorsLocated, JournalProgress, RatesSettled, Maintenance!BusUnchanged

\* A line that may be on the disk although it failed is one that is true.
LEMMA FailsHolds ==
    ASSUME BusOrdered, JournalOrdered, Maintenance!Fails
    PROVE  JournalOrdered'
<1> USE DEF Maintenance!Fails, JournalOrdered, Maintenance!At
<1>1. run'.step = "failing" /\ run'.at = run.at /\ run' \in [step : RunSteps, at : DOMAIN Ids]
  BY SameMotor DEF RunSteps
<1>2. /\ \A m \in Maintenance!Motors : found[m] = {}
      /\ ~JournalFinished
  BY DEF Maintenance!Migrating, RatesSettled
<1>3. CASE journal' = journal
  <2>1. Intended' = Intended /\ Verified' = Verified /\ Preflighted' = Preflighted
        /\ (JournalFinished' <=> JournalFinished)
    BY <1>3, LinesKept
  <2> QED BY <1>1, <1>2, <1>3, <2>1 DEF JournalTyped, MotorsLocated, JournalProgress, RatesSettled
<1>4. ASSUME NEW e \in Maintenance!LineAtStep, journal' = Append(journal, e)
      PROVE  JournalOrdered'
  <2>1. \/ /\ Maintenance!At("preflight") /\ e = Maintenance!Event("preflight", 0)
           /\ \A m \in Maintenance!Motors : rate[m] = Source
        \/ Maintenance!At("intent") /\ e = Maintenance!Event("write_intent", Maintenance!Motor)
        \/ Maintenance!At("result") /\ e = Maintenance!Event("write_result", Maintenance!Motor)
        \/ /\ Maintenance!At("confirm") /\ Maintenance!Confirmed
           /\ e = Maintenance!Event("verified", Maintenance!Motor)
    BY <1>4 DEF Maintenance!LineAtStep
  <2>2. e \in JournalEntries /\ e # Maintenance!Event("completed", 0) /\ e.motor \in Nat
    BY <2>1, MotorIsOne DEF Maintenance!Event, JournalEntries, JournalEvents
  <2>3. /\ Intended' = IF e.event = "write_intent" THEN Intended \cup {e.motor} ELSE Intended
        /\ Verified' = IF e.event = "verified" THEN Verified \cup {e.motor} ELSE Verified
        /\ Preflighted' = IF e.event = "preflight" THEN Preflighted \cup {e.motor} ELSE Preflighted
        /\ (JournalFinished' <=> JournalFinished) /\ journal' \in Seq(JournalEntries)
    BY <1>4, <2>2, LineAdds DEF Intended, Verified, Preflighted, JournalEvents
  <2>4. JournalTyped'
    BY <1>1, <2>3 DEF JournalTyped
  <2>5. Verified' \subseteq Maintenance!Motors /\ MotorsLocated'
    BY <2>1, <2>3, MotorIsOne
      DEF MotorsLocated, JournalProgress, Maintenance!Confirmed, Maintenance!Event
  <2>6. \A m, k \in Intended' \ Verified' : m = k
    BY <2>1, <2>3, MotorIsOne DEF RatesSettled, JournalProgress, Maintenance!Event
  <2>7. JournalProgress' /\ RatesSettled'
    BY <1>1, <1>2, <2>3, <2>6 DEF JournalProgress, RatesSettled
  <2> QED BY <2>4, <2>5, <2>7
<1> QED BY <1>3, <1>4

\* After a failure the rates are only looked at.
LEMMA FailingHolds ==
    ASSUME BusOrdered, JournalOrdered, Maintenance!Failing
    PROVE  JournalOrdered'
<1> USE DEF Maintenance!Failing, JournalOrdered, Maintenance!At
<1>1. CASE /\ Maintenance!Logs("failed", 0) /\ run' = [step |-> "classify", at |-> 1]
           /\ host' = Source
  <2>1. /\ Maintenance!Event("failed", 0) \in JournalEntries
        /\ Maintenance!Event("failed", 0) # Maintenance!Event("completed", 0)
    BY DEF Maintenance!Event, JournalEntries, JournalEvents
  <2>2. /\ Intended' = Intended /\ Verified' = Verified /\ Preflighted' = Preflighted
        /\ (JournalFinished' <=> JournalFinished)
        /\ journal' \in Seq(JournalEntries)
    BY <1>1, <2>1, LineAdds
      DEF Maintenance!Logs, Intended, Verified, Preflighted, Maintenance!Event,
      JournalEvents
  <2>3. run'.step = "classify" /\ run' \in [step : RunSteps, at : DOMAIN Ids]
    BY <1>1, MotorsOfIds DEF RunSteps
  <2> QED BY <1>1, <2>2, <2>3 DEF JournalTyped, MotorsLocated, JournalProgress, RatesSettled
<1>2. CASE Maintenance!To("failed") /\ UNCHANGED <<journal, host>>
  <2>1. Intended' = Intended /\ Verified' = Verified /\ Preflighted' = Preflighted
        /\ (JournalFinished' <=> JournalFinished)
    BY <1>2, LinesKept
  <2>2. run'.step = "failed" /\ run'.at = run.at /\ run' \in [step : RunSteps, at : DOMAIN Ids]
    BY <1>2, SameMotor DEF RunSteps
  <2> QED BY <1>2, <2>1, <2>2 DEF JournalTyped, MotorsLocated, JournalProgress, RatesSettled
<1> QED BY <1>1, <1>2

\* A motor that answers is at the rate of the port.
LEMMA ClassifyHolds ==
    ASSUME BusOrdered, JournalOrdered, Maintenance!Classify
    PROVE  JournalOrdered'
<1> USE DEF Maintenance!Classify, JournalOrdered, Maintenance!At
<1>1. Intended' = Intended /\ Verified' = Verified /\ Preflighted' = Preflighted
      /\ (JournalFinished' <=> JournalFinished)
  BY LinesKept
<1>2. PICK seen \in Maintenance!Answers(Maintenance!Motor) :
        found' = [found EXCEPT ![Maintenance!Motor] = @ \cup seen]
  OBVIOUS
<1>3. seen \subseteq {rate[Maintenance!Motor]}
  BY <1>2 DEF Maintenance!Answers
<1>4. /\ found' \in [Maintenance!Motors -> SUBSET {Source, Target}]
      /\ \A m \in Maintenance!Motors : found'[m] \subseteq {rate[m]}
  BY <1>2, <1>3, MotorIsOne DEF JournalTyped, RatesSettled
<1>5. /\ run' \in [step : RunSteps, at : DOMAIN Ids] /\ run'.step \in {"classify", "failed"}
      /\ host' \in {Source, Target}
  BY MotorsOfIds DEF JournalTyped, Maintenance!To, RunSteps
<1> QED BY <1>1, <1>4, <1>5 DEF JournalTyped, MotorsLocated, JournalProgress, RatesSettled

LEMMA FailsLateHolds ==
    ASSUME BusOrdered, JournalOrdered, Maintenance!FailsLate
    PROVE  JournalOrdered'
<1> USE DEF Maintenance!FailsLate, JournalOrdered, Maintenance!At
<1>1. Intended' = Intended /\ Verified' = Verified /\ Preflighted' = Preflighted
      /\ (JournalFinished' <=> JournalFinished)
  BY LinesKept
<1>2. run'.step = "failed" /\ run'.at = run.at /\ run' \in [step : RunSteps, at : DOMAIN Ids]
  BY SameMotor DEF RunSteps
<1> QED BY <1>1, <1>2
  DEF JournalTyped, MotorsLocated, JournalProgress, RatesSettled, Maintenance!BusUnchanged

LEMMA DiesHolds ==
    ASSUME BusOrdered, JournalOrdered, Maintenance!Dies
    PROVE  JournalOrdered'
<1> USE DEF Maintenance!Dies, JournalOrdered, Maintenance!At
<1>1. Intended' = Intended /\ Verified' = Verified /\ Preflighted' = Preflighted
      /\ (JournalFinished' <=> JournalFinished)
  BY LinesKept
<1>2. run'.step = "dead" /\ run'.at = run.at /\ run' \in [step : RunSteps, at : DOMAIN Ids]
  BY SameMotor DEF RunSteps
<1> QED BY <1>1, <1>2
  DEF JournalTyped, MotorsLocated, JournalProgress, RatesSettled, Maintenance!BusUnchanged

LEMMA StutterHolds ==
    ASSUME JournalOrdered, UNCHANGED Maintenance!vars
    PROVE  JournalOrdered'
BY LinesKept
  DEF Maintenance!vars, JournalOrdered, JournalTyped, MotorsLocated, JournalProgress,
      RatesSettled, Maintenance!At, Passed, Maintenance!Motor

-----------------------------------------------------------------------------
(* The invariant says what JournalLocates says.                             *)
LEMMA InvariantLocates ==
    ASSUME BusOrdered, JournalOrdered
    PROVE  JournalLocates
<1>1. \A m \in Maintenance!Motors : found[m] \subseteq {rate[m]}
  BY DEF JournalOrdered, RatesSettled
<1>2. ASSUME \E i \in DOMAIN journal : journal[i] = Maintenance!Event("completed", 0)
      PROVE  \A m \in Maintenance!Motors : rate[m] = Target
  <2>1. JournalFinished
    BY <1>2 DEF JournalFinished
  <2>2. Verified = Maintenance!Motors
    BY <2>1 DEF JournalOrdered, RatesSettled, JournalProgress, Maintenance!At
  <2> QED BY <2>2 DEF JournalOrdered, MotorsLocated
<1>3. Maintenance!JournalLocates
  BY <1>1, <1>2
    DEF Maintenance!JournalLocates, JournalOrdered, MotorsLocated, RatesSettled, Intended,
        Verified, Preflighted
<1>4. \A name : Journalled(name) = Maintenance!Journalled(name)
  BY DEF Journalled, Maintenance!Journalled
<1>5. Motors = Maintenance!Motors /\ Event("completed", 0) = Maintenance!Event("completed", 0)
  BY DEF Motors, Maintenance!Motors, Event, Maintenance!Event
<1> QED BY <1>3, <1>4, <1>5 DEF JournalLocates, Maintenance!JournalLocates

(* For any number of motors, on any bus an earlier migration has left, and *)
(* at any step at which this one fails, is interrupted or dies             *)
(* (maintenance.apply): the journal locates every motor it speaks of, a    *)
(* motor without an intent is left at its rate, and completion is only     *)
(* reported when all are at the new one.                                   *)
THEOREM JournalAlwaysLocates ==
    ASSUME BusOrdered
    PROVE  Maintenance!Spec => []JournalLocates
<1>1. Maintenance!Init => JournalOrdered
  BY InitHolds
<1>2. JournalOrdered /\ [Maintenance!Next]_(Maintenance!vars) => JournalOrdered'
  BY PreflightHolds, WriteIntentHolds, ArmHolds, WriteHolds, WriteResultHolds, VerifyHolds,
     CheckHolds, CompleteHolds, FailsHolds, FailingHolds, ClassifyHolds, FailsLateHolds,
     DiesHolds, StutterHolds DEF Maintenance!Next
<1>3. JournalOrdered => JournalLocates
  BY InvariantLocates
<1> QED BY <1>1, <1>2, <1>3, PTL DEF Maintenance!Spec

-----------------------------------------------------------------------------
(* The simulator session: its arm, its leader and its recorder.             *)

SimStates == {"needs_home", "homing", "ready", "preparing", "recording", "stopping",
              "finalizing", "held", "fault", "closed"}
SimArms ==
    [owner : {"none", "home", "rtde"},
     program : {"none", "idle", "moving", "hold", "fault", "follow", "stopping"},
     seen : BOOLEAN, settled : BOOLEAN, native : {"stopped", "pending", "running"},
     unconfirmed : BOOLEAN, pose : {"away", "ready"}]
SimLeaders ==
    [phase : {"idle", "prepare_home", "homing", "leading", "holding"},
     motion : {"idle", "holding", "homing", "held", "leading", "fault", "closed"},
     torque : BOOLEAN]
SimMessages == {"prepare", "begin", "samples", "stop", "settled"}
SimRecorders ==
    [state : {"idle", "preparing", "prepared", "recording", "stopped", "finalizing", "refused",
              "ended"},
     commands : Seq(SimMessages), replies : Seq({"prepare", "complete"}), abort : BOOLEAN]

\* Whom the arm belongs to when its release may have failed.
Owned(a) ==
    \/ a.owner = "none" /\ a.program = "none"
    \/ a.owner = "home" /\ a.program \in {"moving", "fault"} /\ a.unconfirmed
    \/ a.owner = "rtde" /\ a.program = "fault"

\* Whom the arm belongs to, and what may still move it.
ArmHeld(s, a) ==
    /\ s \in {"needs_home", "ready", "finalizing", "held"} =>
          a.owner = "none" /\ a.program = "none"
    /\ s \in {"fault", "closed"} => Owned(a)
    /\ s = "homing" => a.owner = "home" /\ a.program \in {"moving", "hold"}
    /\ s \in {"preparing", "recording", "stopping"} => a.owner = "rtde" /\ a.program # "moving"
    /\ s \notin {"fault", "closed"} => ~a.unconfirmed
    /\ ~PlayDelay =>
          /\ a.native # "pending"
          /\ a.native = "running" => a.unconfirmed \/ a.program = "moving"
          /\ s = "ready" \/ (s = "homing" /\ a.program = "hold") => a.pose = "ready"

\* What the leader does in every state of the session.
LeaderHeld(s, l) ==
    /\ s = "needs_home" => l.phase = "idle" /\ l.motion = "idle"
    /\ s = "homing" => /\ l.torque
                       /\ \/ l.phase = "prepare_home" /\ l.motion = "holding"
                          \/ l.phase = "homing" /\ l.motion \in {"homing", "held"}
    /\ s = "ready" => l.phase = "homing" /\ l.motion = "held" /\ l.torque
    /\ s \in {"preparing", "recording"} => l.phase = "leading" /\ l.motion = "leading"
    /\ s = "stopping" => l.phase = "holding" /\ l.motion \in {"holding", "held"} /\ l.torque
    /\ s \in {"finalizing", "held"} => l.phase = "holding" /\ l.motion = "held" /\ l.torque
    /\ s = "fault" => l.motion # "homing" /\ (l.phase # "idle" => l.torque \/ l.motion = "fault")
    /\ s = "closed" => l.motion = "closed"

\* The state of the recorder in which it takes a message, and the one after.
Before(message) ==
    IF message = "prepare" THEN "idle" ELSE IF message = "begin" THEN "prepared"
    ELSE IF message = "settled" THEN "stopped" ELSE "recording"
After(message) ==
    IF message = "prepare" THEN "preparing" ELSE IF message = "stop" THEN "stopped"
    ELSE IF message = "settled" THEN "finalizing" ELSE "recording"

\* The messages on their way lead the recorder from one state to the other.
Leads(from, messages, to) ==
    IF messages = <<>> THEN from = to
    ELSE /\ Before(messages[1]) = from /\ After(messages[Len(messages)]) = to
         /\ \A i \in 1 .. Len(messages) - 1 : Before(messages[i + 1]) = After(messages[i])

RecorderHeld(s, r) ==
    /\ r.state # "refused"
    /\ s \notin {"fault", "closed"} =>
         /\ ~r.abort
         /\ s \notin {"preparing", "finalizing"} => r.replies = <<>>
         /\ s \in {"needs_home", "homing", "ready", "held"} => Leads(r.state, r.commands, "idle")
         /\ s = "preparing" =>
              \/ Leads(r.state, r.commands, "preparing") /\ r.replies = <<>>
              \/ Leads(r.state, r.commands, "prepared") /\ r.replies = <<"prepare">>
         /\ s = "recording" => Leads(r.state, r.commands, "recording")
         /\ s = "stopping" => Leads(r.state, r.commands, "stopped")
         /\ s = "finalizing" =>
              \/ Leads(r.state, r.commands, "finalizing") /\ r.replies = <<>>
              \/ Leads(r.state, r.commands, "idle") /\ r.replies = <<"complete">>
    /\ s \in {"fault", "closed"} => r.abort

SimOrdered ==
    /\ lifecycle \in [state : SimStates, discard : BOOLEAN]
    /\ arm \in SimArms /\ leader \in SimLeaders /\ recorder \in SimRecorders
    /\ ArmHeld(lifecycle.state, arm)
    /\ LeaderHeld(lifecycle.state, leader)
    /\ RecorderHeld(lifecycle.state, recorder)

-----------------------------------------------------------------------------
(* The messages on their way.                                               *)

\* Nothing leads to these states but being in them.
LEMMA LeadsNowhere ==
    ASSUME NEW from, NEW m \in Seq(SimMessages), NEW to \in {"idle", "prepared"},
           Leads(from, m, to)
    PROVE  m = <<>> /\ from = to
BY DEF Leads, After

\* A recorder that is about to reply has nothing left to take.
LEMMA LeadsBusy ==
    ASSUME NEW from \in {"preparing", "finalizing"}, NEW m \in Seq(SimMessages), NEW to,
           Leads(from, m, to)
    PROVE  m = <<>> /\ from = to
BY DEF Leads, Before

LEMMA LeadsTaken ==
    ASSUME NEW from, NEW m \in Seq(SimMessages), NEW to, Leads(from, m, to), m # <<>>
    PROVE  /\ Head(m) \in SimMessages /\ Tail(m) \in Seq(SimMessages)
           /\ Before(Head(m)) = from /\ Leads(After(Head(m)), Tail(m), to)
<1> DEFINE t == Tail(m)
<1>1. /\ t \in Seq(SimMessages) /\ Len(t) = Len(m) - 1 /\ Len(m) \in Nat \ {0}
      /\ Head(m) = m[1] /\ m[1] \in SimMessages
      /\ \A i \in 1 .. Len(t) : t[i] = m[i + 1]
  OBVIOUS
<1> HIDE DEF t
<1>2. Before(Head(m)) = from
  BY <1>1 DEF Leads
<1>3. CASE t = <<>>
  <2>1. Len(m) = 1
    BY <1>1, <1>3
  <2>2. After(m[1]) = to
    BY <2>1 DEF Leads
  <2> QED BY <1>1, <1>2, <1>3, <2>2 DEF Leads, t
<1>4. CASE t # <<>>
  <2>1. Len(t) \in Nat \ {0} /\ Len(m) = Len(t) + 1
    BY <1>1, <1>4
  <2>2. Before(t[1]) = After(m[1]) /\ After(t[Len(t)]) = to
    BY <1>1, <2>1 DEF Leads
  <2>3. ASSUME NEW i \in 1 .. Len(t) - 1 PROVE Before(t[i + 1]) = After(t[i])
    <3>1. i \in 1 .. Len(t) /\ i + 1 \in 1 .. Len(t) /\ i + 1 \in 1 .. Len(m) - 1
      BY <2>1
    <3>2. t[i] = m[i + 1] /\ t[i + 1] = m[(i + 1) + 1]
      BY <1>1, <3>1
    <3> DEFINE k == i + 1
    <3>3. Before(m[k + 1]) = After(m[k])
      BY <3>1, <1>1, <2>1 DEF Leads
    <3> QED BY <3>2, <3>3
  <2> QED BY <1>1, <1>2, <1>4, <2>2, <2>3 DEF Leads, t
<1> QED BY <1>3, <1>4

LEMMA LeadsSent ==
    ASSUME NEW from, NEW m \in Seq(SimMessages), NEW to, Leads(from, m, to),
           NEW x \in Seq(SimMessages), NEW end, x # <<>>, Leads(to, x, end)
    PROVE  m \o x \in Seq(SimMessages) /\ Leads(from, m \o x, end)
<1> DEFINE all == m \o x
<1>1. /\ all \in Seq(SimMessages) /\ Len(all) = Len(m) + Len(x)
      /\ Len(m) \in Nat /\ Len(x) \in Nat \ {0}
      /\ \A i \in 1 .. Len(m) : all[i] = m[i]
      /\ \A i \in 1 .. Len(x) : all[Len(m) + i] = x[i]
  OBVIOUS
<1>2. m = <<>> => all = x
  OBVIOUS
<1> HIDE DEF all
<1>3. CASE m = <<>>
  BY <1>1, <1>2, <1>3 DEF Leads, all
<1>4. CASE m # <<>>
  <2> DEFINE n == Len(m)
             k == Len(x)
  <2>1. n \in Nat \ {0} /\ k \in Nat \ {0} /\ Len(all) = n + k
    BY <1>1, <1>4
  <2>2. /\ Before(m[1]) = from /\ After(m[n]) = to
        /\ \A i \in 1 .. n - 1 : Before(m[i + 1]) = After(m[i])
        /\ Before(x[1]) = to /\ After(x[k]) = end
        /\ \A i \in 1 .. k - 1 : Before(x[i + 1]) = After(x[i])
    BY <1>4 DEF Leads
  <2>3. /\ \A i \in 1 .. n : all[i] = m[i]
        /\ \A i \in 1 .. k : all[n + i] = x[i]
    BY <1>1
  <2> HIDE DEF n, k
  <2>4. Before(all[1]) = from /\ After(all[n + k]) = end
    BY <2>1, <2>2, <2>3
  <2>5. ASSUME NEW i \in 1 .. (n + k) - 1 PROVE Before(all[i + 1]) = After(all[i])
    <3>1. CASE i < n
      BY <2>1, <2>2, <2>3, <3>1
    <3>2. CASE i = n
      <4>1. all[n] = m[n] /\ all[n + 1] = x[1]
        BY <2>1, <2>3
      <4> QED BY <2>2, <3>2, <4>1
    <3>3. CASE i > n
      <4> DEFINE j == i - n
      <4>1. j \in 1 .. k - 1 /\ i = n + j /\ i + 1 = n + (j + 1)
            /\ j \in 1 .. k /\ j + 1 \in 1 .. k
        BY <2>1, <3>3
      <4> HIDE DEF j
      <4> QED BY <2>2, <2>3, <4>1
    <3> QED BY <2>1, <3>1, <3>2, <3>3
  <2>6. all # <<>>
    BY <1>1, <2>1
  <2> QED BY <1>1, <2>1, <2>4, <2>5, <2>6 DEF Leads, all
<1> QED BY <1>3, <1>4

-----------------------------------------------------------------------------

LEMMA SimInit == ASSUME Simulator!Init PROVE SimOrdered
<1>1. lifecycle \in [state : SimStates, discard : BOOLEAN] /\ lifecycle.state = "needs_home"
  BY DEF Simulator!Init, SimStates
<1>2. /\ arm \in SimArms /\ arm.owner = "none" /\ arm.program = "none" /\ arm.native = "stopped"
      /\ arm.unconfirmed = FALSE
  BY DEF Simulator!Init, SimArms
<1>3. leader \in SimLeaders /\ leader.phase = "idle" /\ leader.motion = "idle"
  BY DEF Simulator!Init, SimLeaders
<1>4. /\ recorder \in SimRecorders /\ recorder.state = "idle" /\ recorder.commands = <<>>
      /\ recorder.replies = <<>> /\ recorder.abort = FALSE
  BY DEF Simulator!Init, SimRecorders
<1> QED BY <1>1, <1>2, <1>3, <1>4 DEF SimOrdered, ArmHeld, LeaderHeld, RecorderHeld, Leads

\* What a failed call has left is brought to rest by Session.fail.
ArmMayFail(a) ==
    /\ a.program = "moving" => a.owner = "home"
    /\ a.owner = "home" => a.program \in {"moving", "hold", "fault"}
    /\ ~PlayDelay => /\ a.native # "pending"
                     /\ a.native = "running" => a.unconfirmed \/ a.program = "moving"
LeaderMayFail(l) ==
    \/ Simulator!MayHold(l)
    \/ l.motion # "homing" /\ (l.phase = "idle" \/ l.torque \/ l.motion = "fault")

LEMMA SimFreed ==
    ASSUME NEW a \in SimArms, NEW b \in Simulator!Releases(a), ArmMayFail(a)
    PROVE  /\ b \in SimArms /\ Owned(b)
           /\ ~PlayDelay => /\ b.native # "pending"
                            /\ b.native = "stopped" \/ b.unconfirmed \/ b.program = "moving"
           /\ b.owner = "none" /\ ~PlayDelay => b.native = "stopped" \/ b.unconfirmed
<1>1. CASE b = Simulator!Free([a EXCEPT !.native = IF a.program = "moving" THEN "stopped" ELSE a.native])
  <2>1. /\ b \in SimArms /\ b.owner = "none" /\ b.program = "none"
        /\ b.native = IF a.program = "moving" THEN "stopped" ELSE a.native
        /\ b.unconfirmed = a.unconfirmed
    BY <1>1 DEF Simulator!Free, SimArms
  <2> QED BY <2>1 DEF ArmMayFail, Owned, SimArms
<1>2. ASSUME a.program = "moving", NEW p \in {"moving", "fault"},
             b = [a EXCEPT !.program = p, !.unconfirmed = TRUE]
      PROVE  /\ b \in SimArms /\ Owned(b) /\ b.owner = "home" /\ b.unconfirmed
             /\ b.native = a.native
  BY <1>2 DEF SimArms, ArmMayFail, Owned
<1>3. CASE a.owner = "rtde" /\ b = [a EXCEPT !.program = "fault"]
  <2>1. /\ b \in SimArms /\ b.owner = "rtde" /\ b.program = "fault" /\ b.native = a.native
        /\ b.unconfirmed = a.unconfirmed
    BY <1>3 DEF SimArms
  <2>2. a.program # "moving"
    BY <1>3 DEF ArmMayFail
  <2> QED BY <2>1, <2>2 DEF Owned, ArmMayFail, SimArms
<1>4. \/ b = Simulator!Free([a EXCEPT !.native = IF a.program = "moving" THEN "stopped" ELSE a.native])
      \/ a.program = "moving" /\ \E p \in {"moving", "fault"} :
                                   b = [a EXCEPT !.program = p, !.unconfirmed = TRUE]
      \/ a.owner = "rtde" /\ b = [a EXCEPT !.program = "fault"]
  BY DEF Simulator!Releases, Simulator!CloseRaises
<1>5. CASE a.program = "moving" /\ \E p \in {"moving", "fault"} :
                                     b = [a EXCEPT !.program = p, !.unconfirmed = TRUE]
  BY <1>2, <1>5 DEF ArmMayFail
<1> QED BY <1>1, <1>3, <1>4, <1>5

\* Session.fail and a close, of a failed arm and leader.
LEMMA SimLeaderAfterFault ==
    ASSUME NEW l \in SimLeaders, LeaderMayFail(l), NEW m \in Simulator!LeaderAfterFault(l)
    PROVE  /\ m \in SimLeaders /\ m.motion # "homing"
           /\ m.phase # "idle" => m.torque \/ m.motion = "fault"
<1>1. CASE Simulator!MayHold(l)
  <2>1. ASSUME NEW h \in Simulator!Holds(l), m = [h EXCEPT !.phase = "holding"]
        PROVE  m \in SimLeaders /\ m.motion = "holding" /\ m.torque
    BY <2>1 DEF Simulator!Holds, SimLeaders
  <2>2. ASSUME m \in Simulator!HoldFails(l)
        PROVE  m \in SimLeaders /\ m.motion = "fault"
    BY <2>2 DEF Simulator!HoldFails, Simulator!Broken, SimLeaders
  <2> QED BY <1>1, <2>1, <2>2 DEF Simulator!LeaderAfterFault, Simulator!Phase
<1>2. CASE ~Simulator!MayHold(l)
  BY <1>2 DEF Simulator!LeaderAfterFault, LeaderMayFail
<1> QED BY <1>1, <1>2

LEMMA SimFails ==
    ASSUME SimOrdered, NEW a \in SimArms, NEW l \in SimLeaders, Simulator!Fail(a, l),
           ArmMayFail(a), LeaderMayFail(l)
    PROVE  SimOrdered'
<1>1. /\ lifecycle' \in [state : SimStates, discard : BOOLEAN] /\ lifecycle'.state = "fault"
  BY DEF SimOrdered, Simulator!Fail, SimStates
<1>2. /\ arm' \in SimArms /\ Owned(arm')
      /\ ~PlayDelay => /\ arm'.native # "pending"
                       /\ arm'.native = "stopped" \/ arm'.unconfirmed \/ arm'.program = "moving"
  BY SimFreed DEF Simulator!Fail
<1>3. /\ leader' \in SimLeaders /\ leader'.motion # "homing"
      /\ leader'.phase # "idle" => leader'.torque \/ leader'.motion = "fault"
  BY SimLeaderAfterFault DEF Simulator!Fail
<1>4. recorder' = [recorder EXCEPT !.abort = TRUE]
  BY DEF Simulator!Fail
<1>5. recorder' \in SimRecorders /\ recorder'.abort = TRUE /\ recorder'.state = recorder.state
  BY <1>4 DEF SimOrdered, SimRecorders
<1>6. ArmHeld(lifecycle'.state, arm')
  <2>1. ~PlayDelay /\ arm'.native = "running" => arm'.unconfirmed \/ arm'.program = "moving"
    BY <1>2
  <2> QED BY <1>1, <1>2, <2>1 DEF ArmHeld
<1>7. LeaderHeld(lifecycle'.state, leader')
  BY <1>1, <1>3 DEF LeaderHeld
<1>8. RecorderHeld(lifecycle'.state, recorder')
  BY <1>1, <1>5 DEF RecorderHeld, SimOrdered
<1> QED BY <1>1, <1>2, <1>3, <1>5, <1>6, <1>7, <1>8 DEF SimOrdered

\* A program that has failed, and its stop.
LEMMA SimFaulty ==
    ASSUME NEW c \in SimArms, c.owner = "home", c.program \in {"moving", "hold"},
           ~PlayDelay => c.native # "pending", NEW a \in Simulator!Faulty(c)
    PROVE  a \in SimArms /\ ArmMayFail(a)
<1>1. CASE a = [c EXCEPT !.unconfirmed = TRUE]
  BY <1>1 DEF SimArms, ArmMayFail
<1>2. CASE a = [[c EXCEPT !.native = "stopped"] EXCEPT !.program = "fault"]
  BY <1>2 DEF SimArms, ArmMayFail
<1>3. CASE a = [[c EXCEPT !.unconfirmed = TRUE] EXCEPT !.program = "fault"]
  BY <1>3 DEF SimArms, ArmMayFail
<1> QED BY <1>1, <1>2, <1>3 DEF Simulator!Faulty, Simulator!NativeStops

\* What may fail in every state in which the session goes on.
LEMMA SimMayFail ==
    ASSUME SimOrdered, Simulator!Alive
    PROVE  /\ arm \in SimArms /\ leader \in SimLeaders
           /\ ArmMayFail(arm) /\ LeaderMayFail(leader)
           /\ Simulator!Broken(leader) \in SimLeaders /\ LeaderMayFail(Simulator!Broken(leader))
<1>1. arm \in SimArms /\ leader \in SimLeaders /\ lifecycle.state \in SimStates
  BY DEF SimOrdered
<1>2. ArmMayFail(arm)
  BY DEF SimOrdered, ArmHeld, Owned, ArmMayFail, SimStates
<1>3. LeaderMayFail(leader)
  BY <1>1 DEF SimOrdered, LeaderHeld, LeaderMayFail, SimStates, Simulator!Alive, Simulator!MayHold
<1>4. Simulator!Broken(leader) \in SimLeaders /\ LeaderMayFail(Simulator!Broken(leader))
  BY <1>1 DEF Simulator!Broken, SimLeaders, LeaderMayFail
<1> QED BY <1>1, <1>2, <1>3, <1>4

LEMMA SimHoldFails ==
    ASSUME NEW l \in SimLeaders, NEW b \in Simulator!HoldFails(l)
    PROVE  b \in SimLeaders /\ LeaderMayFail(b)
<1>1. b \in SimLeaders /\ b.motion = "fault"
  BY DEF Simulator!HoldFails, Simulator!Broken, SimLeaders
<1> QED BY <1>1 DEF LeaderMayFail

LEMMA SimHolds ==
    ASSUME NEW l \in SimLeaders, NEW h \in Simulator!Holds(l),
           NEW phase \in {"prepare_home", "holding"}
    PROVE  LET held == [h EXCEPT !.phase = phase]
           IN  /\ held \in SimLeaders /\ held.phase = phase /\ held.motion = "holding"
               /\ held.torque
BY DEF Simulator!Holds, SimLeaders

-----------------------------------------------------------------------------
(* The keys.                                                                *)

LEMMA SimKeyHome == ASSUME SimOrdered, Simulator!KeyHome PROVE SimOrdered'
<1>1. /\ lifecycle.state \in {"needs_home", "held"} /\ Simulator!StartHome
      /\ arm \in SimArms /\ leader \in SimLeaders /\ recorder \in SimRecorders
      /\ lifecycle \in [state : SimStates, discard : BOOLEAN]
  BY DEF Simulator!KeyHome, Simulator!State, SimOrdered
<1>2. Simulator!Alive
  BY <1>1 DEF Simulator!Alive
<1>3. ASSUME NEW l \in Simulator!Holds(leader),
             arm' = [arm EXCEPT !.owner = "home", !.program = "moving",
                                !.native = IF PlayDelay THEN "pending" ELSE "running"],
             leader' = Simulator!Phase(l, "prepare_home"), Simulator!Becomes("homing"),
             UNCHANGED <<recorder, outcomes>>
      PROVE  SimOrdered'
  <2>1. /\ lifecycle' \in [state : SimStates, discard : BOOLEAN] /\ lifecycle'.state = "homing"
    BY <1>1, <1>3 DEF Simulator!Becomes, SimStates
  <2>2. /\ arm' \in SimArms /\ arm'.owner = "home" /\ arm'.program = "moving"
        /\ arm'.unconfirmed = arm.unconfirmed /\ (~PlayDelay => arm'.native = "running")
    BY <1>1, <1>3 DEF SimArms
  <2>3. /\ leader' \in SimLeaders /\ leader'.phase = "prepare_home"
        /\ leader'.motion = "holding" /\ leader'.torque
    BY <1>1, <1>3, SimHolds DEF Simulator!Phase
  <2>4. ArmHeld(lifecycle'.state, arm')
    BY <1>1, <2>1, <2>2 DEF SimOrdered, ArmHeld
  <2>5. LeaderHeld(lifecycle'.state, leader')
    BY <2>1, <2>3 DEF LeaderHeld
  <2>6. RecorderHeld(lifecycle'.state, recorder')
    BY <1>1, <1>3, <2>1 DEF SimOrdered, RecorderHeld
  <2> QED BY <1>1, <1>3, <2>1, <2>2, <2>3, <2>4, <2>5, <2>6 DEF SimOrdered
<1>4. ASSUME NEW l \in Simulator!Holds(leader)
      PROVE  /\ Simulator!Phase(l, "prepare_home") \in SimLeaders
             /\ LeaderMayFail(Simulator!Phase(l, "prepare_home"))
  BY <1>1, SimHolds DEF Simulator!Phase, LeaderMayFail
<1>5. ASSUME NEW l \in Simulator!Holds(leader),
             NEW a \in Simulator!Faulty([arm EXCEPT !.owner = "home", !.program = "moving",
                                                   !.native = "running"]),
             Simulator!Fail(a, Simulator!Phase(l, "prepare_home"))
      PROVE  SimOrdered'
  <2> DEFINE c == [arm EXCEPT !.owner = "home", !.program = "moving", !.native = "running"]
  <2>1. c \in SimArms /\ c.native = "running" /\ c.program = "moving" /\ c.owner = "home"
    BY <1>1 DEF SimArms
  <2> HIDE DEF c
  <2>4. a \in SimArms /\ ArmMayFail(a)
    BY <1>5, <2>1, SimFaulty DEF c
  <2> QED BY <1>4, <1>5, <2>4, SimFails
<1>6. ASSUME NEW l \in Simulator!Holds(leader),
             Simulator!Fail(arm, Simulator!Phase(l, "prepare_home"))
      PROVE  SimOrdered'
  BY <1>2, <1>4, <1>6, SimFails, SimMayFail
<1>7. ASSUME NEW l \in Simulator!HoldFails(leader), Simulator!Fail(arm, l)
      PROVE  SimOrdered'
  BY <1>1, <1>2, <1>7, SimFails, SimMayFail, SimHoldFails
<1> QED BY <1>1, <1>3, <1>5, <1>6, <1>7 DEF Simulator!StartHome

LEMMA SimKeyPrepare == ASSUME SimOrdered, Simulator!KeyPrepare PROVE SimOrdered'
<1> DEFINE a == [arm EXCEPT !.owner = "rtde", !.program = "idle"]
           l == [leader EXCEPT !.torque = FALSE, !.motion = "leading", !.phase = "leading"]
<1>1. /\ lifecycle.state = "ready"
      /\ arm \in SimArms /\ leader \in SimLeaders /\ recorder \in SimRecorders
      /\ lifecycle \in [state : SimStates, discard : BOOLEAN]
      /\ ArmHeld("ready", arm)
  BY DEF Simulator!KeyPrepare, Simulator!State, SimOrdered
<1>2. Simulator!Alive
  BY <1>1 DEF Simulator!Alive
<1>3. /\ a \in SimArms /\ a.owner = "rtde" /\ a.program = "idle" /\ a.native = arm.native
      /\ a.unconfirmed = arm.unconfirmed
  BY <1>1 DEF SimArms
<1>4. l \in SimLeaders /\ l.phase = "leading" /\ l.motion = "leading"
  BY <1>1 DEF SimLeaders
<1> HIDE DEF a, l
<1>5. CASE /\ Simulator!CanAcquire /\ Simulator!Send(<<"prepare">>)
           /\ lifecycle' = [state |-> "preparing", discard |-> FALSE]
           /\ leader' = l /\ arm' = a
  <2>1. /\ recorder.commands = <<>> /\ recorder.state = "idle" /\ recorder.replies = <<>>
        /\ ~recorder.abort
    <3>1. RecorderHeld("ready", recorder)
      BY <1>1 DEF SimOrdered
    <3> QED BY <1>1, <3>1, LeadsNowhere DEF RecorderHeld, SimRecorders
  <2>2. /\ recorder' = [recorder EXCEPT !.commands = <<"prepare">>]
    BY <1>1, <1>5, <2>1 DEF Simulator!Send, SimRecorders
  <2>3. <<"prepare">> \in Seq(SimMessages) /\ Leads("idle", <<"prepare">>, "preparing")
    BY DEF SimMessages, Leads, Before, After
  <2>4. /\ recorder' \in SimRecorders /\ recorder'.state = "idle"
        /\ recorder'.commands = <<"prepare">> /\ recorder'.replies = <<>> /\ ~recorder'.abort
    BY <1>1, <2>1, <2>2, <2>3 DEF SimRecorders
  <2>5. RecorderHeld("preparing", recorder')
    BY <2>3, <2>4 DEF RecorderHeld
  <2>6. ArmHeld("preparing", arm')
    BY <1>1, <1>3, <1>5 DEF ArmHeld, Simulator!CanAcquire
  <2>7. LeaderHeld("preparing", leader')
    BY <1>4, <1>5 DEF LeaderHeld
  <2> QED BY <1>3, <1>4, <1>5, <2>4, <2>5, <2>6, <2>7 DEF SimOrdered, SimStates
<1>6. LeaderMayFail(l)
  BY <1>4 DEF LeaderMayFail, Simulator!MayHold
<1>7. Simulator!CanAcquire => ArmMayFail(a)
  BY <1>1, <1>3 DEF Simulator!CanAcquire, ArmMayFail, ArmHeld
<1>8. CASE Simulator!Fail(arm, leader) \/ Simulator!Fail(arm, l)
  BY <1>2, <1>4, <1>6, <1>8, SimFails, SimMayFail
<1>9. CASE Simulator!CanAcquire /\ Simulator!Fail(a, l)
  BY <1>3, <1>4, <1>6, <1>7, <1>9, SimFails
<1> QED BY <1>5, <1>8, <1>9 DEF Simulator!KeyPrepare, Simulator!ReleasedLeader, a, l

LEMMA SimKeyStop == ASSUME SimOrdered, Simulator!KeyStop PROVE SimOrdered'
<1> DEFINE a == [arm EXCEPT !.program = "stopping"]
<1>1. /\ lifecycle.state = "recording"
      /\ arm \in SimArms /\ leader \in SimLeaders /\ recorder \in SimRecorders
      /\ lifecycle \in [state : SimStates, discard : BOOLEAN]
      /\ ArmHeld("recording", arm) /\ RecorderHeld("recording", recorder)
  BY DEF Simulator!KeyStop, Simulator!MayStop, Simulator!State, SimOrdered
<1>2. Simulator!Alive
  BY <1>1 DEF Simulator!Alive
<1>3. CASE /\ Simulator!Send(<<"stop">>) /\ arm' = a
           /\ \E discard \in BOOLEAN :
                lifecycle' = [state |-> "stopping", discard |-> discard \/ lifecycle.discard]
           /\ \E l \in Simulator!Holds(leader) : leader' = Simulator!Phase(l, "holding")
  <2>1. lifecycle' \in [state : SimStates, discard : BOOLEAN] /\ lifecycle'.state = "stopping"
    BY <1>1, <1>3 DEF SimStates
  <2>2. /\ a \in SimArms /\ a.owner = arm.owner /\ a.program = "stopping"
        /\ a.native = arm.native /\ a.unconfirmed = arm.unconfirmed
    BY <1>1 DEF SimArms
  <2>3. ArmHeld("stopping", arm')
    BY <1>1, <1>3, <2>2 DEF ArmHeld
  <2>4. leader' \in SimLeaders /\ LeaderHeld("stopping", leader')
    <3>1. /\ leader' \in SimLeaders /\ leader'.phase = "holding"
          /\ leader'.motion = "holding" /\ leader'.torque
      BY <1>1, <1>3, SimHolds DEF Simulator!Phase
    <3> QED BY <3>1 DEF LeaderHeld
  <2> DEFINE sent == recorder.commands \o <<"stop">>
  <2>5. <<"stop">> \in Seq(SimMessages) /\ Leads("recording", <<"stop">>, "stopped")
    BY DEF SimMessages, Leads, Before, After
  <2>6. sent \in Seq(SimMessages) /\ Leads(recorder.state, sent, "stopped")
    BY <1>1, <2>5, LeadsSent DEF RecorderHeld, SimRecorders
  <2>7. recorder' = [recorder EXCEPT !.commands = sent]
    BY <1>1, <1>3 DEF Simulator!Send, SimRecorders
  <2> HIDE DEF sent
  <2>8. /\ recorder' \in SimRecorders /\ recorder'.state = recorder.state
        /\ recorder'.commands = sent /\ recorder'.replies = recorder.replies
        /\ recorder'.abort = recorder.abort
    BY <1>1, <2>6, <2>7 DEF SimRecorders
  <2>9. RecorderHeld("stopping", recorder')
    BY <1>1, <2>6, <2>8 DEF RecorderHeld
  <2> QED BY <1>3, <2>1, <2>2, <2>3, <2>4, <2>8, <2>9 DEF SimOrdered
<1>4. ASSUME NEW l \in {leader} \cup Simulator!HoldFails(leader), Simulator!Fail(arm, l)
      PROVE  SimOrdered'
  BY <1>1, <1>2, <1>4, SimFails, SimMayFail, SimHoldFails
<1> QED BY <1>3, <1>4 DEF Simulator!KeyStop

LEMMA SimKeyDiscard == ASSUME SimOrdered, Simulator!KeyDiscard PROVE SimOrdered'
<1>1. /\ lifecycle' = [lifecycle EXCEPT !.discard = TRUE] /\ UNCHANGED <<arm, leader, recorder>>
      /\ lifecycle \in [state : SimStates, discard : BOOLEAN]
  BY DEF Simulator!KeyDiscard, SimOrdered
<1>2. /\ lifecycle' \in [state : SimStates, discard : BOOLEAN]
      /\ lifecycle'.state = lifecycle.state
  BY <1>1
<1> QED BY <1>1, <1>2 DEF SimOrdered

-----------------------------------------------------------------------------
(* The loop.                                                                *)

\* A step of the session without a failure.
LEMMA SimGoesOn ==
    ASSUME SimOrdered, NEW s \in SimStates, Simulator!Becomes(s),
           arm' \in SimArms, leader' \in SimLeaders, recorder' \in SimRecorders,
           ArmHeld(s, arm'), LeaderHeld(s, leader'), RecorderHeld(s, recorder')
    PROVE  SimOrdered'
<1>1. lifecycle' \in [state : SimStates, discard : BOOLEAN] /\ lifecycle'.state = s
  BY DEF SimOrdered, Simulator!Becomes
<1> QED BY <1>1 DEF SimOrdered

\* A step that leaves the state of the session.
LEMMA SimStays ==
    ASSUME SimOrdered, lifecycle' = lifecycle,
           arm' \in SimArms, leader' \in SimLeaders, recorder' \in SimRecorders,
           ArmHeld(lifecycle.state, arm'), LeaderHeld(lifecycle.state, leader'),
           RecorderHeld(lifecycle.state, recorder')
    PROVE  SimOrdered'
BY DEF SimOrdered

LEMMA SimSteps ==
    ASSUME NEW l \in SimLeaders, NEW m \in Simulator!Steps(l)
    PROVE  /\ m \in SimLeaders /\ m.phase = l.phase /\ m.torque = l.torque
           /\ m = l \/ (l.motion \in {"holding", "homing"} /\ m.motion = "held")
              \/ (l.motion = "held" /\ m.motion = "held")
BY DEF Simulator!Steps, SimLeaders

\* The program's own step: a hold is measured at READY, on a stopped program.
LEMMA SimNativeHold ==
    ASSUME NEW b \in SimArms, b = Simulator!NativeHold(arm), SimOrdered,
           lifecycle.state = "homing"
    PROVE  ArmHeld("homing", b) /\ ArmMayFail(b) /\ b.unconfirmed = arm.unconfirmed
<1>1. arm \in SimArms /\ ArmHeld("homing", arm)
  BY DEF SimOrdered
<1>2. CASE /\ arm.native # "running" /\ arm.pose = "ready"
           /\ b = [arm EXCEPT !.program = "hold"]
  BY <1>1, <1>2 DEF ArmHeld, ArmMayFail, SimArms
<1>3. CASE \E x, y : b = [arm EXCEPT !.settled = x, !.seen = y]
  <2>1. /\ b.owner = arm.owner /\ b.program = arm.program /\ b.native = arm.native
        /\ b.unconfirmed = arm.unconfirmed /\ b.pose = arm.pose
    BY <1>1, <1>3 DEF SimArms
  <2> QED BY <1>1, <2>1 DEF ArmHeld, ArmMayFail
<1> QED BY <1>2, <1>3 DEF Simulator!NativeHold, Simulator!Still

LEMMA SimStepHoming == ASSUME SimOrdered, Simulator!StepHoming PROVE SimOrdered'
<1> DEFINE a == Simulator!NativeHold(arm)
<1>1. /\ lifecycle.state = "homing"
      /\ arm \in SimArms /\ leader \in SimLeaders /\ recorder \in SimRecorders
      /\ lifecycle \in [state : SimStates, discard : BOOLEAN]
      /\ ArmHeld("homing", arm) /\ LeaderHeld("homing", leader)
      /\ RecorderHeld("homing", recorder)
  BY DEF Simulator!StepHoming, Simulator!State, SimOrdered
<1>2. Simulator!Alive
  BY <1>1 DEF Simulator!Alive
<1>3. a \in SimArms
  BY <1>1 DEF Simulator!NativeHold, Simulator!Still, SimArms
<1>4. ArmHeld("homing", a) /\ ArmMayFail(a)
  BY <1>1, <1>3, SimNativeHold
<1>5. \/ \E l \in Simulator!Steps(leader) :
           IF a.program = "hold" /\ Simulator!AtHome(leader, l)
           THEN /\ arm' = Simulator!Free(a) /\ leader' = l /\ Simulator!Becomes("ready")
                /\ UNCHANGED <<recorder, outcomes>>
           ELSE /\ arm' = a /\ leader' = Simulator!GoesHome(l)
                /\ UNCHANGED <<lifecycle, recorder, outcomes>>
      \/ \E b \in Simulator!Faulty(arm) : Simulator!Fail(b, leader)
      \/ Simulator!Fail(a, Simulator!Broken(leader))
  BY DEF Simulator!StepHoming
<1> HIDE DEF a
<1>6. ASSUME NEW l \in Simulator!Steps(leader), a.program = "hold",
             Simulator!AtHome(leader, l), arm' = Simulator!Free(a), leader' = l,
             Simulator!Becomes("ready"), UNCHANGED recorder
      PROVE  SimOrdered'
  <2>1. arm' = [a EXCEPT !.owner = "none", !.program = "none", !.seen = FALSE, !.settled = FALSE]
    BY <1>6 DEF Simulator!Free
  <2>2. /\ arm' \in SimArms /\ arm'.owner = "none" /\ arm'.program = "none"
        /\ arm'.native = a.native /\ arm'.unconfirmed = a.unconfirmed /\ arm'.pose = a.pose
    BY <1>3, <2>1 DEF SimArms
  <2>3. ArmHeld("ready", arm')
    BY <1>4, <1>6, <2>2 DEF ArmHeld
  <2>4. leader' \in SimLeaders /\ LeaderHeld("ready", leader')
    <3>1. /\ leader' \in SimLeaders /\ leader'.phase = "homing" /\ leader'.motion = "held"
          /\ leader'.torque = leader.torque
      BY <1>1, <1>6, SimSteps DEF Simulator!AtHome
    <3> QED BY <1>1, <3>1 DEF LeaderHeld
  <2>5. RecorderHeld("ready", recorder')
    BY <1>1, <1>6 DEF RecorderHeld
  <2> QED BY <1>1, <1>6, <2>2, <2>3, <2>4, <2>5, SimGoesOn DEF SimStates
<1>7. ASSUME NEW l \in Simulator!Steps(leader), arm' = a, leader' = Simulator!GoesHome(l),
             UNCHANGED <<lifecycle, recorder>>
      PROVE  SimOrdered'
  <2>1. /\ l \in SimLeaders /\ l.phase = leader.phase /\ l.torque = leader.torque
        /\ l = leader \/ l.motion = "held"
    BY <1>1, SimSteps
  <2>2. leader' \in SimLeaders /\ LeaderHeld("homing", leader')
    <3>1. CASE l.phase = "prepare_home" /\ l.motion = "held"
      <4>1. /\ leader' \in SimLeaders /\ leader'.phase = "homing" /\ leader'.motion = "homing"
            /\ leader'.torque = l.torque
        BY <1>7, <2>1, <3>1 DEF Simulator!GoesHome, SimLeaders
      <4> QED BY <1>1, <2>1, <4>1 DEF LeaderHeld
    <3>2. CASE ~(l.phase = "prepare_home" /\ l.motion = "held")
      <4>1. leader' = l
        BY <1>7, <3>2 DEF Simulator!GoesHome
      <4> QED BY <1>1, <2>1, <3>2, <4>1 DEF LeaderHeld
    <3> QED BY <3>1, <3>2
  <2> QED BY <1>1, <1>3, <1>4, <1>7, <2>2, SimStays
<1>8. ASSUME NEW b \in Simulator!Faulty(arm), Simulator!Fail(b, leader) PROVE SimOrdered'
  <2>3. b \in SimArms /\ ArmMayFail(b)
    BY <1>1, <1>8, SimFaulty DEF ArmHeld
  <2> QED BY <1>2, <1>8, <2>3, SimFails, SimMayFail
<1>9. CASE Simulator!Fail(a, Simulator!Broken(leader))
  BY <1>2, <1>3, <1>4, <1>9, SimFails, SimMayFail
<1> QED BY <1>5, <1>6, <1>7, <1>8, <1>9

LEMMA SimStepPreparing == ASSUME SimOrdered, Simulator!StepPreparing PROVE SimOrdered'
<1> DEFINE first == <<"begin", "samples">>
<1>1. /\ lifecycle.state = "preparing"
      /\ arm \in SimArms /\ leader \in SimLeaders /\ recorder \in SimRecorders
      /\ ArmHeld("preparing", arm) /\ LeaderHeld("preparing", leader)
      /\ RecorderHeld("preparing", recorder)
  BY DEF Simulator!StepPreparing, Simulator!State, SimOrdered
<1>2. /\ arm' = [arm EXCEPT !.program = "follow", !.pose = "away"] /\ leader' = leader
      /\ Simulator!Becomes("recording") /\ recorder.replies # <<>>
      /\ recorder' = [[recorder EXCEPT !.replies = <<>>] EXCEPT !.commands = @ \o first]
  BY DEF Simulator!StepPreparing, Simulator!Reply, Simulator!Taken
<1>3. recorder.commands = <<>> /\ recorder.state = "prepared" /\ ~recorder.abort
  BY <1>1, <1>2, LeadsNowhere DEF RecorderHeld, SimRecorders
<1>4. first \in Seq(SimMessages) /\ Leads("prepared", first, "recording")
  <2>1. first \in Seq(SimMessages) /\ first # <<>> /\ Len(first) = 2
        /\ first[1] = "begin" /\ first[2] = "samples"
    BY DEF SimMessages
  <2> HIDE DEF first
  <2> QED BY <2>1 DEF Leads, Before, After
<1>5. <<>> \o first = first
  OBVIOUS
<1>6. recorder' = [recorder EXCEPT !.replies = <<>>, !.commands = first]
  BY <1>1, <1>2, <1>3, <1>5 DEF SimRecorders
<1> HIDE DEF first
<1>7. /\ recorder' \in SimRecorders /\ recorder'.state = "prepared" /\ recorder'.commands = first
      /\ recorder'.replies = <<>> /\ ~recorder'.abort
  <2>1. <<>> \in Seq({"prepare", "complete"})
    OBVIOUS
  <2> QED BY <1>1, <1>3, <1>4, <1>6, <2>1 DEF SimRecorders
<1>8. RecorderHeld("recording", recorder')
  BY <1>4, <1>7 DEF RecorderHeld
<1>9. arm' \in SimArms /\ ArmHeld("recording", arm')
  <2>1. /\ arm' \in SimArms /\ arm'.program = "follow" /\ arm'.owner = arm.owner
        /\ arm'.native = arm.native /\ arm'.unconfirmed = arm.unconfirmed
    BY <1>1, <1>2 DEF SimArms
  <2> QED BY <1>1, <2>1 DEF ArmHeld
<1>10. LeaderHeld("recording", leader')
  BY <1>1, <1>2 DEF LeaderHeld
<1> QED BY <1>1, <1>2, <1>7, <1>8, <1>9, <1>10, SimGoesOn DEF SimStates

LEMMA SimStepRecording == ASSUME SimOrdered, Simulator!StepRecording PROVE SimOrdered'
<1>1. /\ lifecycle.state = "recording"
      /\ recorder \in SimRecorders /\ RecorderHeld("recording", recorder)
      /\ Simulator!Send(<<"samples">>) /\ UNCHANGED <<lifecycle, arm, leader>>
  BY DEF Simulator!StepRecording, Simulator!State, SimOrdered
<1> DEFINE sent == recorder.commands \o <<"samples">>
<1>2. <<"samples">> \in Seq(SimMessages) /\ Leads("recording", <<"samples">>, "recording")
  BY DEF SimMessages, Leads, Before, After
<1>3. sent \in Seq(SimMessages) /\ Leads(recorder.state, sent, "recording")
  BY <1>1, <1>2, LeadsSent DEF RecorderHeld, SimRecorders
<1>4. recorder' = [recorder EXCEPT !.commands = sent]
  BY <1>1 DEF Simulator!Send, SimRecorders
<1> HIDE DEF sent
<1>5. /\ recorder' \in SimRecorders /\ recorder'.state = recorder.state
      /\ recorder'.commands = sent /\ recorder'.replies = recorder.replies
      /\ recorder'.abort = recorder.abort
  BY <1>1, <1>3, <1>4 DEF SimRecorders
<1>6. RecorderHeld("recording", recorder')
  BY <1>1, <1>3, <1>5 DEF RecorderHeld
<1> QED BY <1>1, <1>5, <1>6, SimStays DEF SimOrdered

LEMMA SimStepStopping == ASSUME SimOrdered, Simulator!StepStopping PROVE SimOrdered'
<1>1. /\ lifecycle.state = "stopping"
      /\ arm \in SimArms /\ leader \in SimLeaders /\ recorder \in SimRecorders
      /\ ArmHeld("stopping", arm) /\ LeaderHeld("stopping", leader)
      /\ RecorderHeld("stopping", recorder)
  BY DEF Simulator!StepStopping, Simulator!State, SimOrdered
<1>2. Simulator!Alive
  BY <1>1 DEF Simulator!Alive
<1>3. ASSUME NEW a \in {arm, [arm EXCEPT !.program = "hold"]}
      PROVE  a \in SimArms /\ ArmHeld("stopping", a) /\ ArmMayFail(a)
  <2>1. /\ a \in SimArms /\ a.program \in {arm.program, "hold"} /\ a.owner = arm.owner
        /\ a.native = arm.native /\ a.unconfirmed = arm.unconfirmed
    BY <1>1 DEF SimArms
  <2> QED BY <1>1, <2>1 DEF ArmHeld, ArmMayFail
<1>4. ASSUME NEW a \in {arm, [arm EXCEPT !.program = "hold"]},
             NEW l \in {leader} \cup Simulator!Steps(leader), Simulator!Settled(a, l),
             Simulator!Send(<<"settled">>), arm' = Simulator!Free(a), leader' = l,
             Simulator!Becomes("finalizing")
      PROVE  SimOrdered'
  <2>1. a \in SimArms /\ ArmHeld("stopping", a) /\ a.program = "hold"
    BY <1>3, <1>4 DEF Simulator!Settled
  <2>2. arm' = [a EXCEPT !.owner = "none", !.program = "none", !.seen = FALSE, !.settled = FALSE]
    BY <1>4 DEF Simulator!Free
  <2>3. /\ arm' \in SimArms /\ arm'.owner = "none" /\ arm'.program = "none"
        /\ arm'.native = a.native /\ arm'.unconfirmed = a.unconfirmed
    BY <2>1, <2>2 DEF SimArms
  <2>4. ArmHeld("finalizing", arm')
    BY <2>1, <2>3 DEF ArmHeld
  <2>5. leader' \in SimLeaders /\ LeaderHeld("finalizing", leader')
    <3>1. /\ leader' \in SimLeaders /\ leader'.phase = leader.phase /\ leader'.motion = "held"
          /\ leader'.torque = leader.torque
      BY <1>1, <1>4, SimSteps DEF Simulator!Settled
    <3> QED BY <1>1, <3>1 DEF LeaderHeld
  <2> DEFINE sent == recorder.commands \o <<"settled">>
  <2>6. <<"settled">> \in Seq(SimMessages) /\ Leads("stopped", <<"settled">>, "finalizing")
    BY DEF SimMessages, Leads, Before, After
  <2>7. sent \in Seq(SimMessages) /\ Leads(recorder.state, sent, "finalizing")
    BY <1>1, <2>6, LeadsSent DEF RecorderHeld, SimRecorders
  <2>8. recorder' = [recorder EXCEPT !.commands = sent]
    BY <1>1, <1>4 DEF Simulator!Send, SimRecorders
  <2> HIDE DEF sent
  <2>9. /\ recorder' \in SimRecorders /\ recorder'.state = recorder.state
        /\ recorder'.commands = sent /\ recorder'.replies = recorder.replies
        /\ recorder'.abort = recorder.abort
    BY <1>1, <2>7, <2>8 DEF SimRecorders
  <2>10. RecorderHeld("finalizing", recorder')
    BY <1>1, <2>7, <2>9 DEF RecorderHeld
  <2> QED BY <1>4, <2>3, <2>4, <2>5, <2>9, <2>10, SimGoesOn DEF SimStates
<1>5. ASSUME NEW a \in {arm, [arm EXCEPT !.program = "hold"]},
             NEW l \in {leader} \cup Simulator!Steps(leader), arm' = a, leader' = l,
             UNCHANGED <<lifecycle, recorder>>
      PROVE  SimOrdered'
  <2>1. leader' \in SimLeaders /\ LeaderHeld("stopping", leader')
    <3>1. /\ leader' \in SimLeaders /\ leader'.phase = leader.phase
          /\ leader'.motion \in {leader.motion, "held"} /\ leader'.torque = leader.torque
      BY <1>1, <1>5, SimSteps
    <3> QED BY <1>1, <3>1 DEF LeaderHeld
  <2> QED BY <1>1, <1>3, <1>5, <2>1, SimStays
<1>6. ASSUME NEW a \in {arm, [arm EXCEPT !.program = "hold"]},
             Simulator!Fail(a, Simulator!Broken(leader))
      PROVE  SimOrdered'
  BY <1>2, <1>3, <1>6, SimFails, SimMayFail
<1>8. ASSUME NEW a \in {arm, [arm EXCEPT !.program = "hold"]},
             NEW l \in Simulator!Steps(leader), Simulator!Settled(a, l),
             Simulator!Fail([a EXCEPT !.program = "fault"], l)
      PROVE  SimOrdered'
  <2> DEFINE b == [a EXCEPT !.program = "fault"]
  <2>1. /\ b \in SimArms /\ b.owner = a.owner /\ b.program = "fault" /\ b.native = a.native
        /\ b.unconfirmed = a.unconfirmed
    BY <1>3 DEF SimArms
  <2>2. ArmMayFail(b)
    BY <1>3, <2>1 DEF ArmMayFail, ArmHeld
  <2> HIDE DEF b
  <2>3. l \in SimLeaders /\ LeaderMayFail(l)
    <3>1. l \in SimLeaders /\ l.motion = "held" /\ l.torque = leader.torque
      BY <1>1, <1>8, SimSteps DEF Simulator!Settled
    <3> QED BY <1>1, <3>1 DEF LeaderHeld, LeaderMayFail
  <2> QED BY <1>8, <2>1, <2>2, <2>3, SimFails DEF b
<1>7. PICK a \in {arm, [arm EXCEPT !.program = "hold"]} :
         \/ \E l \in {leader} \cup Simulator!Steps(leader) :
              IF Simulator!Settled(a, l)
              THEN /\ Simulator!Send(<<"settled">>)
                   /\ arm' = Simulator!Free(a) /\ leader' = l
                   /\ Simulator!Becomes("finalizing")
              ELSE arm' = a /\ leader' = l /\ UNCHANGED <<lifecycle, recorder>>
         \/ \E l \in Simulator!Steps(leader) : /\ Simulator!Settled(a, l)
                                              /\ Simulator!Fail([a EXCEPT !.program = "fault"], l)
         \/ Simulator!Fail(a, Simulator!Broken(leader))
  BY DEF Simulator!StepStopping
<1> QED BY <1>4, <1>5, <1>6, <1>7, <1>8

LEMMA SimStepStill == ASSUME SimOrdered, Simulator!StepStill PROVE SimOrdered'
<1>1. /\ lifecycle.state \in {"ready", "finalizing", "held"}
      /\ arm \in SimArms /\ leader \in SimLeaders /\ recorder \in SimRecorders
      /\ ArmHeld(lifecycle.state, arm) /\ LeaderHeld(lifecycle.state, leader)
      /\ RecorderHeld(lifecycle.state, recorder)
  BY DEF Simulator!StepStill, Simulator!State, SimOrdered
<1>2. Simulator!Alive
  BY <1>1 DEF Simulator!Alive
<1>3. CASE Simulator!Fail(arm, Simulator!Broken(leader))
  BY <1>2, <1>3, SimFails, SimMayFail
<1>4. CASE UNCHANGED <<lifecycle, arm, leader, recorder>>
  BY <1>1, <1>4, SimStays
<1>5. CASE /\ lifecycle.state = "finalizing" /\ recorder.replies # <<>>
           /\ recorder' = [recorder EXCEPT !.replies = <<>>] /\ Simulator!Becomes("held")
           /\ UNCHANGED <<arm, leader>>
  <2>1. recorder.commands = <<>> /\ recorder.state = "idle" /\ ~recorder.abort
    BY <1>1, <1>5, LeadsNowhere DEF RecorderHeld, SimRecorders
  <2>2. /\ recorder' \in SimRecorders /\ recorder'.state = "idle" /\ recorder'.commands = <<>>
        /\ recorder'.replies = <<>> /\ ~recorder'.abort
    <3>1. <<>> \in Seq({"prepare", "complete"})
      OBVIOUS
    <3> QED BY <1>1, <1>5, <2>1, <3>1 DEF SimRecorders
  <2>3. RecorderHeld("held", recorder')
    BY <2>2 DEF RecorderHeld, Leads
  <2>4. ArmHeld("held", arm') /\ LeaderHeld("held", leader')
    BY <1>1, <1>5 DEF ArmHeld, LeaderHeld
  <2> QED BY <1>1, <1>5, <2>2, <2>3, <2>4, SimGoesOn DEF SimStates
<1>6. leader' \in Simulator!Steps(leader) \cap {leader} => leader' = leader
  OBVIOUS
<1> QED BY <1>3, <1>4, <1>5, <1>6 DEF Simulator!StepStill, Simulator!State, Simulator!Reply,
        Simulator!Taken

LEMMA SimClose == ASSUME SimOrdered, Simulator!Close PROVE SimOrdered'
<1>1. /\ lifecycle.state \in SimStates \ {"closed"}
      /\ arm \in SimArms /\ leader \in SimLeaders /\ recorder \in SimRecorders
      /\ ArmHeld(lifecycle.state, arm) /\ Simulator!Becomes("closed")
      /\ recorder' = [recorder EXCEPT !.abort = TRUE, !.state = "ended"]
  BY DEF Simulator!Close, SimOrdered
<1>2. ASSUME NEW l \in SimLeaders, leader' = [l EXCEPT !.motion = "closed"]
      PROVE  leader' \in SimLeaders /\ leader'.motion = "closed"
  BY <1>2 DEF SimLeaders
<1>3. recorder' \in SimRecorders /\ recorder'.state = "ended" /\ recorder'.abort = TRUE
  BY <1>1 DEF SimRecorders
<1>4. CASE /\ lifecycle.state \in {"needs_home", "ready", "held"}
           /\ arm' = arm /\ leader' = [leader EXCEPT !.motion = "closed"]
  <2>1. /\ leader' \in SimLeaders /\ leader'.motion = "closed" /\ arm' \in SimArms
    BY <1>1, <1>2, <1>4
  <2>2. ArmHeld("closed", arm')
    BY <1>1, <1>4 DEF ArmHeld, Owned
  <2> QED BY <1>1, <1>3, <2>1, <2>2 DEF SimOrdered, LeaderHeld, RecorderHeld, Simulator!Becomes, SimStates
<1>5. CASE /\ arm' \in Simulator!Releases(arm)
           /\ \E l \in Simulator!LeaderAfterFault(leader) : leader' = [l EXCEPT !.motion = "closed"]
  <2>1. ArmMayFail(arm) /\ LeaderMayFail(leader)
    <3>1. CASE lifecycle.state = "fault"
      BY <1>1, <3>1 DEF SimOrdered, ArmHeld, ArmMayFail, Owned, LeaderHeld, LeaderMayFail
    <3>2. CASE lifecycle.state # "fault"
      BY <1>1, <3>2, SimMayFail DEF Simulator!Alive
    <3> QED BY <3>1, <3>2
  <2>2. leader' \in SimLeaders /\ leader'.motion = "closed"
    BY <1>1, <1>2, <1>5, <2>1, SimLeaderAfterFault
  <2>3. arm' \in SimArms /\ ArmHeld("closed", arm')
    BY <1>1, <1>5, <2>1, SimFreed DEF ArmHeld, SimArms
  <2> QED BY <1>1, <1>3, <2>2, <2>3 DEF SimOrdered, LeaderHeld, RecorderHeld, Simulator!Becomes, SimStates
<1> QED BY <1>4, <1>5 DEF Simulator!Close

-----------------------------------------------------------------------------
(* The recorder process and the controller.                                 *)

LEMMA SimRecorderTakes == ASSUME SimOrdered, Simulator!RecorderTakes PROVE SimOrdered'
<1> DEFINE m == recorder.commands
           first == Head(m)
           next == {t \in Simulator!Transition[first] : t[1] = recorder.state}
<1>1. /\ recorder \in SimRecorders /\ RecorderHeld(lifecycle.state, recorder)
      /\ lifecycle.state \in SimStates
      /\ m # <<>> /\ ~recorder.abort /\ m \in Seq(SimMessages)
      /\ recorder' = [recorder EXCEPT !.commands = Tail(@),
            !.state = IF next = {} THEN "refused" ELSE (CHOOSE t \in next : TRUE)[2]]
      /\ UNCHANGED <<lifecycle, arm, leader>>
  BY DEF Simulator!RecorderTakes, Simulator!OnlyRecorder, SimOrdered, SimRecorders
<1>2. lifecycle.state \notin {"fault", "closed"}
  BY <1>1 DEF RecorderHeld
<1>3. PICK to : Leads(recorder.state, m, to)
  BY <1>1, <1>2 DEF RecorderHeld, SimStates
<1>4. /\ first \in SimMessages /\ Tail(m) \in Seq(SimMessages) /\ Before(first) = recorder.state
      /\ \A end : Leads(recorder.state, m, end) => Leads(After(first), Tail(m), end)
  BY <1>1, <1>3, LeadsTaken
<1> HIDE DEF first
<1>5. Simulator!Transition[first] \in {{<<Before(first), After(first)>>},
                                       {<<"recording", "recording">>}}
  BY <1>4 DEF SimMessages, Simulator!Transition, Before, After
<1>6. Simulator!Transition[first] = {<<Before(first), After(first)>>}
  BY <1>4 DEF SimMessages, Simulator!Transition, Before, After
<1>7. next = {<<Before(first), After(first)>>}
  BY <1>4, <1>6
<1>8. next # {} /\ (CHOOSE t \in next : TRUE)[2] = After(first)
  <2>1. (CHOOSE t \in next : TRUE) = <<Before(first), After(first)>>
    BY <1>7
  <2> QED BY <1>7, <2>1
<1> HIDE DEF next
<1>9. recorder' = [recorder EXCEPT !.commands = Tail(m), !.state = After(first)]
  BY <1>1, <1>8 DEF SimRecorders
<1>10. After(first) \in {"preparing", "recording", "stopped", "finalizing"}
  BY DEF After
<1>11. /\ recorder' \in SimRecorders /\ recorder'.state = After(first)
       /\ recorder'.commands = Tail(m) /\ recorder'.replies = recorder.replies
       /\ recorder'.abort = recorder.abort
  <2> DEFINE t == Tail(m)
  <2>1. t \in Seq(SimMessages)
    BY <1>4
  <2> HIDE DEF t
  <2> QED BY <1>1, <1>9, <1>10, <2>1 DEF SimRecorders, t
<1>12. RecorderHeld(lifecycle.state, recorder')
  BY <1>1, <1>4, <1>10, <1>11 DEF RecorderHeld
<1> QED BY <1>1, <1>11, <1>12, SimStays DEF SimOrdered

LEMMA SimRecorderReplies == ASSUME SimOrdered, Simulator!RecorderReplies PROVE SimOrdered'
<1>1. /\ recorder \in SimRecorders /\ RecorderHeld(lifecycle.state, recorder)
      /\ lifecycle.state \in SimStates /\ ~recorder.abort
      /\ UNCHANGED <<lifecycle, arm, leader>>
  BY DEF Simulator!RecorderReplies, Simulator!Recording, Simulator!OnlyRecorder, SimOrdered
<1>2. lifecycle.state \notin {"fault", "closed"}
  BY <1>1 DEF RecorderHeld
<1>3. ASSUME recorder.state \in {"preparing", "finalizing"}
      PROVE  /\ recorder.commands = <<>> /\ recorder.replies = <<>>
             /\ lifecycle.state = recorder.state
  <2>1. ASSUME NEW to, Leads(recorder.state, recorder.commands, to)
        PROVE  recorder.commands = <<>> /\ to = recorder.state
    BY <1>1, <1>3, <2>1, LeadsBusy DEF SimRecorders
  <2> QED BY <1>1, <1>2, <1>3, <2>1 DEF RecorderHeld, SimStates
<1>4. ASSUME NEW from \in {"preparing", "finalizing"}, NEW to \in {"prepared", "idle"},
             NEW what \in {"prepare", "complete"},
             recorder.state = from,
             recorder' = [recorder EXCEPT !.state = to, !.replies = Append(@, what)],
             from = "preparing" => to = "prepared" /\ what = "prepare",
             from = "finalizing" => to = "idle" /\ what = "complete"
      PROVE  SimOrdered'
  <2>1. <<what>> \in Seq({"prepare", "complete"}) /\ Append(<<>>, what) = <<what>>
    OBVIOUS
  <2>2. /\ recorder' \in SimRecorders /\ recorder'.state = to /\ recorder'.commands = <<>>
        /\ recorder'.replies = <<what>> /\ ~recorder'.abort
    BY <1>1, <1>3, <1>4, <2>1 DEF SimRecorders
  <2>3. RecorderHeld(lifecycle.state, recorder')
    BY <1>3, <1>4, <2>2 DEF RecorderHeld, Leads
  <2> QED BY <1>1, <2>2, <2>3, SimStays DEF SimOrdered
<1> QED BY <1>4 DEF Simulator!RecorderReplies, Simulator!Recording

LEMMA SimNativeRuns == ASSUME SimOrdered, Simulator!NativeRuns PROVE SimOrdered'
<1>1. /\ arm \in SimArms /\ ArmHeld(lifecycle.state, arm)
      /\ UNCHANGED <<lifecycle, leader, recorder>>
      /\ \/ arm.native = "pending" /\ arm' = [arm EXCEPT !.native = "running"]
         \/ /\ arm.native = "running"
            /\ \E pose \in {"ready", "away"} :
                 arm' = [arm EXCEPT !.native = "stopped", !.pose = pose]
  BY DEF Simulator!NativeRuns, SimOrdered
<1>2. /\ arm' \in SimArms /\ arm'.owner = arm.owner /\ arm'.program = arm.program
      /\ arm'.unconfirmed = arm.unconfirmed
      /\ \/ arm.native = "pending"
         \/ arm.native = "running" /\ arm'.native = "stopped"
  BY <1>1 DEF SimArms
<1>3. ArmHeld(lifecycle.state, arm')
  BY <1>1, <1>2 DEF ArmHeld, Owned
<1> QED BY <1>1, <1>2, <1>3, SimStays DEF SimOrdered

-----------------------------------------------------------------------------

LEMMA SimStep == ASSUME SimOrdered, [Simulator!Next]_(Simulator!vars) PROVE SimOrdered'
<1>1. CASE UNCHANGED Simulator!vars
  BY <1>1 DEF Simulator!vars, SimOrdered
<1>2. CASE Simulator!StepFails
  BY <1>2, SimFails, SimMayFail DEF Simulator!StepFails
<1>3. CASE Simulator!Next
  BY <1>2, <1>3, SimKeyHome, SimKeyPrepare, SimKeyStop, SimKeyDiscard, SimStepHoming,
     SimStepPreparing, SimStepRecording, SimStepStopping, SimStepStill, SimClose,
     SimRecorderTakes, SimRecorderReplies, SimNativeRuns DEF Simulator!Next
<1> QED BY <1>1, <1>3

LEMMA SimAlwaysOrdered == Simulator!Spec => []SimOrdered
<1>1. Simulator!Init => SimOrdered
  BY SimInit
<1>2. SimOrdered /\ [Simulator!Next]_(Simulator!vars) => SimOrdered'
  BY SimStep
<1> QED BY <1>1, <1>2, PTL DEF Simulator!Spec

(* The recorder of the simulator session meets every message in a state     *)
(* that allows it: for every size of the queues and every interleaving of   *)
(* the loop, the recorder and the controller.                               *)
THEOREM RecorderAlwaysAccepts == Simulator!Spec => []Simulator!RecorderAccepts
<1>1. SimOrdered => Simulator!RecorderAccepts
  BY DEF SimOrdered, RecorderHeld, Simulator!RecorderAccepts
<1> QED BY <1>1, SimAlwaysOrdered, PTL

(* And nothing moves or falls that the session has let go, and what a       *)
(* failed release leaves owned is what ReleasedStill says, when the         *)
(* controller runs the native program by the time it acknowledges play.     *)
(* The code assumes that of play; without it, ReleasedStill may fail.       *)
THEOREM SessionIsOrdered == Simulator!Spec => [](~PlayDelay => SessionOrdered)
<1>1. SimOrdered => (~PlayDelay => SessionOrdered)
  <2> SUFFICES ASSUME ~PlayDelay, SimOrdered PROVE SessionOrdered
    OBVIOUS
  <2>1. /\ lifecycle.state \in SimStates /\ arm \in SimArms /\ leader \in SimLeaders
        /\ ArmHeld(lifecycle.state, arm) /\ LeaderHeld(lifecycle.state, leader)
    BY DEF SimOrdered
  <2>2. arm.owner = "none" => arm.native = "stopped" \/ arm.unconfirmed
    BY <2>1 DEF ArmHeld, Owned, SimArms, SimStates
  <2>3. lifecycle.state \notin {"needs_home", "preparing", "recording"} /\ leader.phase # "idle" =>
          leader.torque \/ leader.motion \in {"fault", "closed"}
    BY <2>1 DEF LeaderHeld, SimStates
  <2>4. /\ lifecycle.state = "fault" => leader.motion # "homing"
        /\ lifecycle.state \in {"fault", "closed"} =>
             \/ arm.owner = "none"
             \/ arm.owner = "home" /\ arm.unconfirmed
             \/ arm.owner = "rtde" /\ arm.program = "fault"
        /\ lifecycle.state = "ready" => arm.pose = "ready"
        /\ lifecycle.state \in {"ready", "finalizing", "held"} =>
             arm.owner = "none" /\ leader.motion = "held" /\ leader.torque
    BY <2>1 DEF ArmHeld, Owned, LeaderHeld
  <2>5. Simulator!ReleasedStill
    BY <2>2, <2>3, <2>4 DEF Simulator!ReleasedStill, Simulator!State
  <2> QED BY <2>5 DEF SessionOrdered, SimOrdered, RecorderHeld, Simulator!RecorderAccepts
<1> QED BY <1>1, SimAlwaysOrdered, PTL

-----------------------------------------------------------------------------
(* The simulated robot and its clients.                                     *)

RobotStates ==
    [mode : {"off", "powering", "idle", "releasing", "running"},
     program : {Nothing} \cup [kind : {"home", "script"}, by : Clients],
     pending : {Nothing} \cup [kind : {"home"}, by : Clients], still : BOOLEAN]
ClientStates ==
    [launches : Nat, at : {"out", "identify", "waiting", "braking", "session", "fault"},
     owner : {Nothing, "home", "rtde"}, native : {"idle", "moving", "stopping", "hold", "fault"},
     control : {"none", "created", "watched"}]

RobotTyped ==
    /\ lease \in Clients \cup {Nothing}
    /\ robot \in RobotStates
    /\ client \in [Clients -> ClientStates]
    /\ stray \in BOOLEAN

\* Client c, in state f: one beyond the lease has it, one with a motion is such
\* a client, and, if no HOME strays, what the robot executes and has to start
\* is what its state says.
Placed(f, c, l, r, strays) ==
    /\ f.at # "out" => l = c
    /\ f.owner # Nothing => f.at # "out"
    /\ f.control # "none" => f.owner = "rtde"
    /\ ~strays =>
         /\ f.control # "none" => r.program \in {Nothing, Robot!Program("script", c)}
         /\ f.owner = "home" /\ f.native = "hold" => r.program = Nothing /\ r.pending = Nothing
         /\ r.pending = Robot!Program("home", c) =>
              f.owner = "home" /\ f.native \in {"moving", "stopping"}

ClientPlaced(c) == Placed(client[c], c, lease, robot, stray)

\* A program still to start finds none, on an arm that is still.
Clear(r) == r.pending # Nothing => r.program = Nothing /\ r.still

RobotOrdered ==
    /\ RobotTyped
    /\ \A c \in Clients : ClientPlaced(c)
    /\ ~stray => Clear(robot)

LEMMA RobotInit == ASSUME Robot!Init PROVE RobotOrdered
<1>1. robot.program = Nothing /\ robot.pending = Nothing /\ stray = FALSE /\ robot \in RobotStates
  BY DEF Robot!Init, RobotStates
<1>2. Robot!Outside(0) \in ClientStates
  BY DEF Robot!Outside, ClientStates
<1>3. RobotTyped
  BY <1>1, <1>2 DEF Robot!Init, RobotTyped
<1>4. \A c \in Clients : client[c] = Robot!Outside(0)
  BY DEF Robot!Init
<1> QED BY <1>1, <1>3, <1>4, RobotAssumption
  DEF RobotOrdered, ClientPlaced, Placed, Clear, Robot!Outside, Robot!Program

\* What one client's step says of the clients: the others have no lease, no
\* program and no script of the SDK.
LEMMA RobotClientStep ==
    ASSUME RobotOrdered, NEW c \in Clients, NEW f \in ClientStates, Robot!Client(c, f),
           lease \in {c, Nothing}
    PROVE  /\ client' \in [Clients -> ClientStates]
           /\ client'[c] = f
           /\ \A d \in Clients \ {c} :
                 client'[d] = client[d] /\ client[d].at = "out" /\ client[d].owner = Nothing
                 /\ client[d].control = "none"
<1>1. client \in [Clients -> ClientStates] /\ client' = [client EXCEPT ![c] = f]
  BY DEF RobotOrdered, RobotTyped, Robot!Client
<1>2. \A d \in Clients \ {c} :
        client[d].at = "out" /\ client[d].owner = Nothing /\ client[d].control = "none"
  BY RobotAssumption DEF RobotOrdered, ClientPlaced, Placed
<1> QED BY <1>1, <1>2

RobotSafe ==
    /\ \A c \in Clients : client'[c].at # "out" => lease' = c
    /\ ~stray' =>
         /\ (robot'.program # Nothing /\ robot'.program # robot.program) =>
              robot.program = Nothing /\ robot.still
         /\ \A c \in Clients : client'[c].control # "none" =>
              robot'.program \in {Nothing, Robot!Program("script", c)}
         /\ \A c \in Clients :
              (client[c].owner = "home" /\ client'[c].owner = Nothing /\ client'[c].at = "session") =>
              robot.program = Nothing /\ robot.pending = Nothing

\* The robot goes on: what it executes may only end.
LEMMA RobotGoesOn ==
    ASSUME RobotOrdered, NEW r \in RobotStates, Robot!Robot(r),
           r.program \in {Nothing, robot.program}, r.pending = robot.pending,
           robot.program = Nothing /\ robot.still => r.still
    PROVE  RobotOrdered' /\ RobotSafe
<1>1. robot' = r /\ lease' = lease /\ client' = client /\ stray' = stray
  BY DEF Robot!Robot
<1>2. RobotTyped'
  BY <1>1 DEF RobotOrdered, RobotTyped
<1>3. \A c \in Clients : ClientPlaced(c)'
  BY <1>1 DEF RobotOrdered, ClientPlaced, Placed, Robot!Program
<1>4. ~stray' => Clear(robot)'
  BY <1>1 DEF RobotOrdered, Clear
<1> QED BY <1>1, <1>2, <1>3, <1>4, RobotAssumption DEF RobotOrdered, ClientPlaced, Placed, RobotSafe

LEMMA RobotThrough ==
    ASSUME stray \in BOOLEAN, NEW c, Robot!IsThrough(c)
    PROVE  stray' \in BOOLEAN /\ (~stray' => ~stray /\ robot'.pending # Robot!Program("home", c))
<1>1. stray' = (stray \/ robot'.pending = Robot!Program("home", c))
  BY DEF Robot!IsThrough
<1>2. CASE robot'.pending = Robot!Program("home", c)
  <2>1. stray' = TRUE
    BY <1>1, <1>2
  <2> QED BY <2>1
<1>3. CASE robot'.pending # Robot!Program("home", c)
  <2>1. stray' = stray
    BY <1>1, <1>3
  <2> QED BY <1>3, <2>1
<1> QED BY <1>2, <1>3

\* The robot starts the program of a client that waits for it.
LEMMA RobotStarts == ASSUME RobotOrdered, Robot!Starts PROVE RobotOrdered' /\ RobotSafe
<1>1. /\ robot' = [robot EXCEPT !.program = robot.pending, !.pending = Nothing]
      /\ robot.pending # Nothing /\ robot \in RobotStates
      /\ lease' = lease /\ client' = client /\ stray' = stray
  BY DEF Robot!Starts, Robot!Robot, RobotOrdered, RobotTyped
<1>2. /\ robot' \in RobotStates /\ robot'.program = robot.pending /\ robot'.pending = Nothing
      /\ \A c \in Clients : robot'.pending # Robot!Program("home", c)
  <2>1. robot.pending \in {Nothing} \cup [kind : {"home", "script"}, by : Clients]
    BY <1>1 DEF RobotStates
  <2>2. robot' \in RobotStates /\ robot'.program = robot.pending /\ robot'.pending = Nothing
    BY <1>1, <2>1 DEF RobotStates
  <2>3. \A c \in Clients : Robot!Program("home", c) # Nothing
    BY RobotAssumption DEF Robot!Program
  <2> QED BY <2>2, <2>3
<1>3. PICK d \in Clients : robot.pending = Robot!Program("home", d)
  BY <1>1 DEF RobotStates, Robot!Program
<1>4. ~stray => /\ client[d].owner = "home" /\ client[d].native \in {"moving", "stopping"}
                /\ lease = d /\ robot.program = Nothing /\ robot.still
  BY <1>1, <1>3, RobotAssumption DEF RobotOrdered, ClientPlaced, Placed, Clear
<1>5. ~stray => \A c \in Clients :
        client[c].control = "none" /\ ~(client[c].owner = "home" /\ client[c].native = "hold")
  BY <1>4, RobotAssumption DEF RobotOrdered, ClientPlaced, Placed
<1>6. RobotTyped'
  BY <1>1, <1>2 DEF RobotOrdered, RobotTyped
<1>7. \A c \in Clients : ClientPlaced(c)'
  BY <1>1, <1>2, <1>5 DEF RobotOrdered, ClientPlaced, Placed
<1>8. ~stray' => Clear(robot)'
  BY <1>2 DEF Clear
<1> QED BY <1>1, <1>4, <1>5, <1>6, <1>7, <1>8, RobotAssumption
  DEF RobotOrdered, RobotSafe, ClientPlaced, Placed

\* A client's step, by what it leaves: its own claims, and no program started
\* but over none, on an arm that is still.
LEMMA RobotClientActs ==
    ASSUME RobotOrdered, NEW c \in Clients, NEW f \in ClientStates, Robot!Client(c, f),
           lease \in {c, Nothing}, robot' \in RobotStates, lease' \in {c, Nothing},
           stray' \in BOOLEAN, ~stray' => ~stray,
           Placed(f, c, lease', robot', stray'), ~stray' => Clear(robot'),
           robot'.pending \in {Nothing, robot.pending, Robot!Program("home", c)},
           robot'.program \in {Nothing, robot.program} \/ (robot.program = Nothing /\ robot.still),
           ~stray' /\ client[c].owner = "home" /\ f.owner = Nothing /\ f.at = "session" =>
             robot.program = Nothing /\ robot.pending = Nothing
    PROVE  RobotOrdered' /\ RobotSafe
<1>1. /\ client' \in [Clients -> ClientStates] /\ client'[c] = f
      /\ \A d \in Clients \ {c} : client'[d] = client[d] /\ client[d].at = "out"
                                  /\ client[d].owner = Nothing /\ client[d].control = "none"
  BY RobotClientStep
<1>2. RobotTyped'
  BY <1>1 DEF RobotTyped
<1>3. ASSUME NEW d \in Clients PROVE ClientPlaced(d)'
  <2>1. CASE d = c
    BY <1>1, <2>1 DEF ClientPlaced
  <2>2. CASE d # c
    <3>1. /\ client'[d] = client[d] /\ client[d].at = "out"
          /\ client[d].owner = Nothing /\ client[d].control = "none"
      BY <1>1, <2>2
    <3>2. ~stray' => robot'.pending # Robot!Program("home", d)
      <4>1. ~stray' => robot.pending # Robot!Program("home", d)
        BY <3>1, RobotAssumption DEF RobotOrdered, ClientPlaced, Placed
      <4>2. Robot!Program("home", d) # Nothing /\ Robot!Program("home", d) # Robot!Program("home", c)
        BY <2>2, RobotAssumption DEF Robot!Program
      <4> QED BY <4>1, <4>2
    <3> QED BY <3>1, <3>2, RobotAssumption DEF ClientPlaced, Placed
  <2> QED BY <2>1, <2>2
<1>4. RobotSafe
  BY <1>1, <1>3, RobotAssumption DEF RobotSafe, ClientPlaced, Placed
<1> QED BY <1>2, <1>3, <1>4 DEF RobotOrdered

LEMMA RobotStep == ASSUME RobotOrdered, Robot!Next PROVE RobotOrdered' /\ RobotSafe
<1>1. /\ lease \in Clients \cup {Nothing} /\ robot \in RobotStates
      /\ client \in [Clients -> ClientStates]
      /\ \A d \in Clients : client[d] \in ClientStates /\ ClientPlaced(d)
  BY DEF RobotOrdered, RobotTyped
<1>2. CASE \/ Robot!PowersUp \/ Robot!BrakesRelease \/ Robot!ArmMoves \/ Robot!ArmSettles
           \/ Robot!Starts \/ Robot!HomeArrives \/ Robot!WatchdogStops
  <2>1. CASE Robot!PowersUp
    <3>1. [robot EXCEPT !.mode = "idle"] \in RobotStates
      BY <1>1 DEF RobotStates
    <3>2. LET r == [robot EXCEPT !.mode = "idle"]
          IN  r.program = robot.program /\ r.pending = robot.pending /\ r.still = robot.still
      BY <1>1 DEF RobotStates
    <3> QED BY <2>1, <3>1, <3>2, RobotGoesOn DEF Robot!PowersUp
  <2>2. CASE Robot!BrakesRelease
    <3>1. [robot EXCEPT !.mode = "running"] \in RobotStates
      BY <1>1 DEF RobotStates
    <3>2. LET r == [robot EXCEPT !.mode = "running"]
          IN  r.program = robot.program /\ r.pending = robot.pending /\ r.still = robot.still
      BY <1>1 DEF RobotStates
    <3> QED BY <2>2, <3>1, <3>2, RobotGoesOn DEF Robot!BrakesRelease
  <2>3. CASE Robot!ArmMoves
    <3>1. [robot EXCEPT !.still = FALSE] \in RobotStates
      BY <1>1 DEF RobotStates
    <3>2. LET r == [robot EXCEPT !.still = FALSE]
          IN  r.program = robot.program /\ r.pending = robot.pending
      BY <1>1 DEF RobotStates
    <3> QED BY <2>3, <3>1, <3>2, RobotGoesOn DEF Robot!ArmMoves
  <2>4. CASE Robot!ArmSettles
    <3>1. [robot EXCEPT !.still = TRUE] \in RobotStates
      BY <1>1 DEF RobotStates
    <3>2. LET r == [robot EXCEPT !.still = TRUE]
          IN  r.program = robot.program /\ r.pending = robot.pending /\ r.still
      BY <1>1 DEF RobotStates
    <3> QED BY <2>4, <3>1, <3>2, RobotGoesOn DEF Robot!ArmSettles
  <2>5. CASE Robot!HomeArrives \/ Robot!WatchdogStops
    <3>1. [robot EXCEPT !.program = Nothing] \in RobotStates
      BY <1>1 DEF RobotStates
    <3>2. LET r == [robot EXCEPT !.program = Nothing]
          IN  r.program = Nothing /\ r.pending = robot.pending /\ r.still = robot.still
      BY <1>1 DEF RobotStates
    <3> QED BY <2>5, <3>1, <3>2, RobotGoesOn DEF Robot!HomeArrives, Robot!WatchdogStops
  <2> QED BY <1>2, <2>1, <2>2, <2>3, <2>4, <2>5, RobotStarts
<1>3. ASSUME NEW c \in Clients, Robot!Leases(c)
      PROVE  RobotOrdered' /\ RobotSafe
  <2>1. client[c] \in ClientStates /\ ClientPlaced(c) /\ client[c].at = "out"
        /\ robot' = robot /\ stray' = stray
    BY <1>1, <1>3 DEF Robot!Leases, Robot!At
  <2>2. CASE lease # Nothing
    <3>1. /\ client' = [client EXCEPT ![c] = [client[c] EXCEPT !.launches = @ + 1]]
          /\ lease' = lease
      BY <1>3, <2>2 DEF Robot!Leases, Robot!Client
    <3>2. client' \in [Clients -> ClientStates]
          /\ \A d \in Clients : /\ client'[d].at = client[d].at
                                /\ client'[d].owner = client[d].owner
                                /\ client'[d].native = client[d].native
                                /\ client'[d].control = client[d].control
      BY <1>1, <3>1 DEF ClientStates
    <3>3. RobotOrdered'
      BY <1>1, <2>1, <3>1, <3>2
      DEF RobotOrdered, RobotTyped, ClientPlaced, Placed, Clear, Robot!Program
    <3> QED BY <1>1, <2>1, <3>1, <3>2, <3>3, RobotAssumption
      DEF RobotOrdered, RobotSafe, ClientPlaced, Placed
  <2>3. CASE lease = Nothing
    <3> DEFINE f == [client[c] EXCEPT !.at = "identify", !.launches = @ + 1]
    <3>1. f \in ClientStates /\ f.at = "identify" /\ f.owner = client[c].owner
          /\ f.control = client[c].control /\ f.native = client[c].native
      <4>1. [client[c] EXCEPT !.launches = @ + 1] \in ClientStates
        BY <2>1 DEF ClientStates
      <4>2. ASSUME NEW g \in ClientStates PROVE [g EXCEPT !.at = "identify"] \in ClientStates
        BY DEF ClientStates
      <4>3. f = [[client[c] EXCEPT !.launches = @ + 1] EXCEPT !.at = "identify"]
        BY <2>1 DEF ClientStates
      <4> QED BY <2>1, <4>1, <4>2, <4>3 DEF ClientStates
    <3>2. Robot!Client(c, f) /\ lease' = c
      BY <1>3, <2>3 DEF Robot!Leases
    <3> HIDE DEF f
    <3>3. Placed(f, c, lease', robot', stray')
      BY <2>1, <3>1, <3>2 DEF ClientPlaced, Placed
    <3> QED BY <1>1, <2>1, <2>3, <3>1, <3>2, <3>3, RobotAssumption, RobotClientActs
      DEF RobotOrdered, RobotTyped
  <2> QED BY <2>2, <2>3
<1>4. ASSUME NEW c \in Clients, Robot!Leaves(c) \/ Robot!Dies(c)
      PROVE  RobotOrdered' /\ RobotSafe
  <2> DEFINE f == Robot!Outside(client[c].launches)
  <2>1. Robot!Client(c, f) /\ lease' = Nothing /\ robot' = robot /\ lease = c
    BY <1>1, <1>4 DEF Robot!Leaves, Robot!Dies, Robot!At, ClientPlaced, Placed
  <2>2. f \in ClientStates /\ f.at = "out" /\ f.owner = Nothing /\ f.control = "none"
    BY <1>1 DEF Robot!Outside, ClientStates
  <2> HIDE DEF f
  <2>3. ASSUME stray' \in BOOLEAN, ~stray' => ~stray,
               ~stray' => robot'.pending # Robot!Program("home", c)
        PROVE  RobotOrdered' /\ RobotSafe
    <3>1. Placed(f, c, lease', robot', stray')
      BY <2>1, <2>2, <2>3, RobotAssumption DEF Placed
    <3>2. ~stray' => Clear(robot')
      BY <2>1, <2>3 DEF RobotOrdered
    <3> QED BY <1>1, <2>1, <2>2, <2>3, <3>1, <3>2, RobotClientActs
  <2>4. CASE Robot!Leaves(c)
    <3>1. stray' = stray /\ client[c].owner = Nothing
      BY <2>4 DEF Robot!Leaves
    <3>2. stray' \in BOOLEAN /\ (~stray' => ~stray)
      BY <3>1 DEF RobotOrdered, RobotTyped
    <3>3. ~stray' => robot'.pending # Robot!Program("home", c)
      BY <1>1, <2>1, <3>1, RobotAssumption DEF ClientPlaced, Placed
    <3> QED BY <2>3, <3>2, <3>3
  <2>5. CASE Robot!Dies(c)
    <3>1. /\ stray' \in BOOLEAN
          /\ ~stray' => ~stray /\ robot'.pending # Robot!Program("home", c)
      BY <2>5, RobotThrough DEF Robot!Dies, RobotOrdered, RobotTyped
    <3> QED BY <2>3, <3>1
  <2> QED BY <1>4, <2>4, <2>5
<1>5. ASSUME NEW c \in Clients,
             Robot!PowersOn(c) \/ Robot!ReleasesBrake(c) \/ Robot!Opens(c)
      PROVE  RobotOrdered' /\ RobotSafe
  <2>1. client[c] \in ClientStates /\ ClientPlaced(c) /\ client[c].at # "out" /\ lease' = lease
    BY <1>1, <1>5 DEF Robot!PowersOn, Robot!ReleasesBrake, Robot!Opens, Robot!At
  <2>2. PICK at \in {"waiting", "braking", "session"} : Robot!Goes(c, at)
    BY <1>5 DEF Robot!PowersOn, Robot!ReleasesBrake, Robot!Opens
  <2>3. /\ robot' \in RobotStates /\ robot'.program = robot.program
        /\ robot'.pending = robot.pending /\ robot'.still = robot.still /\ stray' = stray
    BY <1>1, <1>5 DEF Robot!PowersOn, Robot!ReleasesBrake, Robot!Opens, RobotStates
  <2>4. client[c].at \in {"identify", "waiting", "braking"}
    BY <1>5 DEF Robot!PowersOn, Robot!ReleasesBrake, Robot!Opens, Robot!At
  <2> DEFINE f == [client[c] EXCEPT !.at = at]
  <2>5. f \in ClientStates /\ f.at # "out" /\ f.owner = client[c].owner
        /\ f.control = client[c].control /\ f.native = client[c].native
    BY <2>1 DEF ClientStates
  <2>6. Robot!Client(c, f)
    BY <2>2 DEF Robot!Goes
  <2> HIDE DEF f
  <2>7. lease = c /\ Placed(f, c, lease', robot', stray') /\ (~stray' => Clear(robot'))
    BY <2>1, <2>3, <2>5 DEF ClientPlaced, Placed, RobotOrdered, Clear
  <2>8. client[c].owner = "home" /\ f.owner = Nothing => FALSE
    BY <2>5, RobotAssumption
  <2> QED BY <1>1, <2>1, <2>3, <2>5, <2>6, <2>7, <2>8, RobotClientActs DEF RobotOrdered, RobotTyped
<1>6. ASSUME NEW c \in Clients,
             \/ Robot!AcquiresHome(c) \/ Robot!Plays(c) \/ Robot!Holds(c) \/ Robot!StopsHome(c)
             \/ Robot!EndsHome(c) \/ Robot!AcquiresMotion(c) \/ Robot!Uploads(c)
             \/ Robot!Yields(c) \/ Robot!EndsMotion(c)
      PROVE  RobotOrdered' /\ RobotSafe
  <2>1. client[c] \in ClientStates /\ ClientPlaced(c) /\ lease' = lease
    BY <1>1, <1>6 DEF Robot!AcquiresHome, Robot!Plays, Robot!Holds, Robot!StopsHome,
       Robot!EndsHome, Robot!AcquiresMotion, Robot!Uploads, Robot!Yields, Robot!EndsMotion
  <2>2. client[c].at # "out" /\ lease = c
    BY <1>6, <2>1, RobotAssumption DEF Robot!AcquiresHome, Robot!Plays, Robot!Holds,
       Robot!StopsHome, Robot!Underway, Robot!Free, Robot!At, Robot!EndsHome,
       Robot!AcquiresMotion, Robot!Uploads, Robot!Yields, Robot!EndsMotion, ClientPlaced, Placed
  <2> DEFINE Acts(f) ==
               /\ f \in ClientStates /\ Robot!Client(c, f)
               /\ robot' \in RobotStates /\ stray' \in BOOLEAN /\ (~stray' => ~stray)
               /\ Placed(f, c, lease', robot', stray') /\ (~stray' => Clear(robot'))
               /\ robot'.pending \in {Nothing, robot.pending, Robot!Program("home", c)}
               /\ \/ robot'.program \in {Nothing, robot.program}
                  \/ robot.program = Nothing /\ robot.still
               /\ ~stray' /\ client[c].owner = "home" /\ f.owner = Nothing /\ f.at = "session" =>
                    robot.program = Nothing /\ robot.pending = Nothing
  <2>3. ASSUME NEW f, Acts(f) PROVE RobotOrdered' /\ RobotSafe
    BY <1>1, <2>1, <2>2, <2>3, RobotClientActs
  <2>4. stray \in BOOLEAN /\ (~stray => Clear(robot))
    BY DEF RobotOrdered, RobotTyped
  <2>5. CASE Robot!AcquiresHome(c)
    <3>1. Acts([client[c] EXCEPT !.owner = "home", !.native = "idle"])
      BY <1>1, <2>1, <2>2, <2>4, <2>5, RobotAssumption
      DEF Robot!AcquiresHome, Robot!Free, ClientStates, ClientPlaced, Placed
    <3> QED BY <2>3, <3>1
  <2>6. CASE Robot!Plays(c)
    <3> DEFINE f == [client[c] EXCEPT !.native = "moving"]
    <3>1. f \in ClientStates /\ f.at = client[c].at /\ f.owner = "home" /\ f.native = "moving"
          /\ f.control = client[c].control /\ Robot!Client(c, f) /\ stray' = stray
          /\ client[c].owner = "home"
      BY <2>1, <2>6 DEF Robot!Plays, ClientStates
    <3>2. /\ robot' \in RobotStates /\ robot'.pending = Robot!Program("home", c)
          /\ robot'.program = Nothing /\ robot.program = Nothing /\ robot.still /\ robot'.still
      BY <1>1, <2>6 DEF Robot!Plays, Robot!Stopped, Robot!Program, RobotStates
    <3> HIDE DEF f
    <3>3. Placed(f, c, lease', robot', stray') /\ Clear(robot')
      BY <2>1, <2>2, <3>1, <3>2, RobotAssumption DEF ClientPlaced, Placed, Clear
    <3>4. Acts(f)
      BY <2>4, <3>1, <3>2, <3>3, RobotAssumption
    <3> QED BY <2>3, <3>4
  <2>7. CASE Robot!Holds(c)
    <3> DEFINE f == [client[c] EXCEPT !.native = "hold"]
    <3>1. f \in ClientStates /\ f.at = client[c].at /\ f.owner = "home" /\ f.native = "hold"
          /\ f.control = client[c].control /\ Robot!Client(c, f) /\ client[c].owner = "home"
      BY <2>1, <2>7 DEF Robot!Holds, Robot!Underway, ClientStates
    <3>2. /\ robot' = robot /\ robot.program = Nothing
          /\ stray' \in BOOLEAN /\ (~stray' => ~stray /\ robot.pending # Robot!Program("home", c))
      BY <2>4, <2>7 DEF Robot!Holds, Robot!Stopped, Robot!IsThrough
    <3>3. ~stray' => robot.pending = Nothing
      <4>1. ASSUME ~stray', robot.pending # Nothing PROVE FALSE
        <5>1. PICK d \in Clients : robot.pending = Robot!Program("home", d)
          BY <1>1, <4>1 DEF RobotStates, Robot!Program
        <5>2. client[d].owner = "home" /\ lease = d
          BY <1>1, <3>2, <4>1, <5>1, RobotAssumption DEF ClientPlaced, Placed
        <5> QED BY <2>2, <3>2, <4>1, <5>1, <5>2
      <4> QED BY <4>1
    <3> HIDE DEF f
    <3>4. Placed(f, c, lease', robot', stray')
      BY <2>1, <2>2, <3>1, <3>2, <3>3, RobotAssumption DEF ClientPlaced, Placed, Robot!Program
    <3>5. Acts(f)
      BY <1>1, <2>4, <3>1, <3>2, <3>4, RobotAssumption
    <3> QED BY <2>3, <3>5
  <2>8. CASE Robot!StopsHome(c)
    <3>1. PICK native \in {"stopping", "fault"} :
            /\ Robot!Client(c, [client[c] EXCEPT !.native = native])
            /\ native = "stopping" => stray' = stray
            /\ native = "fault" => Robot!IsThrough(c)
      BY <2>8 DEF Robot!StopsHome
    <3> DEFINE f == [client[c] EXCEPT !.native = native]
    <3>2. f \in ClientStates /\ f.at = client[c].at /\ f.owner = "home" /\ f.native = native
          /\ f.control = client[c].control /\ Robot!Client(c, f) /\ client[c].owner = "home"
      BY <2>1, <2>8, <3>1 DEF Robot!StopsHome, Robot!Underway, ClientStates
    <3>3. /\ robot' \in RobotStates /\ robot'.program \in {Nothing, robot.program}
          /\ robot'.pending \in {Nothing, robot.pending} /\ robot'.still = robot.still
      BY <1>1, <2>8 DEF Robot!StopsHome, RobotStates
    <3>4. /\ stray' \in BOOLEAN /\ (~stray' => ~stray)
          /\ native = "fault" /\ ~stray' => robot'.pending # Robot!Program("home", c)
      BY <2>4, <3>1, RobotThrough
    <3> HIDE DEF f
    <3>5. Placed(f, c, lease', robot', stray') /\ (~stray' => Clear(robot'))
      BY <2>1, <2>2, <2>4, <3>2, <3>3, <3>4, RobotAssumption DEF ClientPlaced, Placed, Clear
    <3>6. Acts(f)
      BY <3>2, <3>3, <3>4, <3>5, RobotAssumption
    <3> QED BY <2>3, <3>6
  <2>9. CASE Robot!EndsHome(c)
    <3>1. PICK at \in {"session", "fault"} :
             /\ Robot!Client(c, [client[c] EXCEPT !.owner = Nothing, !.native = "idle", !.at = at])
             /\ at = "session" => client[c].native = "hold"
      BY <2>9 DEF Robot!EndsHome
    <3>2. Acts([client[c] EXCEPT !.owner = Nothing, !.native = "idle", !.at = at])
      BY <1>1, <2>1, <2>2, <2>4, <2>9, <3>1, RobotAssumption
      DEF Robot!EndsHome, Robot!Underway, ClientStates, ClientPlaced, Placed
    <3> QED BY <2>3, <3>2
  <2>10. CASE Robot!AcquiresMotion(c)
    <3>1. Acts([client[c] EXCEPT !.owner = "rtde"])
      BY <1>1, <2>1, <2>2, <2>4, <2>10, RobotAssumption
      DEF Robot!AcquiresMotion, Robot!Free, ClientStates, ClientPlaced, Placed
    <3> QED BY <2>3, <3>1
  <2>11. CASE Robot!Uploads(c)
    <3> DEFINE f == [client[c] EXCEPT !.control = "created"]
    <3>1. f \in ClientStates /\ f.at = client[c].at /\ f.owner = "rtde" /\ f.native = client[c].native
          /\ client[c].owner = "rtde" /\ Robot!Client(c, f) /\ stray' = stray
      BY <2>1, <2>11 DEF Robot!Uploads, ClientStates
    <3>2. /\ robot' \in RobotStates /\ robot'.pending = robot.pending
          /\ robot'.program = Robot!Program("script", c) /\ robot.program = Nothing /\ robot.still
      BY <1>1, <2>11 DEF Robot!Uploads, Robot!MayUpload, Robot!Program, RobotStates
    <3>3. ~stray => robot.pending = Nothing
      <4>1. ASSUME ~stray, robot.pending # Nothing PROVE FALSE
        <5>1. PICK d \in Clients : robot.pending = Robot!Program("home", d)
          BY <1>1, <4>1 DEF RobotStates, Robot!Program
        <5>2. client[d].owner = "home" /\ lease = d
          BY <1>1, <4>1, <5>1, RobotAssumption DEF ClientPlaced, Placed
        <5> QED BY <2>2, <3>1, <5>2
      <4> QED BY <4>1
    <3> HIDE DEF f
    <3>4. Placed(f, c, lease', robot', stray') /\ (~stray' => Clear(robot'))
      BY <2>1, <2>2, <3>1, <3>2, <3>3, RobotAssumption DEF ClientPlaced, Placed, Clear, Robot!Program
    <3>5. Acts(f)
      BY <2>4, <3>1, <3>2, <3>4, RobotAssumption
    <3> QED BY <2>3, <3>5
  <2>12. CASE Robot!Yields(c)
    <3>1. Acts([client[c] EXCEPT !.control = "watched"])
      BY <1>1, <2>1, <2>2, <2>4, <2>12, RobotAssumption
      DEF Robot!Yields, ClientStates, ClientPlaced, Placed
    <3> QED BY <2>3, <3>1
  <2>13. CASE Robot!EndsMotion(c)
    <3>1. /\ robot' \in RobotStates /\ robot'.program \in {Nothing, robot.program}
          /\ robot'.pending = robot.pending /\ robot'.still = robot.still /\ stray' = stray
      BY <1>1, <2>13 DEF Robot!EndsMotion, RobotStates
    <3> DEFINE f == [client[c] EXCEPT !.owner = Nothing, !.control = "none"]
    <3>2. f \in ClientStates /\ f.at = client[c].at /\ f.owner = Nothing /\ f.control = "none"
          /\ client[c].owner = "rtde" /\ Robot!Client(c, f)
      BY <2>1, <2>13 DEF Robot!EndsMotion, ClientStates
    <3> HIDE DEF f
    <3>3. Placed(f, c, lease', robot', stray') /\ (~stray' => Clear(robot'))
      BY <2>1, <2>2, <2>4, <3>1, <3>2, RobotAssumption DEF ClientPlaced, Placed, Clear
    <3>4. Acts(f)
      BY <2>4, <3>1, <3>2, <3>3, RobotAssumption
    <3> QED BY <2>3, <3>4
  <2> QED BY <1>6, <2>5, <2>6, <2>7, <2>8, <2>9, <2>10, <2>11, <2>12, <2>13
<1> QED BY <1>2, <1>3, <1>4, <1>5, <1>6 DEF Robot!Next

\* As long as every client has waited for its HOME to start, no program is
\* started over another, whoever started it, and none is left behind
\* (simulation.connection.Station); the lease excludes without that.
THEOREM ProgramsAreExclusive == Robot!Spec => ProgramsExclusive
<1>1. Robot!Init => RobotOrdered
  BY RobotInit
<1>2. RobotOrdered /\ [Robot!Next]_Robot!vars => RobotOrdered'
  <2>1. RobotOrdered /\ UNCHANGED Robot!vars => RobotOrdered'
    BY DEF RobotOrdered, RobotTyped, ClientPlaced, Robot!vars
  <2> QED BY <2>1, RobotStep
<1>3. RobotOrdered /\ [Robot!Next]_Robot!vars => [RobotSafe]_Robot!vars
  BY RobotStep
<1>4. ProgramsExclusive <=> [][RobotSafe]_Robot!vars
  BY DEF ProgramsExclusive, Robot!ProgramsExclusive, RobotSafe
<1> QED BY <1>1, <1>2, <1>3, <1>4, PTL DEF Robot!Spec

-----------------------------------------------------------------------------
(* The programs that lease the station.                                     *)

Names == {"lease", "log", "capture", "leader", "device", "session", "handler", "source"}
LaunchStates ==
    [at : {"start", "acquiring", "closing", "exiting", "saving", "publishing", "flushing",
           "published", "ended"},
     step : Nat \ {0}, open : SUBSET Names, stack : Seq(Names),
     state : {"partial", "complete", "published"}, missed : SUBSET Names]

LaunchTyped ==
    /\ holder \in Processes \cup {Nothing}
    /\ launched \in [Processes -> LaunchStates]
    /\ outputs \in [Launch!Calibrations ->
          [partial : {Nothing, "earlier", "own"}, document : {Nothing, "partial", "complete"},
           destination : {Nothing, "earlier", "own"}]]

\* The resources of a program in the order it registers them.
Resources(p) ==
    IF Runs[p] = "teleop"
    THEN <<"lease", "log", "capture", "leader", "device", "session", "handler">>
    ELSE <<"lease", "log", "handler", "source", "device">>

\* How many are registered before statement k, and whether one is open that
\* is not registered.
Counts(p) ==
    IF Runs[p] = "teleop"
    THEN <<0, 0, 1, 1, 1, 2, 2, 3, 3, 3, 4, 4, 5, 5, 5, 5, 5, 6, 6, 7>>
    ELSE <<0, 0, 1, 1, 1, 2, 2, 3, 3, 4, 4, 4, 4, 5, 5>>
Unregistered(p) ==
    IF Runs[p] = "teleop" THEN {2, 5, 7, 10, 12, 17, 19} ELSE {2, 5, 7, 9, 12, 13}

Held(p, n) == {Resources(p)[i] : i \in 1 .. n}

\* What the statements do to the count: read off the two plans.
LEMMA PlanCounts ==
    ASSUME NEW p \in Processes
    PROVE  /\ Len(Launch!Plan[p]) \in Nat
           /\ Counts(p)[1] = 0 /\ 1 \notin Unregistered(p)
           /\ Len(Launch!Plan[p]) + 1 \notin Unregistered(p)
           /\ \A k \in 1 .. Len(Launch!Plan[p]) + 1 : 
                 /\ Counts(p)[k] \in 0 .. Len(Resources(p))
                 /\ k \in Unregistered(p) => Counts(p)[k] < Len(Resources(p))
                 /\ Counts(p)[k] + (IF k \in Unregistered(p) THEN 1 ELSE 0) > 1 => k > 3
           /\ \A k \in 1 .. Len(Launch!Plan[p]) :
                LET op == Launch!Plan[p][k][1]
                    x == Launch!Plan[p][k][2]
                    n == Counts(p)[k]
                IN  /\ op = "open" =>
                         /\ k \notin Unregistered(p) /\ k + 1 \in Unregistered(p)
                         /\ Counts(p)[k + 1] = n /\ x = Resources(p)[n + 1]
                    /\ op = "register" =>
                         /\ k \in Unregistered(p) /\ k + 1 \notin Unregistered(p)
                         /\ Counts(p)[k + 1] = n + 1 /\ x = Resources(p)[n + 1]
                    /\ op \in {"lock", "use"} =>
                         /\ k \in Unregistered(p) <=> k + 1 \in Unregistered(p)
                         /\ Counts(p)[k + 1] = n
                    /\ op # "lock" /\ k + 1 > 3 => k > 3
                    /\ op = "lock" => k = 3
<1>1. Runs[p] \in {"teleop", "calibration"}
  BY LaunchAssumption
<1>2. CASE Runs[p] = "teleop"
  <2>1. /\ Launch!Plan[p] = Launch!Teleop
        /\ Counts(p) = <<0, 0, 1, 1, 1, 2, 2, 3, 3, 3, 4, 4, 5, 5, 5, 5, 5, 6, 6, 7>>
        /\ Unregistered(p) = {2, 5, 7, 10, 12, 17, 19}
        /\ Resources(p) = <<"lease", "log", "capture", "leader", "device", "session", "handler">>
    BY <1>2 DEF Launch!Plan, Counts, Unregistered, Resources
  <2>2. Len(Launch!Teleop) = 19 /\ Len(Resources(p)) = 7
    BY <2>1 DEF Launch!Teleop
  <2> QED BY <2>1, <2>2 DEF Launch!Teleop, Launch!Open, Launch!Register, Launch!Use
<1>3. CASE Runs[p] = "calibration"
  <2>1. /\ Launch!Plan[p] = Launch!Calibration
        /\ Counts(p) = <<0, 0, 1, 1, 1, 2, 2, 3, 3, 4, 4, 4, 4, 5, 5>>
        /\ Unregistered(p) = {2, 5, 7, 9, 12, 13}
        /\ Resources(p) = <<"lease", "log", "handler", "source", "device">>
    BY <1>3 DEF Launch!Plan, Counts, Unregistered, Resources
  <2>2. Len(Launch!Calibration) = 14 /\ Len(Resources(p)) = 5
    BY <2>1 DEF Launch!Calibration
  <2> QED BY <2>1, <2>2 DEF Launch!Calibration, Launch!Open, Launch!Register, Launch!Use
<1> QED BY <1>1, <1>2, <1>3

\* The resources held after n registrations.
LEMMA HeldResources ==
    ASSUME NEW p \in Processes
    PROVE  /\ Len(Resources(p)) \in Nat
           /\ \A n \in 0 .. Len(Resources(p)) :
                 /\ Held(p, n) \subseteq Names
                 /\ n = 0 => Held(p, n) = {}
                 /\ "device" \in Held(p, n) => n > 1 /\ "log" \in Held(p, n)
                 /\ "device" \in Held(p, n) /\ p \in Launch!Calibrations => "source" \in Held(p, n)
                 /\ "session" \in Held(p, n) =>
                       {"device", "leader", "capture"} \subseteq Held(p, n)
           /\ \A n \in 1 .. Len(Resources(p)) :
                 /\ Resources(p)[n] \in Names
                 /\ Resources(p)[n] = "lease" <=> n = 1
                 /\ Held(p, n) = Held(p, n - 1) \cup {Resources(p)[n]}
                 /\ Resources(p)[n] \notin Held(p, n - 1)
<1>1. Runs[p] \in {"teleop", "calibration"}
  BY LaunchAssumption
<1>2. CASE Runs[p] = "teleop"
  <2>1. Resources(p) = <<"lease", "log", "capture", "leader", "device", "session", "handler">>
        /\ p \notin Launch!Calibrations
    BY <1>2 DEF Resources, Launch!Calibrations
  <2>2. Len(Resources(p)) = 7
    BY <2>1
  <2>3. \A n \in 0 .. 7 :
           Held(p, n) = (IF n > 0 THEN {"lease"} ELSE {}) \cup (IF n > 1 THEN {"log"} ELSE {})
              \cup (IF n > 2 THEN {"capture"} ELSE {}) \cup (IF n > 3 THEN {"leader"} ELSE {})
              \cup (IF n > 4 THEN {"device"} ELSE {}) \cup (IF n > 5 THEN {"session"} ELSE {})
              \cup (IF n > 6 THEN {"handler"} ELSE {})
    BY <2>1 DEF Held
  <2> QED BY <2>1, <2>2, <2>3 DEF Names
<1>3. CASE Runs[p] = "calibration"
  <2>1. Resources(p) = <<"lease", "log", "handler", "source", "device">>
    BY <1>3 DEF Resources
  <2>2. Len(Resources(p)) = 5
    BY <2>1
  <2>3. \A n \in 0 .. 5 :
           Held(p, n) = (IF n > 0 THEN {"lease"} ELSE {}) \cup (IF n > 1 THEN {"log"} ELSE {})
              \cup (IF n > 2 THEN {"handler"} ELSE {}) \cup (IF n > 3 THEN {"source"} ELSE {})
              \cup (IF n > 4 THEN {"device"} ELSE {})
    BY <2>1 DEF Held
  <2> QED BY <2>1, <2>2, <2>3 DEF Names
<1> QED BY <1>1, <1>2, <1>3

-----------------------------------------------------------------------------

\* The closing stack is what was registered first, the last on top.
Stacked(p, s) ==
    /\ Len(s) \in 0 .. Len(Resources(p))
    /\ \A i \in 1 .. Len(s) : s[i] = Resources(p)[Len(s) + 1 - i]

\* Process p, in state r, when h has the lock: while it acquires, what it has
\* open is read off its statement; afterwards what is open and not missed is
\* registered, and the lock is the last thing it lets go of.
Launched(p, r, h) ==
    LET n == Len(r.stack)
        acquires == r.at \in {"start", "acquiring"}
    IN  /\ Stacked(p, r.stack)
        /\ r.missed \subseteq r.open
        /\ acquires =>
              /\ r.missed = {} /\ r.state = "partial"
              /\ r.step \in 1 .. Len(Launch!Plan[p]) + 1
              /\ n = Counts(p)[r.step]
              /\ r.open = Held(p, n + (IF r.step \in Unregistered(p) THEN 1 ELSE 0))
              /\ r.step > 3 => h = p
        /\ ~acquires =>
              /\ Held(p, n) \subseteq r.open
              /\ r.open \ r.missed \subseteq Held(p, n)
              /\ Held(p, n) \cap r.missed = {}
              /\ n > 1 => h = p
        /\ r.at \notin {"start", "acquiring", "closing"} => n = 0
        /\ r.at = "start" => r.step = 1
        /\ r.at = "ended" => r.open = {}
        /\ r.at # "ended" => r.state # "published"

\* The output d of a calibration that is in state r.
Evidenced(r, d) ==
    /\ r.at = "start" => d.document = Nothing
    /\ r.at \in {"start", "acquiring", "closing", "saving", "publishing"} => d.destination # "own"
    /\ r.at \in {"acquiring", "closing", "saving", "publishing"} => d.partial = "own"
    /\ r.at \in {"closing", "saving"} /\ r.state = "complete" => r.missed = {}
    /\ r.at \in {"publishing", "flushing", "published"} => d.document = "complete" /\ r.missed = {}
    /\ d.destination = "own" =>
          /\ d.document = "complete" /\ d.partial = Nothing
          /\ r.at \in {"flushing", "published", "ended"}
    /\ d.document # Nothing => "own" \in {d.partial, d.destination}

LaunchOrdered ==
    /\ LaunchTyped
    /\ \A p \in Processes : Launched(p, launched[p], holder)
    /\ \A p \in Launch!Calibrations : Evidenced(launched[p], outputs[p])

\* The invariant says what the property does.
LEMMA LaunchCovers == ASSUME LaunchOrdered PROVE LeaseCovers
<1>1. ASSUME NEW p \in Processes
      PROVE  /\ Launch!Connected(p) => holder = p /\ "log" \in launched[p].open
             /\ "session" \in launched[p].open \ launched[p].missed =>
                  {"device", "leader", "capture"} \subseteq launched[p].open
             /\ Launch!Connected(p) /\ p \in Launch!Calibrations => "source" \in launched[p].open
             /\ launched[p].missed # {} => ~Launch!Is(p, "acquiring")
  <2> DEFINE r == launched[p]
             n == Len(r.stack)
  <2>1. Launched(p, r, holder) /\ r \in LaunchStates /\ n \in Nat
    BY DEF LaunchOrdered, LaunchTyped, LaunchStates
  <2>2. n \in 0 .. Len(Resources(p)) /\ Len(Resources(p)) \in Nat
    BY <2>1, HeldResources DEF Launched, Stacked
  <2> HIDE DEF r
  <2>3. CASE r.at \in {"start", "acquiring"}
    <3> DEFINE m == n + (IF r.step \in Unregistered(p) THEN 1 ELSE 0)
    <3>1. /\ r.missed = {} /\ r.open = Held(p, m) /\ (r.step > 3 => holder = p)
          /\ r.step \in 1 .. Len(Launch!Plan[p]) + 1 /\ n = Counts(p)[r.step]
      BY <2>1, <2>3 DEF Launched
    <3>2. m \in 0 .. Len(Resources(p)) /\ (m > 1 => r.step > 3)
      BY <2>2, <3>1, PlanCounts
    <3> HIDE DEF m
    <3>3. /\ "device" \in Held(p, m) => m > 1 /\ "log" \in Held(p, m)
          /\ "device" \in Held(p, m) /\ p \in Launch!Calibrations => "source" \in Held(p, m)
          /\ "session" \in Held(p, m) => {"device", "leader", "capture"} \subseteq Held(p, m)
      BY <3>2, HeldResources
    <3> QED BY <3>1, <3>2, <3>3 DEF Launch!Connected, Launch!Is, r
  <2>4. CASE r.at \notin {"start", "acquiring"}
    <3>1. /\ Held(p, n) \subseteq r.open /\ r.open \ r.missed \subseteq Held(p, n)
          /\ n > 1 => holder = p
      BY <2>1, <2>4 DEF Launched
    <3> HIDE DEF n
    <3>2. /\ "device" \in Held(p, n) => n > 1 /\ "log" \in Held(p, n)
          /\ "device" \in Held(p, n) /\ p \in Launch!Calibrations => "source" \in Held(p, n)
          /\ "session" \in Held(p, n) => {"device", "leader", "capture"} \subseteq Held(p, n)
      BY <2>2, HeldResources
    <3> QED BY <2>4, <3>1, <3>2 DEF Launch!Connected, Launch!Is, r
  <2> QED BY <2>3, <2>4
<1>2. ASSUME NEW p \in Launch!Calibrations, outputs[p].destination = "own"
      PROVE  /\ outputs[p].document = "complete" /\ outputs[p].partial = Nothing
             /\ launched[p].open = {}
  <2>1. p \in Processes
    BY DEF Launch!Calibrations
  <2> DEFINE r == launched[p]
  <2>2. Launched(p, r, holder) /\ Evidenced(r, outputs[p]) /\ r \in LaunchStates
    BY <2>1 DEF LaunchOrdered, LaunchTyped
  <2> HIDE DEF r
  <2>3. /\ outputs[p].document = "complete" /\ outputs[p].partial = Nothing
        /\ r.at \in {"flushing", "published", "ended"}
    BY <1>2, <2>2 DEF Evidenced
  <2>4. CASE r.at = "ended"
    BY <2>2, <2>3, <2>4 DEF Launched, r
  <2>5. CASE r.at # "ended"
    <3>1. r.missed = {} /\ Len(r.stack) = 0 /\ r.open \ r.missed \subseteq Held(p, Len(r.stack))
      BY <2>2, <2>3, <2>5 DEF Launched, Evidenced
    <3>2. Held(p, 0) = {}
      BY DEF Held
    <3> QED BY <2>3, <3>1, <3>2 DEF r
  <2> QED BY <2>4, <2>5
<1>3. \A p \in Launch!Calibrations :
         /\ outputs[p].document # Nothing => "own" \in {outputs[p].partial, outputs[p].destination}
         /\ launched[p].missed # {} => launched[p].at \notin {"publishing", "flushing", "published"}
  BY DEF LaunchOrdered, Evidenced
<1>4. \A p \in Launch!Calibrations : p \in Processes
  BY DEF Launch!Calibrations
<1> QED BY <1>1, <1>2, <1>3, <1>4 DEF LeaseCovers, Launch!LeaseCovers

LEMMA LaunchInit == ASSUME Launch!Init PROVE LaunchOrdered
<1>1. ASSUME NEW p \in Processes
      PROVE  launched[p] \in LaunchStates /\ Launched(p, launched[p], holder)
  <2> DEFINE r == launched[p]
  <2>1. /\ r.at \in {"start", "acquiring"} /\ r.step = 1 /\ r.open = {} /\ r.stack = <<>>
        /\ r.state = "partial" /\ r.missed = {} /\ r \in LaunchStates
    BY DEF Launch!Init, LaunchStates
  <2> HIDE DEF r
  <2>2. Len(r.stack) = 0 /\ Len(Resources(p)) \in Nat /\ Held(p, 0) = {}
    BY <2>1, HeldResources
  <2> QED BY <2>1, <2>2, PlanCounts DEF Launched, Stacked, r
<1>2. \A p \in Launch!Calibrations : p \in Processes
  BY DEF Launch!Calibrations
<1>3. ASSUME NEW p \in Launch!Calibrations
      PROVE  Evidenced(launched[p], outputs[p])
  <2>1. outputs[p].document = Nothing /\ outputs[p].destination # "own"
    BY LaunchAssumption DEF Launch!Init
  <2>2. launched[p].at = "start"
    BY <1>2 DEF Launch!Init, Launch!Calibrations
  <2> QED BY <2>1, <2>2, LaunchAssumption DEF Evidenced
<1>4. LaunchTyped
  <2>1. holder = Nothing
    BY DEF Launch!Init
  <2>2. launched \in [Processes -> LaunchStates]
    BY <1>1 DEF Launch!Init
  <2>3. outputs \in [Launch!Calibrations -> [partial : {Nothing, "earlier", "own"},
                 document : {Nothing, "partial", "complete"},
                 destination : {Nothing, "earlier", "own"}]]
    BY DEF Launch!Init
  <2> QED BY <2>1, <2>2, <2>3 DEF LaunchTyped
<1> QED BY <1>1, <1>3, <1>4 DEF LaunchOrdered

\* One process's step, by what it leaves: its own claims, and the lock of
\* another where it is.
LEMMA LaunchActs ==
    ASSUME LaunchOrdered, NEW p \in Processes, NEW r \in LaunchStates, Launch!Becomes(p, r),
           holder' \in Processes \cup {Nothing}, holder \in {p, Nothing} \/ holder' = holder,
           Launched(p, r, holder'),
           outputs' \in [Launch!Calibrations ->
              [partial : {Nothing, "earlier", "own"}, document : {Nothing, "partial", "complete"},
               destination : {Nothing, "earlier", "own"}]],
           \A q \in Launch!Calibrations \ {p} : outputs'[q] = outputs[q],
           p \in Launch!Calibrations => Evidenced(r, outputs'[p])
    PROVE  LaunchOrdered'
<1>1. /\ launched \in [Processes -> LaunchStates] /\ launched' = [launched EXCEPT ![p] = r]
      /\ \A q \in Launch!Calibrations : q \in Processes
  BY DEF LaunchOrdered, LaunchTyped, Launch!Becomes, Launch!Calibrations
<1>2. /\ launched' \in [Processes -> LaunchStates] /\ launched'[p] = r
      /\ \A q \in Processes \ {p} : launched'[q] = launched[q]
  BY <1>1
<1>3. \A q \in Processes \ {p} : Launched(q, launched[q], holder')
  <2> SUFFICES ASSUME NEW q \in Processes \ {p} PROVE Launched(q, launched[q], holder')
    OBVIOUS
  <2>1. Launched(q, launched[q], holder)
    BY DEF LaunchOrdered
  <2>2. holder = q => holder' = q
    BY LaunchAssumption
  <2> DEFINE s == launched[q]
  <2>3. Launched(q, s, holder)
    BY <2>1
  <2> HIDE DEF s
  <2>4. Launched(q, s, holder')
    BY <2>2, <2>3 DEF Launched
  <2> QED BY <2>4 DEF s
<1>4. \A q \in Launch!Calibrations : Evidenced(launched'[q], outputs'[q])
  BY <1>1, <1>2 DEF LaunchOrdered
<1>5. LaunchTyped'
  BY <1>2 DEF LaunchTyped, Launch!Calibrations
<1> QED BY <1>2, <1>3, <1>4, <1>5 DEF LaunchOrdered, Launch!Calibrations

OutputStates ==
    [partial : {Nothing, "earlier", "own"}, document : {Nothing, "partial", "complete"},
     destination : {Nothing, "earlier", "own"}]

LEMMA LaunchAcquires ==
    ASSUME LaunchOrdered, NEW p \in Processes,
           \/ Launch!Opens(p) \/ Launch!Registers(p) \/ Launch!Locks(p) \/ Launch!Uses(p)
    PROVE  LaunchOrdered'
<1> DEFINE r == launched[p]
           k == r.step
           n == Len(r.stack)
           x == Launch!Plan[p][k][2]
           op == Launch!Plan[p][k][1]
<1>1. /\ r \in LaunchStates /\ Launched(p, r, holder) /\ holder \in Processes \cup {Nothing}
      /\ p \in Launch!Calibrations => Evidenced(r, outputs[p])
  BY DEF LaunchOrdered, LaunchTyped
<1>2. /\ r.at = "acquiring" /\ k \in 1 .. Len(Launch!Plan[p])
      /\ op \in {"open", "register", "lock", "use"}
      /\ outputs' = outputs
      /\ op # "lock" => holder' = holder
  <2>1. k \in Nat \ {0} /\ Len(Launch!Plan[p]) \in Nat
    BY <1>1, PlanCounts DEF LaunchStates
  <2> QED BY <2>1 DEF Launch!Opens, Launch!Registers, Launch!Locks, Launch!Uses, Launch!Does,
       Launch!Acquiring, Launch!Is, Launch!Statement
<1>3. /\ Stacked(p, r.stack) /\ r.missed = {} /\ r.state = "partial"
      /\ n = Counts(p)[k] /\ (k > 3 => holder = p)
      /\ r.open = Held(p, n + (IF k \in Unregistered(p) THEN 1 ELSE 0))
  BY <1>1, <1>2 DEF Launched
<1>4. /\ n \in 0 .. Len(Resources(p)) /\ Len(Resources(p)) \in Nat
      /\ op \in {"open", "register"} => n < Len(Resources(p))
  <2>1. Len(Resources(p)) \in Nat /\ n \in 0 .. Len(Resources(p))
    BY <1>3, HeldResources DEF Stacked
  <2>2. k \in 1 .. Len(Launch!Plan[p]) + 1 /\ k + 1 \in 1 .. Len(Launch!Plan[p]) + 1
    BY <1>2, PlanCounts
  <2>3. op \in {"open", "register"} =>
            (k \in Unregistered(p) \/ (k + 1 \in Unregistered(p) /\ Counts(p)[k + 1] = n))
    <3>1. k \in 1 .. Len(Launch!Plan[p])
      BY <1>2
    <3> QED BY <1>3, <3>1, PlanCounts
  <2> HIDE DEF k, op
  <2>4. op \in {"open", "register"} => n < Len(Resources(p))
    BY <1>3, <2>2, <2>3, PlanCounts
  <2> QED BY <2>1, <2>4
<1>5. /\ k \in 1 .. Len(Launch!Plan[p]) /\ k + 1 \in 1 .. Len(Launch!Plan[p]) + 1
      /\ k \in Nat \ {0} /\ k + 1 \in Nat \ {0}
  BY <1>2, PlanCounts
<1>5a. LET m == Counts(p)[k]
       IN  /\ op = "open" =>
                /\ k \notin Unregistered(p) /\ k + 1 \in Unregistered(p)
                /\ Counts(p)[k + 1] = m /\ x = Resources(p)[m + 1]
           /\ op = "register" =>
                /\ k \in Unregistered(p) /\ k + 1 \notin Unregistered(p)
                /\ Counts(p)[k + 1] = m + 1 /\ x = Resources(p)[m + 1]
           /\ op \in {"lock", "use"} =>
                /\ k \in Unregistered(p) <=> k + 1 \in Unregistered(p)
                /\ Counts(p)[k + 1] = m
  <2>1. k \in 1 .. Len(Launch!Plan[p])
    BY <1>5
  <2> HIDE DEF k
  <2> QED BY <2>1, PlanCounts
<1>6. ASSUME NEW f \in LaunchStates, f.at = "acquiring", f.step = k + 1, f.missed = {},
             f.state = "partial", Stacked(p, f.stack), Len(f.stack) = Counts(p)[k + 1],
             f.open = Held(p, Len(f.stack) + (IF k + 1 \in Unregistered(p) THEN 1 ELSE 0)),
             k + 1 > 3 => holder' = p
      PROVE  Launched(p, f, holder') /\ (p \in Launch!Calibrations => Evidenced(f, outputs'[p]))
  <2> HIDE DEF k, n, x, op
  <2>1. Launched(p, f, holder')
    BY <1>5, <1>6 DEF Launched
  <2>2. p \in Launch!Calibrations => Evidenced(f, outputs'[p])
    BY <1>1, <1>2, <1>6 DEF Evidenced
  <2> QED BY <2>1, <2>2
<1>7. /\ k + 1 > 3 /\ op # "lock" => k > 3
      /\ outputs' \in [Launch!Calibrations -> OutputStates]
  <2>1. k + 1 > 3 /\ op # "lock" => k > 3
    BY <1>5, PlanCounts
  <2>2. outputs' \in [Launch!Calibrations -> OutputStates]
    BY <1>2 DEF LaunchOrdered, LaunchTyped, OutputStates
  <2> QED BY <2>1, <2>2
<1> DEFINE Goes(f, h) ==
      /\ f \in LaunchStates /\ Launch!Becomes(p, f) /\ holder' = h
      /\ holder \in {p, Nothing} \/ h = holder
      /\ f.at = "acquiring" /\ f.step = k + 1 /\ f.missed = {}
      /\ f.state = "partial" /\ Stacked(p, f.stack) /\ Len(f.stack) = Counts(p)[k + 1]
      /\ f.open = Held(p, Len(f.stack) + (IF k + 1 \in Unregistered(p) THEN 1 ELSE 0))
      /\ k + 1 > 3 => h = p
<1>8. ASSUME NEW f, NEW h \in Processes \cup {Nothing}, Goes(f, h) PROVE LaunchOrdered'
  <2>1. Launched(p, f, holder') /\ (p \in Launch!Calibrations => Evidenced(f, outputs'[p]))
    BY <1>6, <1>8
  <2> HIDE DEF k, n, x, op
  <2> QED BY <1>2, <1>7, <1>8, <2>1, LaunchActs DEF OutputStates
<1>9. CASE Launch!Opens(p)
  <2> DEFINE f == [[r EXCEPT !.step = @ + 1] EXCEPT !.open = @ \cup {x}]
  <2>1. op = "open" /\ Launch!Becomes(p, f)
    BY <1>9 DEF Launch!Opens, Launch!Does, Launch!Statement, Launch!Advanced
  <2>2. /\ k \notin Unregistered(p) /\ k + 1 \in Unregistered(p) /\ Counts(p)[k + 1] = n
        /\ x = Resources(p)[n + 1]
    BY <1>3, <1>5a, <2>1
  <2>3. n + 1 \in 1 .. Len(Resources(p)) /\ (n + 1) - 1 = n /\ n + 0 = n
    BY <1>4, <2>1
  <2>4. x \in Names /\ Held(p, n + 1) = Held(p, n) \cup {x}
    BY <2>2, <2>3, HeldResources
  <2>5. r.open = Held(p, n)
    BY <1>3, <2>2, <2>3
  <2> HIDE DEF x
  <2>6. f \in LaunchStates /\ f.at = r.at /\ f.step = k + 1 /\ f.missed = r.missed
        /\ f.state = r.state /\ f.stack = r.stack /\ f.open = r.open \cup {x}
    BY <1>1, <1>5, <2>4 DEF LaunchStates
  <2> HIDE DEF f
  <2>7. Goes(f, holder)
    BY <1>1, <1>2, <1>3, <1>7, <2>1, <2>2, <2>4, <2>5, <2>6
  <2> QED BY <1>1, <1>8, <2>7
<1>10. CASE Launch!Registers(p)
  <2> DEFINE f == [[r EXCEPT !.step = @ + 1] EXCEPT !.stack = <<x>> \o @]
  <2>1. op = "register" /\ Launch!Becomes(p, f)
    BY <1>10 DEF Launch!Registers, Launch!Does, Launch!Statement, Launch!Advanced
  <2>2. /\ k \in Unregistered(p) /\ k + 1 \notin Unregistered(p) /\ Counts(p)[k + 1] = n + 1
        /\ x = Resources(p)[n + 1]
    BY <1>3, <1>5a, <2>1
  <2>3. n + 1 \in 1 .. Len(Resources(p)) /\ (n + 1) + 0 = n + 1
    BY <1>4, <2>1
  <2>4. x \in Names
    BY <2>2, <2>3, HeldResources
  <2>5. r.open = Held(p, n + 1)
    BY <1>3, <2>2, <2>3
  <2> HIDE DEF x
  <2>6. /\ r.stack \in Seq(Names) /\ <<x>> \o r.stack \in Seq(Names)
        /\ Len(<<x>> \o r.stack) = n + 1
        /\ \A i \in 1 .. n + 1 : (<<x>> \o r.stack)[i] = IF i = 1 THEN x ELSE r.stack[i - 1]
    BY <1>1, <2>4 DEF LaunchStates
  <2>7. f \in LaunchStates /\ f.at = r.at /\ f.step = k + 1 /\ f.missed = r.missed
        /\ f.state = r.state /\ f.stack = <<x>> \o r.stack /\ f.open = r.open
    BY <1>1, <1>5, <2>6 DEF LaunchStates
  <2>8. Stacked(p, f.stack)
    <3> DEFINE s == <<x>> \o r.stack
    <3>1. /\ Len(s) = n + 1 /\ n \in Nat /\ s[1] = Resources(p)[n + 1]
          /\ \A i \in 1 .. n : r.stack[i] = Resources(p)[n + 1 - i]
          /\ \A i \in 2 .. n + 1 : s[i] = r.stack[i - 1]
      BY <1>3, <1>4, <2>2, <2>6 DEF Stacked
    <3> HIDE DEF s, n
    <3>2. \A i \in 1 .. n + 1 : s[i] = Resources(p)[n + 1 + 1 - i]
      <4> SUFFICES ASSUME NEW i \in 1 .. n + 1 PROVE s[i] = Resources(p)[n + 1 + 1 - i]
        OBVIOUS
      <4>1. CASE i = 1
        BY <3>1, <4>1
      <4>2. CASE i # 1
        <5>1. i \in 2 .. n + 1 /\ i - 1 \in 1 .. n /\ n + 1 - (i - 1) = n + 1 + 1 - i
          BY <3>1, <4>2
        <5>2. s[i] = r.stack[i - 1] /\ r.stack[i - 1] = Resources(p)[n + 1 - (i - 1)]
          BY <3>1, <5>1
        <5> QED BY <5>1, <5>2
      <4> QED BY <4>1, <4>2
    <3> QED BY <2>3, <2>7, <3>1, <3>2 DEF Stacked, s
  <2> HIDE DEF f
  <2>9. Goes(f, holder)
    BY <1>1, <1>2, <1>3, <1>7, <2>1, <2>2, <2>3, <2>5, <2>6, <2>7, <2>8
  <2> QED BY <1>1, <1>8, <2>9
<1>11. CASE Launch!Locks(p) \/ Launch!Uses(p)
  <2> DEFINE f == [r EXCEPT !.step = @ + 1]
  <2>1. /\ op \in {"lock", "use"} /\ Launch!Becomes(p, f)
        /\ \/ op = "lock" /\ holder = Nothing /\ holder' = p
           \/ op = "use" /\ holder' = holder
    BY <1>11 DEF Launch!Locks, Launch!Uses, Launch!Does, Launch!Statement, Launch!Advanced
  <2>2. (k \in Unregistered(p) <=> k + 1 \in Unregistered(p)) /\ Counts(p)[k + 1] = n
    BY <1>3, <1>5a, <2>1
  <2>3. f \in LaunchStates /\ f.at = r.at /\ f.step = k + 1 /\ f.missed = r.missed
        /\ f.state = r.state /\ f.stack = r.stack /\ f.open = r.open
    BY <1>1, <1>5 DEF LaunchStates
  <2> HIDE DEF f
  <2>4. Goes(f, holder')
    BY <1>1, <1>2, <1>3, <1>7, <2>1, <2>2, <2>3
  <2> QED BY <1>1, <1>8, <2>1, <2>4
<1> QED BY <1>9, <1>10, <1>11

\* What a step says that leaves what is open and registered.
LEMMA LaunchGoes ==
    ASSUME LaunchOrdered, NEW p \in Processes,
           NEW at \in {"start", "acquiring", "closing", "exiting", "saving", "publishing",
                       "flushing", "published", "ended"},
           Launch!Becomes(p, Launch!Goes(p, at)), holder' = holder,
           launched[p].at \notin {"start", "acquiring"}, at \notin {"start", "acquiring", "ended"},
           at # "closing" => Len(launched[p].stack) = 0,
           launched[p].at # "ended",
           outputs' \in [Launch!Calibrations -> OutputStates],
           \A q \in Launch!Calibrations \ {p} : outputs'[q] = outputs[q],
           p \in Launch!Calibrations => Evidenced(Launch!Goes(p, at), outputs'[p])
    PROVE  LaunchOrdered'
<1> DEFINE r == launched[p]
           f == [r EXCEPT !.at = at]
<1>1. r \in LaunchStates /\ Launched(p, r, holder) /\ holder \in Processes \cup {Nothing}
  BY DEF LaunchOrdered, LaunchTyped
<1>2. Launch!Becomes(p, f) /\ (p \in Launch!Calibrations => Evidenced(f, outputs'[p]))
  BY DEF Launch!Goes
<1>3. /\ f \in LaunchStates /\ f.at = at /\ f.step = r.step /\ f.open = r.open
      /\ f.stack = r.stack /\ f.state = r.state /\ f.missed = r.missed
  BY <1>1 DEF LaunchStates
<1> HIDE DEF f
<1>4. Launched(p, f, holder')
  BY <1>1, <1>3 DEF Launched
<1> QED BY <1>1, <1>2, <1>3, <1>4, LaunchActs DEF OutputStates

LEMMA LaunchEnds == ASSUME LaunchOrdered, NEW p \in Processes, Launch!Ends(p) PROVE LaunchOrdered'
<1> DEFINE r == launched[p]
           state == IF r.at = "published" THEN "published" ELSE "partial"
           f == [r EXCEPT !.at = "ended", !.open = {}, !.stack = <<>>, !.missed = {},
                          !.state = state]
<1>1. /\ r \in LaunchStates /\ Launched(p, r, holder) /\ holder \in Processes \cup {Nothing}
      /\ p \in Launch!Calibrations => Evidenced(r, outputs[p])
  BY DEF LaunchOrdered, LaunchTyped
<1>2. /\ Launch!Becomes(p, f) /\ outputs' = outputs /\ r.at # "ended"
      /\ holder' = IF holder = p THEN Nothing ELSE holder
  BY DEF Launch!Ends, Launch!Goes, Launch!Is
<1>3. /\ f \in LaunchStates /\ f.at = "ended" /\ f.open = {} /\ f.stack = <<>> /\ f.missed = {}
  <2>1. state \in {"partial", "complete", "published"} /\ <<>> \in Seq(Names)
    OBVIOUS
  <2> HIDE DEF state
  <2> QED BY <1>1, <2>1 DEF LaunchStates
<1> HIDE DEF f
<1>4. Launched(p, f, holder')
  <2>1. Len(f.stack) = 0 /\ Held(p, 0) = {} /\ Len(Resources(p)) \in Nat
    BY <1>3, HeldResources
  <2> QED BY <1>3, <2>1 DEF Launched, Stacked
<1>5. p \in Launch!Calibrations => Evidenced(f, outputs'[p])
  BY <1>1, <1>2, <1>3 DEF Evidenced
<1>6. outputs' \in [Launch!Calibrations -> OutputStates]
  BY <1>2 DEF LaunchOrdered, LaunchTyped, OutputStates
<1> QED BY <1>1, <1>2, <1>3, <1>4, <1>5, <1>6, LaunchActs DEF OutputStates

LEMMA LaunchCloses ==
    ASSUME LaunchOrdered, NEW p \in Processes, Launch!Closes(p) PROVE LaunchOrdered'
<1> DEFINE r == launched[p]
           n == Len(r.stack)
           x == r.stack[1]
           s == Launch!RemoveAt(r.stack, 1)
           closed == [[r EXCEPT !.stack = s] EXCEPT !.open = @ \ {x}]
           failed == [[r EXCEPT !.stack = s] EXCEPT !.missed = @ \cup {x}, !.state = "partial"]
<1>1. /\ r \in LaunchStates /\ Launched(p, r, holder) /\ holder \in Processes \cup {Nothing}
      /\ p \in Launch!Calibrations => Evidenced(r, outputs[p])
  BY DEF LaunchOrdered, LaunchTyped
<1>2. /\ r.at = "closing" /\ r.stack # <<>> /\ outputs' = outputs
      /\ Launch!Becomes(p, closed) \/ Launch!Becomes(p, failed)
      /\ holder' = IF x = "lease" /\ holder = p THEN Nothing ELSE holder
  BY DEF Launch!Closes, Launch!CloseNext, Launch!Is
<1>3. /\ r.stack \in Seq(Names) /\ n \in 1 .. Len(Resources(p)) /\ Len(Resources(p)) \in Nat
      /\ \A i \in 1 .. n : r.stack[i] = Resources(p)[n + 1 - i]
  <2>1. r.stack \in Seq(Names) /\ Stacked(p, r.stack)
    BY <1>1 DEF Launched, LaunchStates
  <2> QED BY <1>2, <2>1, HeldResources DEF Stacked
<1>4. /\ s \in Seq(Names) /\ Len(s) = n - 1
      /\ \A i \in 1 .. n - 1 : s[i] = r.stack[i + 1]
  BY <1>3 DEF Launch!RemoveAt
<1>5. x = Resources(p)[n]
  <2>1. 1 \in 1 .. n /\ n + 1 - 1 = n
    BY <1>3
  <2> QED BY <1>3, <2>1
<1>6. Stacked(p, s)
  <2>0. n - 1 \in 0 .. Len(Resources(p))
    BY <1>3
  <2> HIDE DEF n, s
  <2> SUFFICES ASSUME NEW i \in 1 .. n - 1 PROVE s[i] = Resources(p)[(n - 1) + 1 - i]
    BY <1>4, <2>0 DEF Stacked
  <2>1. i + 1 \in 1 .. n /\ n + 1 - (i + 1) = (n - 1) + 1 - i
    BY <1>3
  <2> QED BY <1>3, <1>4, <2>1
<1>7. /\ x \in Names /\ (x = "lease" <=> n = 1) /\ x \notin Held(p, n - 1)
      /\ Held(p, n) = Held(p, n - 1) \cup {x}
  BY <1>3, <1>5, HeldResources
<1>8. /\ r.missed \subseteq r.open /\ Held(p, n) \subseteq r.open
      /\ r.open \ r.missed \subseteq Held(p, n) /\ Held(p, n) \cap r.missed = {}
      /\ (n > 1 => holder = p) /\ r.state # "published"
  BY <1>1, <1>2 DEF Launched
<1> HIDE DEF x, s
<1>9. ASSUME NEW f \in LaunchStates, Launch!Becomes(p, f), f.at = "closing", f.stack = s,
             \/ f.open = r.open \ {x} /\ f.missed = r.missed /\ f.state = r.state
             \/ f.open = r.open /\ f.missed = r.missed \cup {x} /\ f.state = "partial"
      PROVE  LaunchOrdered'
  <2>1. holder' \in Processes \cup {Nothing} /\ (holder \in {p, Nothing} \/ holder' = holder)
    BY <1>1, <1>2
  <2>2. n - 1 > 1 => holder' = p
    BY <1>2, <1>3, <1>7, <1>8
  <2>3. /\ f.missed \subseteq f.open /\ Held(p, n - 1) \subseteq f.open
        /\ f.open \ f.missed \subseteq Held(p, n - 1) /\ Held(p, n - 1) \cap f.missed = {}
        /\ f.state # "published"
    BY <1>7, <1>8, <1>9
  <2>4. Launched(p, f, holder')
    BY <1>4, <1>6, <1>9, <2>2, <2>3 DEF Launched
  <2>5. p \in Launch!Calibrations => Evidenced(f, outputs'[p])
    BY <1>1, <1>2, <1>9 DEF Evidenced
  <2>6. outputs' \in [Launch!Calibrations -> OutputStates]
    BY <1>2 DEF LaunchOrdered, LaunchTyped, OutputStates
  <2> QED BY <1>2, <1>9, <2>1, <2>4, <2>5, <2>6, LaunchActs DEF OutputStates
<1>10. CASE Launch!Becomes(p, closed)
  <2>1. /\ closed \in LaunchStates /\ closed.at = r.at /\ closed.stack = s
        /\ closed.open = r.open \ {x} /\ closed.missed = r.missed /\ closed.state = r.state
    BY <1>1, <1>4 DEF LaunchStates
  <2> HIDE DEF closed
  <2> QED BY <1>2, <1>9, <1>10, <2>1
<1>11. CASE Launch!Becomes(p, failed)
  <2>1. /\ failed \in LaunchStates /\ failed.at = r.at /\ failed.stack = s
        /\ failed.open = r.open /\ failed.missed = r.missed \cup {x} /\ failed.state = "partial"
    BY <1>1, <1>4, <1>7 DEF LaunchStates
  <2> HIDE DEF failed
  <2> QED BY <1>2, <1>9, <1>11, <2>1
<1> QED BY <1>2, <1>10, <1>11

\* Acquisition ends: every resource is there, or a statement raised.
LEMMA LaunchStops ==
    ASSUME LaunchOrdered, NEW p \in Processes, Launch!Drives(p) \/ Launch!Raises(p)
    PROVE  LaunchOrdered'
<1> DEFINE r == launched[p]
           k == r.step
           n == Len(r.stack)
           driven == [[r EXCEPT !.at = "closing"] EXCEPT !.state = "complete"]
           raised(m) == [[r EXCEPT !.at = "closing"] EXCEPT !.missed = m]
           missing == r.open \ Launch!Range(r.stack)
<1>1. /\ r \in LaunchStates /\ Launched(p, r, holder) /\ holder \in Processes \cup {Nothing}
      /\ p \in Launch!Calibrations => Evidenced(r, outputs[p])
  BY DEF LaunchOrdered, LaunchTyped
<1>2. /\ r.at = "acquiring" /\ outputs' = outputs /\ holder' = holder
      /\ \/ Launch!Becomes(p, driven) /\ ~(k <= Len(Launch!Plan[p]))
         \/ Launch!Becomes(p, raised({})) /\ ~(k <= Len(Launch!Plan[p]))
         \/ Launch!Becomes(p, raised(missing)) /\ k <= Len(Launch!Plan[p])
  <2>1. k \in Nat /\ Len(Launch!Plan[p]) \in Nat
    BY <1>1, PlanCounts DEF LaunchStates
  <2>2. CASE Launch!Drives(p)
    BY <2>1, <2>2 DEF Launch!Drives, Launch!Is, Launch!Goes
  <2>3. CASE Launch!Raises(p)
    <3>1. r.at = "acquiring" /\ (Launch!Acquiring(p) <=> k <= Len(Launch!Plan[p]))
      BY <2>3 DEF Launch!Raises, Launch!Acquiring, Launch!Is
    <3>2. CASE Launch!Acquiring(p)
      BY <2>3, <3>1, <3>2 DEF Launch!Raises, Launch!Goes
    <3>3. CASE ~Launch!Acquiring(p)
      BY <2>3, <3>1, <3>3 DEF Launch!Raises, Launch!Goes
    <3> QED BY <3>2, <3>3
  <2> QED BY <2>2, <2>3
<1>3. /\ Stacked(p, r.stack) /\ r.missed = {} /\ r.state = "partial"
      /\ k \in 1 .. Len(Launch!Plan[p]) + 1 /\ n = Counts(p)[k]
      /\ r.open = Held(p, n + (IF k \in Unregistered(p) THEN 1 ELSE 0))
      /\ (k > 3 => holder = p)
  BY <1>1, <1>2 DEF Launched
<1>4. /\ n \in 0 .. Len(Resources(p)) /\ Len(Resources(p)) \in Nat /\ (n > 1 => holder = p)
      /\ k \in Unregistered(p) => n + 1 \in 1 .. Len(Resources(p))
      /\ k \in Unregistered(p) => k <= Len(Launch!Plan[p])
  <2>1. Len(Resources(p)) \in Nat /\ n \in 0 .. Len(Resources(p)) /\ Len(Launch!Plan[p]) \in Nat
    BY <1>3, HeldResources, PlanCounts DEF Stacked
  <2> HIDE DEF k
  <2>2. /\ k \in Unregistered(p) => Counts(p)[k] < Len(Resources(p))
        /\ Counts(p)[k] + (IF k \in Unregistered(p) THEN 1 ELSE 0) > 1 => k > 3
        /\ Len(Launch!Plan[p]) + 1 \notin Unregistered(p)
    BY <1>3, PlanCounts
  <2> HIDE DEF n
  <2> QED BY <1>3, <2>1, <2>2
<1>5. Held(p, n) \subseteq r.open
  <2> HIDE DEF n, k
  <2>1. k \in Unregistered(p) => Held(p, n + 1) = Held(p, (n + 1) - 1) \cup {Resources(p)[n + 1]}
    BY <1>4, HeldResources
  <2>2. (n + 1) - 1 = n /\ n + 0 = n
    BY <1>4
  <2> QED BY <1>3, <2>1, <2>2
<1>6. k > Len(Launch!Plan[p]) => r.open = Held(p, n)
  <2> HIDE DEF n, k
  <2>1. k \in Int /\ Len(Launch!Plan[p]) \in Int /\ n + 0 = n
    BY <1>3, <1>4, PlanCounts
  <2> QED BY <1>3, <1>4, <2>1
<1>7. Launch!Range(r.stack) = Held(p, n)
  <2>1. r.stack \in Seq(Names)
    BY <1>1 DEF LaunchStates
  <2>2. \A i \in 1 .. n : r.stack[i] = Resources(p)[n + 1 - i] /\ n + 1 - i \in 1 .. n
    BY <1>3, <1>4 DEF Stacked
  <2>3. \A i \in 1 .. n : n + 1 - (n + 1 - i) = i
    BY <1>4
  <2>4. DOMAIN r.stack = 1 .. n
    BY <2>1
  <2> HIDE DEF n
  <2>5. Launch!Range(r.stack) \subseteq Held(p, n)
    BY <2>2, <2>4 DEF Launch!Range, Held
  <2>6. \A i \in 1 .. n : Resources(p)[i] = r.stack[n + 1 - i]
    BY <2>2, <2>3
  <2>7. Held(p, n) \subseteq Launch!Range(r.stack)
    BY <2>2, <2>4, <2>6 DEF Launch!Range, Held
  <2> QED BY <2>5, <2>7
<1>8. ASSUME NEW f \in LaunchStates, Launch!Becomes(p, f), f.at = "closing", f.stack = r.stack,
             f.open = r.open, f.missed = r.open \ Held(p, n), f.state # "published",
             f.state = "complete" => f.missed = {}
      PROVE  LaunchOrdered'
  <2>1. Launched(p, f, holder')
    BY <1>2, <1>3, <1>4, <1>5, <1>8 DEF Launched
  <2>2. p \in Launch!Calibrations => Evidenced(f, outputs'[p])
    BY <1>1, <1>2, <1>8 DEF Evidenced
  <2>3. outputs' \in [Launch!Calibrations -> OutputStates]
    BY <1>2 DEF LaunchOrdered, LaunchTyped, OutputStates
  <2> QED BY <1>1, <1>2, <1>8, <2>1, <2>2, <2>3, LaunchActs DEF OutputStates
<1>9. CASE Launch!Becomes(p, driven) /\ ~(k <= Len(Launch!Plan[p]))
  <2>1. /\ driven \in LaunchStates /\ driven.at = "closing" /\ driven.stack = r.stack
        /\ driven.open = r.open /\ driven.missed = r.missed /\ driven.state = "complete"
    BY <1>1 DEF LaunchStates
  <2>2. r.open \ Held(p, n) = {}
    BY <1>3, <1>6, <1>9, PlanCounts
  <2> HIDE DEF driven
  <2> QED BY <1>3, <1>8, <1>9, <2>1, <2>2
<1>10. ASSUME NEW m \in SUBSET r.open, Launch!Becomes(p, raised(m)), m = r.open \ Held(p, n)
       PROVE  LaunchOrdered'
  <2> DEFINE f == raised(m)
  <2>1. /\ f \in LaunchStates /\ f.at = "closing" /\ f.stack = r.stack
        /\ f.open = r.open /\ f.missed = m /\ f.state = r.state
    <3>1. m \in SUBSET Names
      BY <1>1 DEF LaunchStates
    <3> QED BY <1>1, <3>1 DEF LaunchStates
  <2>2. Launch!Becomes(p, f)
    BY <1>10
  <2> HIDE DEF f
  <2> QED BY <1>3, <1>8, <1>10, <2>1, <2>2
<1>11. CASE Launch!Becomes(p, raised({})) /\ ~(k <= Len(Launch!Plan[p]))
  <2>1. r.open \ Held(p, n) = {}
    BY <1>3, <1>6, <1>11, PlanCounts
  <2> HIDE DEF raised
  <2> QED BY <1>10, <1>11, <2>1
<1>12. CASE Launch!Becomes(p, raised(missing))
  <2>1. missing = r.open \ Held(p, n) /\ missing \in SUBSET r.open
    BY <1>7
  <2> HIDE DEF missing, raised
  <2> QED BY <1>10, <1>12, <2>1
<1> QED BY <1>2, <1>9, <1>11, <1>12

\* What happens to the output before and after the resources.
LEMMA LaunchPublishes ==
    ASSUME LaunchOrdered, NEW p \in Processes,
           \/ Launch!Reserve(p) \/ Launch!Closed(p) \/ Launch!Saves(p) \/ Launch!Renames(p)
           \/ Launch!Publishes(p) \/ Launch!Withdraws(p) \/ Launch!SavingFails(p)
    PROVE  LaunchOrdered'
<1> DEFINE r == launched[p]
           d == outputs[p]
<1>1. /\ r \in LaunchStates /\ Launched(p, r, holder) /\ holder \in Processes \cup {Nothing}
      /\ p \in Launch!Calibrations => Evidenced(r, d) /\ d \in OutputStates
      /\ outputs \in [Launch!Calibrations -> OutputStates]
  BY DEF LaunchOrdered, LaunchTyped, OutputStates
<1>2. ASSUME NEW at \in {"start", "acquiring", "closing", "exiting", "saving", "publishing",
                         "flushing", "published", "ended"}
      PROVE  LET f == Launch!Goes(p, at)
             IN  /\ f \in LaunchStates /\ f.at = at /\ f.step = r.step /\ f.open = r.open
                 /\ f.stack = r.stack /\ f.state = r.state /\ f.missed = r.missed
  BY <1>1 DEF LaunchStates, Launch!Goes
<1>3. ASSUME NEW at \in {"exiting", "saving", "publishing", "flushing", "published"},
             Launch!Becomes(p, Launch!Goes(p, at)), holder' = holder,
             r.at \notin {"start", "acquiring", "ended"}, Len(r.stack) = 0,
             outputs' \in [Launch!Calibrations -> OutputStates],
             \A q \in Launch!Calibrations \ {p} : outputs'[q] = outputs[q],
             p \in Launch!Calibrations => Evidenced(Launch!Goes(p, at), outputs'[p])
      PROVE  LaunchOrdered'
  BY <1>3, LaunchGoes
<1>4. r.at \notin {"start", "acquiring", "closing"} => Len(r.stack) = 0
  BY <1>1 DEF Launched
<1>5. CASE Launch!Reserve(p)
  <2>1. r.at = "start" /\ holder' = holder
    BY <1>5 DEF Launch!Reserve, Launch!Is
  <2>2. PICK at \in {"acquiring", "exiting"} :
           /\ Launch!Becomes(p, Launch!Goes(p, at))
           /\ at = "acquiring" =>
                 d.destination = Nothing /\ outputs' = [outputs EXCEPT ![p].partial = "own"]
           /\ at = "exiting" => outputs' = outputs
    BY <1>5 DEF Launch!Reserve
  <2> DEFINE f == Launch!Goes(p, at)
  <2>3. /\ f \in LaunchStates /\ f.at = at /\ f.step = r.step /\ f.open = r.open
        /\ f.stack = r.stack /\ f.state = r.state /\ f.missed = r.missed
    BY <1>2
  <2> HIDE DEF f
  <2>4. r.step = 1 /\ Len(r.stack) = 0 /\ r.open = Held(p, 0) /\ r.missed = {}
    <3> DEFINE n == Len(r.stack)
    <3>1. /\ r.step = 1 /\ n = Counts(p)[r.step] /\ r.missed = {}
          /\ r.open = Held(p, n + (IF r.step \in Unregistered(p) THEN 1 ELSE 0))
      BY <1>1, <2>1 DEF Launched
    <3>2. Counts(p)[1] = 0 /\ 1 \notin Unregistered(p)
      BY PlanCounts
    <3> HIDE DEF n
    <3>3. n + (IF r.step \in Unregistered(p) THEN 1 ELSE 0) = 0
      BY <3>1, <3>2
    <3> QED BY <3>1, <3>2, <3>3 DEF n
  <2>5. Held(p, 0) = {}
    BY DEF Held
  <2>6. Launched(p, f, holder')
    BY <1>1, <2>1, <2>3, <2>4, <2>5 DEF Launched
  <2>7. outputs' \in [Launch!Calibrations -> OutputStates]
        /\ \A q \in Launch!Calibrations \ {p} : outputs'[q] = outputs[q]
    BY <1>1, <2>2 DEF OutputStates
  <2>8. p \in Launch!Calibrations => Evidenced(f, outputs'[p])
    <3>1. CASE at = "exiting"
      BY <1>1, <2>1, <2>2, <2>3, <3>1 DEF Evidenced
    <3>2. CASE at = "acquiring"
      <4>1. p \in Launch!Calibrations => outputs'[p].partial = "own"
               /\ outputs'[p].document = d.document /\ outputs'[p].destination = Nothing
        BY <1>1, <2>2, <3>2 DEF OutputStates
      <4> QED BY <1>1, <2>1, <2>3, <3>2, <4>1, LaunchAssumption DEF Evidenced
    <3> QED BY <3>1, <3>2
  <2> QED BY <1>1, <2>1, <2>2, <2>3, <2>6, <2>7, <2>8, LaunchActs DEF f, OutputStates
<1>6. CASE Launch!Closed(p)
  <2>1. /\ r.at = "closing" /\ r.stack = <<>> /\ holder' = holder /\ outputs' = outputs
        /\ Launch!Becomes(p, Launch!Goes(p, IF Runs[p] = "teleop" THEN "exiting" ELSE "saving"))
    BY <1>6 DEF Launch!Closed, Launch!Is
  <2>2. PICK at \in {"exiting", "saving"} : Launch!Becomes(p, Launch!Goes(p, at))
    BY <2>1
  <2>3. p \in Launch!Calibrations => Evidenced(Launch!Goes(p, at), outputs'[p])
    BY <1>1, <1>2, <2>1 DEF Evidenced
  <2>4. Len(r.stack) = 0
    BY <2>1
  <2> QED BY <1>1, <1>3, <2>1, <2>2, <2>3, <2>4
<1>7. CASE Launch!Saves(p)
  <2>1. /\ r.at = "saving" /\ holder' = holder
        /\ outputs' = [outputs EXCEPT ![p].document = r.state]
    BY <1>7 DEF Launch!Saves, Launch!Is
  <2>2. PICK at \in {"publishing", "exiting"} :
           /\ Launch!Becomes(p, Launch!Goes(p, at))
           /\ at = "publishing" => r.state = "complete"
    BY <1>7 DEF Launch!Saves
  <2>3. r.state \in {"partial", "complete"}
    BY <1>1, <2>1 DEF LaunchStates, Launched
  <2>4. outputs' \in [Launch!Calibrations -> OutputStates]
        /\ \A q \in Launch!Calibrations \ {p} : outputs'[q] = outputs[q]
    BY <1>1, <2>1, <2>3 DEF OutputStates
  <2>5. p \in Launch!Calibrations => Evidenced(Launch!Goes(p, at), outputs'[p])
    <3>1. p \in Launch!Calibrations =>
             /\ outputs'[p].partial = d.partial /\ outputs'[p].destination = d.destination
             /\ outputs'[p].document = r.state
      BY <1>1, <2>1 DEF OutputStates
    <3> QED BY <1>1, <1>2, <2>1, <2>2, <3>1 DEF Evidenced
  <2> QED BY <1>1, <1>3, <1>4, <2>1, <2>2, <2>4, <2>5
<1>8. CASE Launch!Renames(p)
  <2>1. /\ r.at = "publishing" /\ holder' = holder
        /\ Launch!Becomes(p, Launch!Goes(p, "flushing"))
        /\ outputs' = [outputs EXCEPT ![p].destination = "own", ![p].partial = Nothing]
    BY <1>8 DEF Launch!Renames, Launch!Is
  <2>2. outputs' \in [Launch!Calibrations -> OutputStates]
        /\ \A q \in Launch!Calibrations \ {p} : outputs'[q] = outputs[q]
    BY <1>1, <2>1 DEF OutputStates
  <2>3. p \in Launch!Calibrations => Evidenced(Launch!Goes(p, "flushing"), outputs'[p])
    <3>1. p \in Launch!Calibrations =>
             /\ outputs'[p].partial = Nothing /\ outputs'[p].destination = "own"
             /\ outputs'[p].document = d.document
      BY <1>1, <2>1 DEF OutputStates
    <3> QED BY <1>1, <1>2, <2>1, <3>1 DEF Evidenced
  <2> QED BY <1>1, <1>3, <1>4, <2>1, <2>2, <2>3
<1>9. CASE Launch!Withdraws(p)
  <2>1. /\ r.at = "flushing" /\ holder' = holder /\ Launch!Becomes(p, Launch!Goes(p, "exiting"))
        /\ outputs' = [outputs EXCEPT ![p].destination = Nothing, ![p].partial = "own"]
    BY <1>9 DEF Launch!Withdraws, Launch!Is
  <2>2. outputs' \in [Launch!Calibrations -> OutputStates]
        /\ \A q \in Launch!Calibrations \ {p} : outputs'[q] = outputs[q]
    BY <1>1, <2>1 DEF OutputStates
  <2>3. p \in Launch!Calibrations => Evidenced(Launch!Goes(p, "exiting"), outputs'[p])
    <3>1. p \in Launch!Calibrations =>
             /\ outputs'[p].partial = "own" /\ outputs'[p].destination = Nothing
             /\ outputs'[p].document = d.document
      BY <1>1, <2>1 DEF OutputStates
    <3> QED BY <1>1, <1>2, <2>1, <3>1, LaunchAssumption DEF Evidenced
  <2> QED BY <1>1, <1>3, <1>4, <2>1, <2>2, <2>3
<1>10. CASE Launch!Publishes(p) \/ Launch!SavingFails(p)
  <2>1. PICK at \in {"published", "exiting"} :
           /\ Launch!Becomes(p, Launch!Goes(p, at)) /\ holder' = holder /\ outputs' = outputs
           /\ at = "published" => r.at = "flushing"
           /\ at = "exiting" => r.at \in {"saving", "publishing"}
    BY <1>10 DEF Launch!Publishes, Launch!SavingFails, Launch!Is
  <2>2. p \in Launch!Calibrations => Evidenced(Launch!Goes(p, at), outputs'[p])
    BY <1>1, <1>2, <2>1 DEF Evidenced
  <2> QED BY <1>1, <1>3, <1>4, <2>1, <2>2
<1> QED BY <1>5, <1>6, <1>7, <1>8, <1>9, <1>10

LEMMA LaunchStep == ASSUME LaunchOrdered, [Launch!Next]_Launch!vars PROVE LaunchOrdered'
<1>1. CASE UNCHANGED Launch!vars
  BY <1>1 DEF Launch!vars, LaunchOrdered, LaunchTyped
<1>2. ASSUME NEW p \in Processes,
             \/ Launch!Reserve(p) \/ Launch!Opens(p) \/ Launch!Registers(p) \/ Launch!Locks(p)
             \/ Launch!Uses(p) \/ Launch!Drives(p) \/ Launch!Raises(p) \/ Launch!Closes(p)
             \/ Launch!Closed(p) \/ Launch!Saves(p) \/ Launch!Renames(p) \/ Launch!Publishes(p)
             \/ Launch!Withdraws(p) \/ Launch!SavingFails(p) \/ Launch!Ends(p)
      PROVE  LaunchOrdered'
  BY <1>2, LaunchAcquires, LaunchStops, LaunchCloses, LaunchPublishes, LaunchEnds
<1> QED BY <1>1, <1>2 DEF Launch!Next

\* What drives the arm has the lease, and what is connected to it and is not
\* missed; what missed a resource drives and publishes nothing; a published
\* calibration is whole.  An arm opened and not registered, or whose close
\* raised, is the stated exception: it may outlast the lease.
THEOREM LeaseAlwaysCovers == Launch!Spec => []LeaseCovers
<1>1. Launch!Init => LaunchOrdered  BY LaunchInit
<1>2. LaunchOrdered /\ [Launch!Next]_Launch!vars => LaunchOrdered'  BY LaunchStep
<1>3. LaunchOrdered => LeaseCovers  BY LaunchCovers
<1> QED BY <1>1, <1>2, <1>3, PTL DEF Launch!Spec

-----------------------------------------------------------------------------
(* The station file and the bundles.                                        *)

Contents == Station!Documents \cup {Nothing}
Changes ==
    [kind : {"create"}] \cup [kind : {"declare"}, setup : [Roles -> Mounts]]
    \cup [kind : {"activate"}, role : Roles, mount : Mounts]
Locked == {"stored", "kept", "published", "flushed", "refused", "stranded"}
WriterStates ==
    [at : {"idle", "lock"} \cup Locked, change : Changes \cup {Nothing},
     document : Contents, backup : Contents]

StationTyped ==
    /\ path \in Contents /\ accepted \in Contents
    /\ disk \in Seq(Contents) /\ disk # <<>>
    /\ lock \in Writers \cup {Nothing}
    /\ writer \in [Writers -> WriterStates]

\* What is on disk d is the accepted document a or one of others.
OnDisk(d, a, others) == \A i \in DOMAIN d : d[i] \in {a} \cup others

\* What the holder of the lock, in state r, has done: the file p, the disk d,
\* the accepted document a, and u without a flush since.
Holding(r, p, d, a, u) ==
    /\ Station!Valid(r.document)
    /\ r.at \in {"stored", "kept", "refused"} => p = a /\ OnDisk(d, a, u)
    /\ r.at = "kept" => r.backup = IF r.change.kind = "create" THEN Nothing ELSE p
    /\ r.at \in {"published", "flushed", "stranded"} =>
          p = r.document /\ OnDisk(d, a, u \cup {r.document})
    /\ r.at \in {"published", "flushed"} => r.backup = a
    /\ r.at = "flushed" => \A i \in DOMAIN d : d[i] = r.document

StationOrdered ==
    /\ StationTyped
    /\ disk[Len(disk)] = path
    /\ \A i \in DOMAIN disk : disk[i] # Nothing => Station!Valid(disk[i])
    /\ accepted # Nothing => Station!Valid(accepted)
    /\ \A w \in Writers : writer[w].at \in Locked <=> lock = w
    /\ \A w \in Writers : writer[w].at = "lock" => writer[w].change \in Changes
    /\ lock = Nothing => path = accepted /\ OnDisk(disk, accepted, unsettled)
    /\ lock # Nothing => Holding(writer[lock], path, disk, accepted, unsettled)

LEMMA StationCovers == ASSUME StationOrdered PROVE Station!StationKept
<1>1. disk \in Seq(Contents) /\ disk # <<>> /\ Len(disk) \in DOMAIN disk
  BY DEF StationOrdered, StationTyped
<1>2. path # Nothing => Station!Valid(path)
  BY <1>1 DEF StationOrdered
<1>3. OnDisk(disk, accepted, unsettled \cup {writer[w].document : w \in {v \in Writers : lock = v}})
  <2>1. CASE lock = Nothing
    BY <2>1 DEF StationOrdered, OnDisk
  <2>2. CASE lock # Nothing
    <3>1. /\ lock \in Writers /\ writer[lock].at \in Locked
          /\ Holding(writer[lock], path, disk, accepted, unsettled)
      BY <2>2 DEF StationOrdered, StationTyped
    <3>2. OnDisk(disk, accepted, unsettled \cup {writer[lock].document})
      BY <3>1 DEF Holding, OnDisk, Locked
    <3> QED BY <3>1, <3>2 DEF OnDisk
  <2> QED BY <2>1, <2>2
<1> QED BY <1>2, <1>3 DEF StationOrdered, Station!StationKept, OnDisk

\* The documents of the changes.
LEMMA ChangedDocuments ==
    ASSUME NEW d \in Contents, NEW change \in Changes, d # Nothing \/ change.kind = "create"
    PROVE  Station!Changed(d, change) \in Station!Documents
<1>1. CASE change.kind = "create"
  BY <1>1 DEF Station!Changed, Station!Example, Station!Documents
<1>2. CASE change.kind = "declare"
  <2>1. d \in Station!Documents /\ change.setup \in [Roles -> Mounts]
    BY <1>2 DEF Contents, Changes
  <2>2. Station!Changed(d, change) = Station!Declared(d, change.setup)
    BY <1>2 DEF Station!Changed
  <2> QED BY <2>1, <2>2 DEF Station!Declared, Station!Documents
<1>3. CASE change.kind = "activate"
  <2>1. d \in Station!Documents /\ change.role \in Roles /\ change.mount \in Mounts
    BY <1>3 DEF Contents, Changes
  <2>2. Station!Changed(d, change) = [d EXCEPT !.cameras[change.role] = change.mount]
    BY <1>3 DEF Station!Changed, Station!Activated
  <2> QED BY <2>1, <2>2 DEF Station!Documents
<1>4. change.kind \in {"create", "declare", "activate"}
  BY DEF Changes
<1> QED BY <1>1, <1>2, <1>3, <1>4

LEMMA StationInit == ASSUME Station!Init PROVE StationOrdered
<1>1. Station!Idle \in WriterStates /\ Station!Idle.at = "idle"
  BY DEF Station!Idle, WriterStates, Contents
<1>2. /\ path = Nothing /\ accepted = Nothing /\ lock = Nothing /\ disk = <<Nothing>>
      /\ writer \in [Writers -> WriterStates] /\ \A w \in Writers : writer[w].at = "idle"
  BY <1>1 DEF Station!Init
<1>3. disk \in Seq(Contents) /\ Len(disk) = 1 /\ DOMAIN disk = {1} /\ disk[1] = Nothing
  BY <1>2 DEF Contents
<1> QED BY <1>2, <1>3, StationAssumption
  DEF StationOrdered, StationTyped, OnDisk, Contents, Locked

\* A step of the writer that has the lock, or takes it, by what it leaves.
LEMMA StationActs ==
    ASSUME StationOrdered, NEW w \in Writers, NEW f \in WriterStates,
           writer' = [writer EXCEPT ![w] = f],
           lock \in {w, Nothing}, lock' \in {w, Nothing},
           f.at \in Locked <=> lock' = w, f.at = "lock" => f.change \in Changes,
           path' \in Contents, accepted' \in Contents,
           disk' \in Seq(Contents), disk' # <<>>, disk'[Len(disk')] = path',
           \A i \in DOMAIN disk' : disk'[i] # Nothing => Station!Valid(disk'[i]),
           accepted' # Nothing => Station!Valid(accepted'),
           lock' = Nothing => path' = accepted' /\ OnDisk(disk', accepted', unsettled'),
           lock' = w => Holding(f, path', disk', accepted', unsettled')
    PROVE  StationOrdered'
<1>1. /\ writer \in [Writers -> WriterStates]
      /\ \A v \in Writers : writer[v].at \in Locked <=> lock = v
      /\ \A v \in Writers : writer[v].at = "lock" => writer[v].change \in Changes
  BY DEF StationOrdered, StationTyped
<1>2. /\ writer' \in [Writers -> WriterStates] /\ writer'[w] = f
      /\ \A v \in Writers \ {w} : writer'[v] = writer[v]
  BY <1>1
<1>3. StationTyped'
  BY <1>2 DEF StationTyped
<1>4. \A v \in Writers : writer'[v].at \in Locked <=> lock' = v
  BY <1>1, <1>2, StationAssumption
<1>5. \A v \in Writers : writer'[v].at = "lock" => writer'[v].change \in Changes
  BY <1>1, <1>2
<1>6. lock' # Nothing => Holding(writer'[lock'], path', disk', accepted', unsettled')
  BY <1>2
<1> QED BY <1>3, <1>4, <1>5, <1>6 DEF StationOrdered

\* A writer without the lock, before and after its step.
LEMMA StationWaits ==
    ASSUME StationOrdered, NEW w \in Writers, NEW f \in WriterStates,
           writer' = [writer EXCEPT ![w] = f], lock # w, f.at \notin Locked,
           f.at = "lock" => f.change \in Changes,
           UNCHANGED <<path, disk, lock, accepted, unsettled>>
    PROVE  StationOrdered'
<1>1. /\ writer \in [Writers -> WriterStates]
      /\ \A v \in Writers : writer[v].at \in Locked <=> lock = v
      /\ \A v \in Writers : writer[v].at = "lock" => writer[v].change \in Changes
  BY DEF StationOrdered, StationTyped
<1>2. /\ writer' \in [Writers -> WriterStates] /\ writer'[w] = f
      /\ \A v \in Writers \ {w} : writer'[v] = writer[v]
  BY <1>1
<1>3. StationTyped'
  BY <1>2 DEF StationOrdered, StationTyped
<1>4. \A v \in Writers : writer'[v].at \in Locked <=> lock' = v
  BY <1>1, <1>2
<1>5. \A v \in Writers : writer'[v].at = "lock" => writer'[v].change \in Changes
  BY <1>1, <1>2
<1>6. lock' # Nothing => Holding(writer'[lock'], path', disk', accepted', unsettled')
  BY <1>2 DEF StationOrdered, StationTyped
<1>7. /\ disk'[Len(disk')] = path'
      /\ \A i \in DOMAIN disk' : disk'[i] # Nothing => Station!Valid(disk'[i])
      /\ accepted' # Nothing => Station!Valid(accepted')
      /\ lock' = Nothing => path' = accepted' /\ OnDisk(disk', accepted', unsettled')
  BY DEF StationOrdered
<1> QED BY <1>3, <1>4, <1>5, <1>6, <1>7 DEF StationOrdered

\* What a document appended to the disk leaves.
LEMMA Found ==
    ASSUME NEW d \in Seq(Contents), d # <<>>, NEW content \in Contents,
           \A i \in DOMAIN d : d[i] # Nothing => Station!Valid(d[i]),
           content # Nothing => Station!Valid(content)
    PROVE  LET e == Append(d, content)
           IN  /\ e \in Seq(Contents) /\ e # <<>> /\ e[Len(e)] = content
               /\ \A i \in DOMAIN e : e[i] # Nothing => Station!Valid(e[i])
               /\ \A a, s : OnDisk(d, a, s) => OnDisk(e, a, s \cup {content})
               /\ \A a, s : OnDisk(d, a, s) /\ content = a => OnDisk(e, a, s)
<1> DEFINE e == Append(d, content)
<1>1. /\ e \in Seq(Contents) /\ Len(e) = Len(d) + 1 /\ DOMAIN e = 1 .. Len(d) + 1
      /\ e[Len(d) + 1] = content /\ Len(d) \in Nat /\ DOMAIN d = 1 .. Len(d)
      /\ \A i \in 1 .. Len(d) : e[i] = d[i]
  OBVIOUS
<1>2. \A i \in DOMAIN e : (i \in DOMAIN d /\ e[i] = d[i]) \/ e[i] = content
  BY <1>1
<1>3. e # <<>> /\ e[Len(e)] = content
  BY <1>1
<1> HIDE DEF e
<1>4. \A a, s : OnDisk(d, a, s) => OnDisk(e, a, s \cup {content})
  BY <1>2 DEF OnDisk
<1>5. \A a, s : OnDisk(d, a, s) /\ content = a => OnDisk(e, a, s)
  BY <1>2 DEF OnDisk
<1> QED BY <1>1, <1>2, <1>3, <1>4, <1>5 DEF e

LEMMA StationEnters ==
    ASSUME StationOrdered, NEW w \in Writers, Station!Call(w) \/ Station!Enter(w)
    PROVE  StationOrdered'
<1>1. /\ writer \in [Writers -> WriterStates] /\ writer[w] \in WriterStates
      /\ writer[w].at \in Locked <=> lock = w
      /\ path \in Contents /\ disk \in Seq(Contents) /\ disk # <<>> /\ accepted \in Contents
      /\ disk[Len(disk)] = path /\ \A i \in DOMAIN disk : disk[i] # Nothing => Station!Valid(disk[i])
      /\ accepted # Nothing => Station!Valid(accepted)
  BY DEF StationOrdered, StationTyped
<1>2. Station!Idle \in WriterStates /\ Station!Idle.at = "idle"
  BY DEF Station!Idle, WriterStates, Contents
<1>3. CASE Station!Call(w)
  <2>1. PICK change \in Changes :
           writer' = [writer EXCEPT ![w] = [Station!Idle EXCEPT !.at = "lock", !.change = change]]
    BY <1>3 DEF Station!Call, Changes
  <2> DEFINE f == [Station!Idle EXCEPT !.at = "lock", !.change = change]
  <2>2. f \in WriterStates /\ f.at = "lock" /\ f.change = change
    BY DEF Station!Idle, WriterStates, Contents
  <2>3. lock # w /\ UNCHANGED <<path, disk, lock, accepted, unsettled>>
    BY <1>1, <1>3 DEF Station!Call, Station!At, Locked
  <2> HIDE DEF f
  <2>4. f.at \notin Locked
    BY <2>2 DEF Locked
  <2> QED BY <2>1, <2>2, <2>3, <2>4, StationWaits DEF f
<1>4. CASE Station!Enter(w)
  <2> DEFINE change == writer[w].change
             d == Station!Changed(path, change)
  <2>1. /\ writer[w].at = "lock" /\ lock = Nothing /\ lock # w /\ change \in Changes
        /\ UNCHANGED <<path, disk, accepted, unsettled>>
    BY <1>1, <1>4, StationAssumption
      DEF Station!Enter, Station!At, Station!LockFree, StationOrdered
  <2>2. CASE writer' = [writer EXCEPT ![w] = Station!Idle] /\ UNCHANGED lock
    BY <1>2, <2>1, <2>2, StationWaits DEF Locked
  <2>3. CASE ~(writer' = [writer EXCEPT ![w] = Station!Idle] /\ UNCHANGED lock)
    <3>1. /\ path # Nothing \/ change.kind = "create"
          /\ Station!Valid(d) /\ lock' = w
          /\ writer' = [writer EXCEPT ![w].at = "stored", ![w].document = d]
      BY <1>4, <2>3 DEF Station!Enter, Station!Sound
    <3>2. d \in Contents
      BY <1>1, <2>1, <3>1, ChangedDocuments DEF Contents
    <3> HIDE DEF d
    <3> DEFINE f == [writer[w] EXCEPT !.at = "stored", !.document = d]
    <3>3. f \in WriterStates /\ f.at = "stored" /\ f.document = d
      BY <1>1, <3>2 DEF WriterStates, Locked
    <3>4. writer' = [writer EXCEPT ![w] = f]
      BY <1>1, <3>1
    <3> HIDE DEF f
    <3>5. path = accepted /\ OnDisk(disk, accepted, unsettled)
      BY <2>1 DEF StationOrdered
    <3>6. Holding(f, path', disk', accepted', unsettled')
      BY <2>1, <3>1, <3>3, <3>5 DEF Holding
    <3>7. f.at \in Locked
      BY <3>3 DEF Locked
    <3> QED BY <1>1, <2>1, <3>1, <3>3, <3>4, <3>6, <3>7, StationAssumption, StationActs
  <2> QED BY <2>2, <2>3
<1> QED BY <1>3, <1>4

LEMMA StationWrites ==
    ASSUME StationOrdered, NEW w \in Writers,
           \/ Station!Backup(w) \/ Station!Publish(w) \/ Station!Flush(w)
           \/ Station!WriteFails(w) \/ Station!Leave(w) \/ Station!KillWriter(w)
    PROVE  StationOrdered'
<1> DEFINE r == writer[w]
<1>1. /\ writer \in [Writers -> WriterStates] /\ r \in WriterStates
      /\ r.at \in Locked <=> lock = w
      /\ path \in Contents /\ disk \in Seq(Contents) /\ disk # <<>> /\ accepted \in Contents
      /\ disk[Len(disk)] = path /\ \A i \in DOMAIN disk : disk[i] # Nothing => Station!Valid(disk[i])
      /\ path # Nothing => Station!Valid(path)
      /\ accepted # Nothing => Station!Valid(accepted)
  <2>1. /\ disk \in Seq(Contents) /\ disk # <<>> /\ disk[Len(disk)] = path
        /\ \A i \in DOMAIN disk : disk[i] # Nothing => Station!Valid(disk[i])
    BY DEF StationOrdered, StationTyped
  <2>2. Len(disk) \in DOMAIN disk
    BY <2>1
  <2> QED BY <2>1, <2>2 DEF StationOrdered, StationTyped
<1>2. Station!Idle \in WriterStates /\ Station!Idle.at \notin Locked
  BY DEF Station!Idle, WriterStates, Contents, Locked
<1>3. lock = w => Holding(r, path, disk, accepted, unsettled)
  BY StationAssumption DEF StationOrdered
<1>4. ASSUME NEW at \in Locked
      PROVE  LET f == [r EXCEPT !.at = at]
             IN  /\ f \in WriterStates /\ f.at = at /\ f.document = r.document
                 /\ f.change = r.change /\ f.backup = r.backup
                 /\ [writer EXCEPT ![w].at = at] = [writer EXCEPT ![w] = f]
  BY <1>1 DEF WriterStates
<1>5. Locked = {"stored", "kept", "published", "flushed", "refused", "stranded"}
  BY DEF Locked
<1>6. CASE Station!Backup(w)
  <2> DEFINE backup == IF r.change.kind # "create" THEN path ELSE Nothing
             f == [r EXCEPT !.at = "kept", !.backup = backup]
  <2>1. /\ r.at = "stored" /\ writer' = [writer EXCEPT ![w].at = "kept", ![w].backup = backup]
        /\ UNCHANGED <<path, disk, lock, accepted, unsettled>>
    BY <1>6 DEF Station!Backup, Station!At, Station!Replaces
  <2>2. backup \in Contents
    BY <1>1 DEF Contents
  <2>3. backup = IF r.change.kind = "create" THEN Nothing ELSE path
    OBVIOUS
  <2> HIDE DEF backup
  <2>4. /\ f \in WriterStates /\ f.at = "kept" /\ f.document = r.document
        /\ f.change = r.change /\ f.backup = backup /\ writer' = [writer EXCEPT ![w] = f]
    BY <1>1, <1>5, <2>1, <2>2 DEF WriterStates
  <2> HIDE DEF f
  <2>5. lock = w
    BY <1>1, <1>5, <2>1
  <2>6. Holding(f, path', disk', accepted', unsettled')
    BY <1>3, <2>1, <2>3, <2>4, <2>5 DEF Holding
  <2> QED BY <1>1, <1>5, <2>1, <2>4, <2>5, <2>6, StationAssumption, StationActs
<1>7. CASE Station!Publish(w)
  <2>1. r.at = "kept" /\ UNCHANGED <<lock, accepted, unsettled>> /\ lock = w
    BY <1>1, <1>5, <1>7 DEF Station!Publish, Station!At
  <2>2. /\ Station!Valid(r.document) /\ path = accepted /\ OnDisk(disk, accepted, unsettled)
        /\ r.backup = IF r.change.kind = "create" THEN Nothing ELSE path
        /\ r.document \in Contents
    BY <1>1, <1>3, <2>1 DEF Holding, WriterStates
  <2>3. CASE r.change.kind # "create" \/ path = Nothing
    <3>1. /\ path' = r.document /\ disk' = Append(disk, r.document)
          /\ writer' = [writer EXCEPT ![w].at = "published"]
      BY <1>7, <2>3 DEF Station!Publish, Station!Replaces, Station!Finds, Station!Goes
    <3> DEFINE f == [r EXCEPT !.at = "published"]
    <3>2. /\ f \in WriterStates /\ f.at = "published" /\ f.document = r.document
          /\ f.backup = r.backup /\ writer' = [writer EXCEPT ![w] = f]
      BY <1>4, <1>5, <3>1
    <3> HIDE DEF f
    <3>3. /\ disk' \in Seq(Contents) /\ disk' # <<>> /\ disk'[Len(disk')] = r.document
          /\ \A i \in DOMAIN disk' : disk'[i] # Nothing => Station!Valid(disk'[i])
          /\ OnDisk(disk', accepted, unsettled \cup {r.document})
      BY <1>1, <2>2, <3>1, Found
    <3>4. r.backup = accepted
      BY <2>2, <2>3
    <3>5. Holding(f, path', disk', accepted', unsettled')
      BY <2>1, <2>2, <3>1, <3>2, <3>3, <3>4 DEF Holding
    <3> QED BY <1>1, <1>5, <2>1, <2>2, <3>1, <3>2, <3>3, <3>5, StationAssumption, StationActs
  <2>4. CASE ~(r.change.kind # "create" \/ path = Nothing)
    <3>1. writer' = [writer EXCEPT ![w].at = "refused"] /\ UNCHANGED <<path, disk>>
      BY <1>7, <2>4 DEF Station!Publish, Station!Replaces, Station!Goes
    <3> DEFINE f == [r EXCEPT !.at = "refused"]
    <3>2. /\ f \in WriterStates /\ f.at = "refused" /\ f.document = r.document
          /\ writer' = [writer EXCEPT ![w] = f]
      BY <1>4, <1>5, <3>1
    <3> HIDE DEF f
    <3>3. Holding(f, path', disk', accepted', unsettled')
      BY <2>1, <2>2, <3>1, <3>2 DEF Holding
    <3> QED BY <1>1, <1>5, <2>1, <3>1, <3>2, <3>3, StationAssumption, StationActs
  <2> QED BY <2>3, <2>4
<1>8. CASE Station!Flush(w)
  <2>1. /\ r.at = "published" /\ disk' = <<path>> /\ unsettled' = {}
        /\ writer' = [writer EXCEPT ![w].at = "flushed"] /\ UNCHANGED <<path, lock, accepted>>
        /\ lock = w
    BY <1>1, <1>5, <1>8 DEF Station!Flush, Station!At, Station!Goes
  <2>2. Station!Valid(r.document) /\ path = r.document /\ r.backup = accepted
    BY <1>3, <2>1 DEF Holding
  <2> DEFINE f == [r EXCEPT !.at = "flushed"]
  <2>3. /\ f \in WriterStates /\ f.at = "flushed" /\ f.document = r.document
        /\ f.backup = r.backup /\ writer' = [writer EXCEPT ![w] = f]
    BY <1>4, <1>5, <2>1
  <2> HIDE DEF f
  <2>4. /\ disk' \in Seq(Contents) /\ disk' # <<>> /\ disk'[Len(disk')] = path
        /\ \A i \in DOMAIN disk' : disk'[i] = path
    BY <1>1, <2>1
  <2>5. Holding(f, path', disk', accepted', unsettled')
    BY <2>1, <2>2, <2>3, <2>4 DEF Holding, OnDisk
  <2> QED BY <1>1, <1>5, <2>1, <2>2, <2>3, <2>4, <2>5, StationAssumption, StationActs
<1>9. CASE Station!WriteFails(w)
  <2>1. /\ r.at \in {"stored", "kept", "published", "flushed"} /\ lock = w
        /\ UNCHANGED <<lock, accepted>>
    BY <1>1, <1>5, <1>9 DEF Station!WriteFails
  <2>2. Station!Valid(r.document) /\ r.document \in Contents
    BY <1>1, <1>3, <2>1 DEF Holding, WriterStates
  <2> DEFINE f(at) == [r EXCEPT !.at = at]
  <2>3. \A at \in {"refused", "stranded"} :
          /\ f(at) \in WriterStates /\ f(at).at = at /\ f(at).document = r.document
          /\ [writer EXCEPT ![w].at = at] = [writer EXCEPT ![w] = f(at)]
    BY <1>4, <1>5
  <2> HIDE DEF f
  <2>4. CASE /\ r.at \in {"published", "flushed"} /\ Station!Goes(w, "refused")
             /\ Station!Finds(Station!Restored(w)) /\ unsettled' = unsettled \cup {path}
    <3>1. /\ path' = r.backup /\ disk' = Append(disk, r.backup) /\ unsettled' = unsettled \cup {path}
          /\ writer' = [writer EXCEPT ![w] = f("refused")]
      BY <2>3, <2>4 DEF Station!Goes, Station!Finds, Station!Restored
    <3>2. /\ path = r.document /\ r.backup = accepted
          /\ OnDisk(disk, accepted, unsettled \cup {r.document})
      BY <1>3, <2>1, <2>4 DEF Holding
    <3>3. /\ disk' \in Seq(Contents) /\ disk' # <<>> /\ disk'[Len(disk')] = accepted
          /\ \A i \in DOMAIN disk' : disk'[i] # Nothing => Station!Valid(disk'[i])
          /\ OnDisk(disk', accepted, unsettled \cup {r.document})
      BY <1>1, <3>1, <3>2, Found
    <3>4. path' = accepted /\ OnDisk(disk', accepted', unsettled')
      BY <2>1, <3>1, <3>2, <3>3
    <3>5. Holding(f("refused"), path', disk', accepted', unsettled')
      BY <2>1, <2>2, <2>3, <3>4 DEF Holding
    <3> QED BY <1>1, <1>5, <2>1, <2>3, <3>1, <3>3, <3>4, <3>5, StationAssumption, StationActs
  <2>5. CASE /\ r.at \in {"published", "flushed"} /\ Station!Goes(w, "stranded")
             /\ UNCHANGED <<path, disk, unsettled>>
    <3>1. writer' = [writer EXCEPT ![w] = f("stranded")]
      BY <2>3, <2>5 DEF Station!Goes
    <3>2. Holding(f("stranded"), path', disk', accepted', unsettled')
      BY <1>3, <2>1, <2>2, <2>3, <2>5 DEF Holding
    <3> QED BY <1>1, <1>5, <2>1, <2>3, <2>5, <3>1, <3>2, StationAssumption, StationActs
  <2>6. CASE /\ r.at \in {"stored", "kept"} /\ Station!Goes(w, "refused")
             /\ UNCHANGED <<path, disk, unsettled>>
    <3>1. writer' = [writer EXCEPT ![w] = f("refused")]
      BY <2>3, <2>6 DEF Station!Goes
    <3>2. Holding(f("refused"), path', disk', accepted', unsettled')
      BY <1>3, <2>1, <2>2, <2>3, <2>6 DEF Holding
    <3> QED BY <1>1, <1>5, <2>1, <2>3, <2>6, <3>1, <3>2, StationAssumption, StationActs
  <2> QED BY <1>9, <2>4, <2>5, <2>6 DEF Station!WriteFails
<1>10. CASE Station!Leave(w)
  <2>1. /\ r.at \in {"flushed", "refused", "stranded"} /\ lock = w /\ lock' = Nothing
        /\ accepted' = IF r.at = "refused" THEN accepted ELSE r.document
        /\ unsettled' = IF r.at = "stranded" THEN unsettled \cup {accepted} ELSE unsettled
        /\ writer' = [writer EXCEPT ![w] = Station!Idle] /\ UNCHANGED <<path, disk>>
    BY <1>1, <1>5, <1>10 DEF Station!Leave, Station!At
  <2>2. Holding(r, path, disk, accepted, unsettled) /\ r.document \in Contents
    BY <1>1, <1>3, <2>1 DEF WriterStates
  <2>3. /\ accepted' \in Contents /\ accepted' # Nothing => Station!Valid(accepted')
        /\ path' = accepted' /\ OnDisk(disk', accepted', unsettled')
    <3>1. CASE r.at = "flushed"
      BY <2>1, <2>2, <3>1 DEF Holding, OnDisk
    <3>2. CASE r.at = "refused"
      BY <1>1, <2>1, <2>2, <3>2 DEF Holding
    <3>3. CASE r.at = "stranded"
      BY <2>1, <2>2, <3>3 DEF Holding, OnDisk
    <3> QED BY <2>1, <3>1, <3>2, <3>3
  <2>4. Station!Idle.at # "lock"
    BY DEF Station!Idle
  <2> QED BY <1>1, <1>2, <2>1, <2>3, <2>4, StationAssumption, StationActs
<1>11. CASE Station!KillWriter(w)
  <2>1. /\ writer' = [writer EXCEPT ![w] = Station!Idle] /\ UNCHANGED <<path, disk>>
        /\ lock' = IF lock = w THEN Nothing ELSE lock
        /\ accepted' = IF lock = w THEN path ELSE accepted
        /\ unsettled' = unsettled \cup ({accepted} \ {accepted'})
    BY <1>11 DEF Station!KillWriter
  <2>2. Station!Idle.at # "lock"
    BY DEF Station!Idle
  <2>3. CASE lock # w
    <3>1. UNCHANGED <<path, disk, lock, accepted, unsettled>>
      BY <2>1, <2>3
    <3> QED BY <1>2, <2>1, <2>2, <2>3, <3>1, StationWaits
  <2>4. CASE lock = w
    <3>1. Holding(r, path, disk, accepted, unsettled) /\ r.at \in Locked
      BY <1>1, <1>3, <2>4
    <3>2. OnDisk(disk, path, unsettled \cup ({accepted} \ {path}))
      <4>1. CASE r.at \in {"stored", "kept", "refused"}
        BY <3>1, <4>1 DEF Holding, OnDisk
      <4>2. CASE r.at \in {"published", "flushed", "stranded"}
        BY <3>1, <4>2 DEF Holding, OnDisk
      <4> QED BY <1>5, <3>1, <4>1, <4>2
    <3>3. lock' = Nothing /\ accepted' = path /\ OnDisk(disk', accepted', unsettled')
      BY <2>1, <2>4, <3>2
    <3> QED BY <1>1, <1>2, <2>1, <2>2, <2>4, <3>3, StationAssumption, StationActs
  <2> QED BY <2>3, <2>4
<1> QED BY <1>6, <1>7, <1>8, <1>9, <1>10, <1>11

\* After a power loss the disk holds what it has of it.
LEMMA StationLoses ==
    ASSUME StationOrdered, Station!StationLost PROVE StationOrdered'
<1>1. PICK i \in DOMAIN disk : path' = disk[i] /\ disk' = <<disk[i]>> /\ accepted' = disk[i]
  BY DEF Station!StationLost
<1>2. disk[i] \in Contents /\ (disk[i] # Nothing => Station!Valid(disk[i]))
  BY DEF StationOrdered, StationTyped
<1>3. Station!Idle \in WriterStates /\ Station!Idle.at = "idle"
  BY DEF Station!Idle, WriterStates, Contents
<1>4. /\ lock' = Nothing /\ writer' \in [Writers -> WriterStates]
      /\ \A w \in Writers : writer'[w].at = "idle"
  BY <1>3 DEF Station!StationLost
<1>5. /\ disk' \in Seq(Contents) /\ disk' # <<>> /\ disk'[Len(disk')] = path'
      /\ \A j \in DOMAIN disk' : disk'[j] = path'
  BY <1>1, <1>2
<1>6. StationTyped'
  BY <1>1, <1>2, <1>4, <1>5 DEF StationTyped
<1>7. \A w \in Writers : writer'[w].at \in Locked <=> lock' = w
  BY <1>4, StationAssumption DEF Locked
<1>8. OnDisk(disk', accepted', unsettled')
  BY <1>1, <1>5 DEF OnDisk
<1> QED BY <1>1, <1>2, <1>4, <1>5, <1>6, <1>7, <1>8 DEF StationOrdered

-----------------------------------------------------------------------------

Entries == [partial : Solvers \cup {Nothing}, published : Solvers \cup {Nothing}]
Building == {"reserved", "copied", "written", "flushed"}
OnShelf == {shelf[i] : i \in DOMAIN shelf}

BundleTyped ==
    /\ bundle \in Entries /\ shelf \in Seq(Entries)
    /\ tree \in [Solvers -> [files : Station!Files, flushed : Station!Files]]
    /\ mixed \in BOOLEAN
    /\ solver \in [Solvers -> {"idle", "evaluated", "renamed", "done", "failed"} \cup Building]

\* What the directory may hold: of a solver that has begun, and what was ever
\* published since the last flush is there under one of its two names, whole
\* on the disk, and nothing writes into it under the final one.
Sorted(e) ==
    /\ e.partial # Nothing => e.partial # e.published
    /\ e.published # Nothing =>
         /\ e.published \in {bundle.partial, bundle.published}
         /\ tree[e.published].files.input # Nothing /\ tree[e.published].flushed.input # Nothing
         /\ ~mixed => Station!Whole(tree[e.published].flushed)
         /\ ~mixed /\ e.published = bundle.published =>
              tree[e.published].files = tree[e.published].flushed
    /\ \A s \in Solvers : solver[s] \in {"idle", "evaluated"} => s # e.partial /\ s # e.published
    /\ \A s \in Solvers : solver[s] = "done" => e.published = bundle.published

\* What a solver has written is there.
Written(s) ==
    /\ solver[s] \in Building => bundle.partial # Nothing
    /\ solver[s] \in {"copied", "written", "flushed"} => tree[bundle.partial].files.input = s
    /\ solver[s] \in {"written", "flushed"} => tree[bundle.partial].files.result = s
    /\ solver[s] = "flushed" => tree[bundle.partial].flushed = tree[bundle.partial].files
    /\ solver[s] \in {"renamed", "done"} =>
         /\ bundle.published # Nothing /\ tree[bundle.published].files.result = s
         /\ tree[bundle.published].flushed = tree[bundle.published].files

\* One solver at a time builds in the directory.
BundleOrdered ==
    /\ BundleTyped
    /\ bundle \in OnShelf
    /\ \A e \in OnShelf : Sorted(e)
    /\ \A s, t \in Solvers : solver[s] \in Building /\ solver[t] \in Building => s = t
    /\ \A s \in Solvers : Written(s)

LEMMA BundleInit == ASSUME Station!Init PROVE BundleOrdered
<1>1. /\ bundle = Station!NoBundle /\ Station!NoBundle \in Entries
      /\ Station!NoFiles \in Station!Files
      /\ shelf = <<Station!NoBundle>> /\ mixed = FALSE /\ solver = [s \in Solvers |-> "idle"]
      /\ tree = [s \in Solvers |-> [files |-> Station!NoFiles, flushed |-> Station!NoFiles]]
  BY DEF Station!Init, Station!NoBundle, Station!NoFiles, Station!Files, Entries
<1>2. BundleTyped
  <2>1. shelf \in Seq(Entries)
    BY <1>1
  <2>2. tree \in [Solvers -> [files : Station!Files, flushed : Station!Files]]
    BY <1>1
  <2>3. solver \in [Solvers -> {"idle", "evaluated", "renamed", "done", "failed"} \cup Building]
    BY <1>1
  <2> QED BY <1>1, <2>1, <2>2, <2>3 DEF BundleTyped
<1>3. OnShelf = {Station!NoBundle}
  BY <1>1 DEF OnShelf
<1>4. Sorted(Station!NoBundle)
  BY <1>1, StationAssumption DEF Sorted, Station!NoBundle
<1>5. \A s \in Solvers : Written(s)
  BY <1>1 DEF Written, Building
<1> QED BY <1>1, <1>2, <1>3, <1>4, <1>5 DEF BundleOrdered, Building

LEMMA Shelved ==
    ASSUME BundleTyped, NEW e \in Entries, Station!Holds(e)
    PROVE  bundle' = e /\ shelf' \in Seq(Entries) /\ OnShelf' = OnShelf \cup {e}
<1>1. bundle' = e /\ shelf' = Append(shelf, e) /\ shelf \in Seq(Entries)
  BY DEF Station!Holds, BundleTyped
<1>2. /\ shelf' \in Seq(Entries) /\ Len(shelf) \in Nat
      /\ DOMAIN shelf = 1 .. Len(shelf) /\ DOMAIN shelf' = 1 .. Len(shelf) + 1
      /\ \A i \in 1 .. Len(shelf) : shelf'[i] = shelf[i]
      /\ shelf'[Len(shelf) + 1] = e
  BY <1>1
<1>3. \A i \in DOMAIN shelf' : (i \in DOMAIN shelf /\ shelf'[i] = shelf[i]) \/ shelf'[i] = e
  BY <1>2
<1>4. \A i \in DOMAIN shelf : i \in DOMAIN shelf' /\ shelf'[i] = shelf[i]
  BY <1>2
<1>5. Len(shelf) + 1 \in DOMAIN shelf' /\ shelf'[Len(shelf) + 1] = e
  BY <1>2
<1>6. OnShelf' \subseteq OnShelf \cup {e}
  BY <1>3 DEF OnShelf
<1>7. OnShelf \cup {e} \subseteq OnShelf'
  BY <1>4, <1>5 DEF OnShelf
<1> QED BY <1>1, <1>2, <1>6, <1>7

\* A step that leaves the directory and its trees alone, and builds nothing.
LEMMA BundleWaits ==
    ASSUME BundleOrdered, NEW s \in Solvers, NEW to \in {"evaluated", "failed"},
           solver' = [solver EXCEPT ![s] = to],
           to = "evaluated" => solver[s] = "idle",
           UNCHANGED <<bundle, shelf, tree, mixed>>
    PROVE  BundleOrdered'
<1>1. BundleTyped'
  BY DEF BundleOrdered, BundleTyped
<1>2. solver'[s] = to /\ \A t \in Solvers \ {s} : solver'[t] = solver[t]
  BY DEF BundleOrdered, BundleTyped
<1>3. OnShelf' = OnShelf
  BY DEF OnShelf
<1>4. ASSUME NEW e \in OnShelf PROVE Sorted(e)'
  BY <1>2 DEF BundleOrdered, Sorted
<1>5. ASSUME NEW t \in Solvers PROVE Written(t)'
  BY <1>2 DEF BundleOrdered, Written, Building
<1>6. \A t, u \in Solvers : solver'[t] \in Building /\ solver'[u] \in Building => t = u
  BY <1>2 DEF BundleOrdered, Building
<1> QED BY <1>1, <1>3, <1>4, <1>5, <1>6 DEF BundleOrdered

\* The solver that builds writes into the partial directory, or flushes it.
LEMMA BundleBuilds ==
    ASSUME BundleOrdered, NEW s \in Solvers,
           \/ Station!CopyEvidence(s) \/ Station!FlushTree(s)
           \/ Station!WriteResult(s) /\ ~Station!Fails(s, "copied")
    PROVE  BundleOrdered'
<1> DEFINE p == bundle.partial
           kept == tree[p]
           new == tree'[p]
<1>1. /\ solver[s] \in Building /\ solver'[s] \in Building
      /\ solver' = [solver EXCEPT ![s] = solver'[s]]
      /\ UNCHANGED <<bundle, shelf, mixed>>
  BY DEF Station!CopyEvidence, Station!WriteResult, Station!FlushTree, Station!Solves,
     Station!ShelfSame, Station!StationSame, BundleOrdered, BundleTyped, Building
<1>2. /\ p \in Solvers /\ kept \in [files : Station!Files, flushed : Station!Files]
      /\ p # bundle.published
  BY <1>1, StationAssumption DEF BundleOrdered, BundleTyped, Entries, Written, Sorted
<1>3. /\ new \in [files : Station!Files, flushed : Station!Files]
      /\ tree' = [tree EXCEPT ![p] = new]
      /\ new.files.input = s
      /\ (new.flushed = kept.flushed \/ (new.flushed = new.files /\ new.files.result = s))
      /\ solver'[s] \in {"copied", "written", "flushed"}
      /\ solver'[s] \in {"written", "flushed"} => new.files.result = s
      /\ solver'[s] = "flushed" => new.flushed = new.files
  <2>1. CASE Station!CopyEvidence(s)
    <3>1. /\ tree' = [tree EXCEPT ![p] = [kept EXCEPT !.files = [kept.files EXCEPT !.input = s]]]
          /\ solver'[s] = "copied" /\ DOMAIN tree = Solvers
      BY <2>1 DEF Station!CopyEvidence, Station!Solves, Station!Partial, BundleOrdered, BundleTyped
    <3>2. new = [kept EXCEPT !.files = [kept.files EXCEPT !.input = s]]
      BY <1>2, <3>1
    <3>3. new.files = [kept.files EXCEPT !.input = s] /\ new.flushed = kept.flushed
      BY <1>2, <3>2
    <3>4. /\ new \in [files : Station!Files, flushed : Station!Files]
          /\ new.files.input = s
      BY <1>2, <3>2, <3>3 DEF Station!Files
    <3> QED BY <3>1, <3>2, <3>3, <3>4
  <2>2. CASE Station!WriteResult(s) /\ ~Station!Fails(s, "copied")
    BY <1>2, <2>2 DEF Station!WriteResult, Station!Solves, Station!Partial, Station!Files,
       BundleOrdered, BundleTyped
  <2>3. CASE Station!FlushTree(s)
    BY <1>2, <2>3 DEF Station!FlushTree, Station!Flushed, Station!Solves, Station!Files,
       BundleOrdered, BundleTyped, Written
  <2> QED BY <2>1, <2>2, <2>3
<1>4. /\ \A t \in Solvers \ {s} : solver'[t] = solver[t] /\ solver[t] \notin Building
      /\ \A t \in Solvers \ {p} : tree'[t] = tree[t]
  BY <1>1, <1>2, <1>3 DEF BundleOrdered, BundleTyped
<1>5. BundleTyped'
  BY <1>1, <1>2, <1>3 DEF BundleOrdered, BundleTyped
<1> HIDE DEF kept, new
<1>6. OnShelf' = OnShelf
  BY <1>1 DEF OnShelf
<1>7. ASSUME NEW e \in OnShelf PROVE Sorted(e)'
  <2>1. Sorted(e) /\ e \in Entries
    BY DEF BundleOrdered, BundleTyped, OnShelf
  <2>2. \A t \in Solvers : solver'[t] \in {"idle", "evaluated", "done"} => solver'[t] = solver[t]
    BY <1>1, <1>4 DEF Building
  <2>3. CASE e.published = p
    BY <1>1, <1>2, <1>3, <2>1, <2>2, <2>3, StationAssumption
      DEF Sorted, Station!Whole, new, kept
  <2>4. CASE e.published # p
    BY <1>1, <1>4, <2>1, <2>2, <2>4 DEF Sorted, Entries
  <2> QED BY <2>3, <2>4
<1>8. ASSUME NEW t \in Solvers PROVE Written(t)'
  <2>1. Written(t) /\ bundle \in Entries
    BY DEF BundleOrdered, BundleTyped
  <2>2. CASE t = s
    BY <1>1, <1>2, <1>3, <2>2, StationAssumption DEF Written, Building, new
  <2>3. CASE t # s
    BY <1>1, <1>2, <1>4, <2>1, <2>3 DEF Written, Building, Entries
  <2> QED BY <2>2, <2>3
<1>9. \A t, u \in Solvers : solver'[t] \in Building /\ solver'[u] \in Building => t = u
  BY <1>4
<1> QED BY <1>1, <1>5, <1>6, <1>7, <1>8, <1>9 DEF BundleOrdered

\* The solver reserves the partial directory, or gives it its final name, or
\* takes that back.
LEMMA BundleNames ==
    ASSUME BundleOrdered, NEW s \in Solvers, NEW e \in Entries, Station!Holds(e),
           NEW to \in {"reserved", "renamed", "failed"}, solver' = [solver EXCEPT ![s] = to],
           UNCHANGED <<tree, mixed>>,
           \/ /\ to = "reserved" /\ solver[s] = "evaluated"
              /\ bundle.partial = Nothing /\ e = [bundle EXCEPT !.partial = s]
           \/ /\ to = "renamed" /\ solver[s] = "flushed" /\ bundle.published = Nothing
              /\ e = [partial |-> Nothing, published |-> bundle.partial]
           \/ /\ to = "failed" /\ solver[s] = "renamed"
              /\ bundle.partial # Nothing => tree[bundle.partial].files = Station!NoFiles
              /\ e = [partial |-> bundle.published, published |-> Nothing]
    PROVE  BundleOrdered'
<1>1. /\ bundle' = e /\ shelf' \in Seq(Entries) /\ OnShelf' = OnShelf \cup {e}
      /\ bundle \in Entries /\ bundle \in OnShelf /\ \A d \in OnShelf : d \in Entries
  <2>1. bundle' = e /\ shelf' \in Seq(Entries) /\ OnShelf' = OnShelf \cup {e}
    BY Shelved DEF BundleOrdered
  <2>2. \A d \in OnShelf : d \in Entries
    BY DEF BundleOrdered, BundleTyped, OnShelf
  <2> QED BY <2>1, <2>2 DEF BundleOrdered, BundleTyped
<1>2. solver'[s] = to /\ \A t \in Solvers \ {s} : solver'[t] = solver[t]
  BY DEF BundleOrdered, BundleTyped
<1>3. BundleTyped'
  BY <1>1 DEF BundleOrdered, BundleTyped, Building
<1>4. CASE to = "reserved" /\ solver[s] = "evaluated"
           /\ bundle.partial = Nothing /\ e = [bundle EXCEPT !.partial = s]
  <2>1. e.partial = s /\ e.published = bundle.published /\ s # bundle.published
    BY <1>1, <1>4 DEF BundleOrdered, Sorted, Entries
  <2>2. \A t \in Solvers : solver[t] \notin Building
    BY <1>4 DEF BundleOrdered, Written
  <2>3. ASSUME NEW d \in OnShelf \cup {e} PROVE Sorted(d)'
    <3>1. \A t \in Solvers : solver'[t] \in {"idle", "evaluated", "done"} => t # s /\ solver'[t] = solver[t]
      BY <1>2, <1>4
    <3>2. Sorted(bundle) /\ (d \in OnShelf => Sorted(d))
      BY <1>1 DEF BundleOrdered
    <3>3. CASE d = e
      BY <1>1, <2>1, <3>1, <3>2, <3>3, StationAssumption DEF Sorted
    <3>4. CASE d \in OnShelf
      BY <1>1, <1>4, <2>1, <3>1, <3>2, <3>4 DEF Sorted
    <3> QED BY <3>3, <3>4
  <2>4. ASSUME NEW t \in Solvers PROVE Written(t)'
    BY <1>1, <1>2, <1>4, <2>1, <2>2, StationAssumption DEF BundleOrdered, Written, Building
  <2>5. \A t, u \in Solvers : solver'[t] \in Building /\ solver'[u] \in Building => t = u
    BY <1>2, <2>2
  <2> QED BY <1>1, <1>3, <2>3, <2>4, <2>5 DEF BundleOrdered
<1>5. CASE to = "renamed" /\ solver[s] = "flushed" /\ bundle.published = Nothing
           /\ e = [partial |-> Nothing, published |-> bundle.partial]
  <2>1. /\ e.partial = Nothing /\ e.published = bundle.partial /\ bundle.partial # Nothing
        /\ tree[bundle.partial].files.input = s /\ tree[bundle.partial].files.result = s
        /\ tree[bundle.partial].flushed = tree[bundle.partial].files
    BY <1>5 DEF BundleOrdered, Written, Building
  <2>2. \A t \in Solvers : t # s => solver[t] \notin Building \cup {"renamed", "done"}
    BY <1>5 DEF BundleOrdered, Written, Building
  <2>3. ASSUME NEW d \in OnShelf \cup {e} PROVE Sorted(d)'
    <3>1. \A t \in Solvers : /\ solver'[t] # "done"
                             /\ solver'[t] \in {"idle", "evaluated"} => solver'[t] = solver[t]
      BY <1>2, <1>5, <2>2
    <3>2. Sorted(bundle) /\ (d \in OnShelf => Sorted(d))
      BY <1>1 DEF BundleOrdered
    <3>3. CASE d = e
      BY <1>1, <2>1, <3>1, <3>2, <3>3, StationAssumption DEF Sorted, Station!Whole
    <3>4. CASE d \in OnShelf
      <4>1. /\ Sorted(d) /\ UNCHANGED <<tree, mixed>> /\ bundle' = e
            /\ d.published # Nothing => d.published = bundle.partial
        BY <1>1, <1>5, <3>2, <3>4 DEF Sorted
      <4>2. \A t \in Solvers : solver'[t] \in {"idle", "evaluated"} => t # d.partial /\ t # d.published
        BY <3>1, <4>1 DEF Sorted
      <4>3. d.published # Nothing => Sorted(d)'
        BY <2>1, <3>1, <4>1, <4>2 DEF Sorted
      <4>4. d.published = Nothing => Sorted(d)'
        BY <3>1, <4>1, <4>2 DEF Sorted
      <4> QED BY <4>3, <4>4
    <3> QED BY <3>3, <3>4
  <2>4. ASSUME NEW t \in Solvers PROVE Written(t)'
    BY <1>1, <1>2, <1>5, <2>1, <2>2 DEF Written, Building
  <2>5. \A t, u \in Solvers : solver'[t] \in Building /\ solver'[u] \in Building => t = u
    BY <1>2, <1>5, <2>2 DEF Building
  <2> QED BY <1>1, <1>3, <2>3, <2>4, <2>5 DEF BundleOrdered
<1>6. CASE to = "failed" /\ solver[s] = "renamed"
           /\ (bundle.partial # Nothing => tree[bundle.partial].files = Station!NoFiles)
           /\ e = [partial |-> bundle.published, published |-> Nothing]
  <2>1. /\ e.partial = bundle.published /\ e.published = Nothing /\ bundle.published # Nothing
        /\ tree[bundle.published].files.result = s
        /\ bundle.partial # Nothing =>
             tree[bundle.partial].files.input = Nothing /\ tree[bundle.partial].files.result = Nothing
    BY <1>6 DEF BundleOrdered, Written, Station!NoFiles
  <2>2. \A t \in Solvers : /\ solver[t] \in Building => solver[t] = "reserved"
                           /\ solver[t] # "done"
                           /\ t # s => solver[t] # "renamed"
    BY <1>6, <2>1, StationAssumption DEF BundleOrdered, Written, Building
  <2>3. ASSUME NEW d \in OnShelf \cup {e} PROVE Sorted(d)'
    <3>1. \A t \in Solvers : /\ solver'[t] # "done"
                             /\ solver'[t] \in {"idle", "evaluated"} => solver'[t] = solver[t]
      BY <1>2, <1>6, <2>2
    <3>2. Sorted(bundle) /\ (d \in OnShelf => Sorted(d))
      BY <1>1 DEF BundleOrdered
    <3>3. CASE d = e
      BY <1>1, <2>1, <3>1, <3>2, <3>3, StationAssumption DEF Sorted
    <3>4. CASE d \in OnShelf
      <4>1. /\ Sorted(d) /\ UNCHANGED <<tree, mixed>> /\ bundle' = e
            /\ d.published # Nothing => d.published = bundle.published
        BY <1>1, <2>1, <3>2, <3>4 DEF Sorted
      <4>2. \A t \in Solvers : solver'[t] \in {"idle", "evaluated"} => t # d.partial /\ t # d.published
        BY <3>1, <4>1 DEF Sorted
      <4>3. d.published # Nothing => Sorted(d)'
        BY <2>1, <3>1, <4>1, <4>2 DEF Sorted
      <4>4. d.published = Nothing => Sorted(d)'
        BY <3>1, <4>1, <4>2 DEF Sorted
      <4> QED BY <4>3, <4>4
    <3> QED BY <3>3, <3>4
  <2>4. ASSUME NEW t \in Solvers PROVE Written(t)'
    <3>1. solver'[t] \in Building => solver'[t] = "reserved"
      BY <1>2, <1>6, <2>2 DEF Building
    <3>2. solver'[t] \notin {"renamed", "done", "copied", "written", "flushed"}
      BY <1>2, <1>6, <2>2 DEF Building
    <3>3. bundle'.partial # Nothing
      BY <1>1, <2>1
    <3> QED BY <3>1, <3>2, <3>3 DEF Written
  <2>5. \A t, u \in Solvers : solver'[t] \in Building /\ solver'[u] \in Building => t = u
    BY <1>2, <1>6 DEF BundleOrdered, Building
  <2> QED BY <1>1, <1>3, <2>3, <2>4, <2>5 DEF BundleOrdered
<1> QED BY <1>4, <1>5, <1>6

LEMMA BundleSolved ==
    ASSUME BundleOrdered, NEW s \in Solvers, Station!Solved(s) PROVE BundleOrdered'
<1>1. /\ solver[s] = "renamed" /\ solver' = [solver EXCEPT ![s] = "done"]
      /\ shelf' = <<bundle>> /\ UNCHANGED <<bundle, tree, mixed>>
  BY DEF Station!Solved, Station!Solves, Station!StationSame
<1>2. solver'[s] = "done" /\ \A t \in Solvers \ {s} : solver'[t] = solver[t]
  BY <1>1 DEF BundleOrdered, BundleTyped
<1>3. BundleTyped' /\ OnShelf' = {bundle}
  BY <1>1 DEF BundleOrdered, BundleTyped, OnShelf
<1>4. Sorted(bundle)'
  BY <1>1, <1>2 DEF BundleOrdered, Sorted
<1>5. ASSUME NEW t \in Solvers PROVE Written(t)'
  BY <1>1, <1>2 DEF BundleOrdered, Written, Building
<1>6. \A t, u \in Solvers : solver'[t] \in Building /\ solver'[u] \in Building => t = u
  BY <1>2 DEF BundleOrdered, Building
<1> QED BY <1>1, <1>3, <1>4, <1>5, <1>6 DEF BundleOrdered

LEMMA BundleStep ==
    ASSUME BundleOrdered, NEW s \in Solvers, Station!SolverStep(s) PROVE BundleOrdered'
<1>1. bundle \in Entries
  BY DEF BundleOrdered, BundleTyped
<1>2. CASE Station!Evaluate(s)
  BY <1>2, BundleWaits DEF Station!Evaluate, Station!Solves, Station!ShelfSame, Station!StationSame
<1>3. CASE Station!Reserve(s)
  <2>1. CASE bundle.partial = Nothing
    <3> DEFINE e == [bundle EXCEPT !.partial = s]
    <3>1. e \in Entries
      BY <1>1 DEF Entries
    <3>2. /\ solver[s] = "evaluated" /\ solver' = [solver EXCEPT ![s] = "reserved"]
          /\ Station!Holds(e) /\ UNCHANGED <<tree, mixed>>
      BY <1>3, <2>1 DEF Station!Reserve, Station!Solves, Station!StationSame
    <3> QED BY <2>1, <3>1, <3>2, BundleNames
  <2>2. CASE bundle.partial # Nothing
    BY <1>3, <2>2, BundleWaits
      DEF Station!Reserve, Station!Fails, Station!Solves, Station!ShelfSame, Station!StationSame
  <2> QED BY <2>1, <2>2
<1>4. CASE Station!CopyEvidence(s) \/ Station!FlushTree(s)
  BY <1>4, BundleBuilds
<1>5. CASE Station!WriteResult(s)
  <2>1. CASE Station!Fails(s, "copied") /\ UNCHANGED tree
    BY <1>5, <2>1, BundleWaits
      DEF Station!WriteResult, Station!Fails, Station!Solves, Station!ShelfSame, Station!StationSame
  <2>2. CASE ~Station!Fails(s, "copied")
    BY <1>5, <2>2, BundleBuilds
  <2>3. Station!Fails(s, "copied") => UNCHANGED tree
    BY <1>5 DEF Station!WriteResult, Station!Fails, Station!Solves, BundleOrdered, BundleTyped
  <2> QED BY <2>1, <2>2, <2>3
<1>6. CASE Station!Rename(s)
  <2>1. CASE bundle.published = Nothing
    <3> DEFINE e == [partial |-> Nothing, published |-> bundle.partial]
    <3>1. e \in Entries
      BY <1>1 DEF Entries
    <3>2. /\ solver[s] = "flushed" /\ solver' = [solver EXCEPT ![s] = "renamed"]
          /\ Station!Holds(e) /\ UNCHANGED <<tree, mixed>>
      BY <1>6, <2>1 DEF Station!Rename, Station!Solves, Station!StationSame
    <3> QED BY <2>1, <3>1, <3>2, BundleNames
  <2>2. CASE bundle.published # Nothing
    BY <1>6, <2>2, BundleWaits
      DEF Station!Rename, Station!Fails, Station!Solves, Station!ShelfSame, Station!StationSame
  <2> QED BY <2>1, <2>2
<1>7. CASE Station!Solved(s)
  BY <1>7, BundleSolved
<1>8. CASE Station!RenameBack(s)
  <2> DEFINE e == [partial |-> bundle.published, published |-> Nothing]
  <2>1. /\ solver[s] = "renamed" /\ solver' = [solver EXCEPT ![s] = "failed"]
        /\ UNCHANGED <<tree, mixed>>
        /\ \/ /\ bundle.partial # Nothing => tree[bundle.partial].files = Station!NoFiles
              /\ Station!Holds(e)
           \/ UNCHANGED <<bundle, shelf>>
    BY <1>8 DEF Station!RenameBack, Station!Fails, Station!Solves, Station!StationSame,
       Station!ShelfSame, Station!Partial
  <2>2. e \in Entries
    BY <1>1 DEF Entries
  <2>3. CASE UNCHANGED <<bundle, shelf>>
    BY <2>1, <2>3, BundleWaits
  <2>4. CASE ~UNCHANGED <<bundle, shelf>>
    BY <2>1, <2>2, <2>4, BundleNames
  <2> QED BY <2>3, <2>4
<1>9. CASE Station!KillSolver(s)
  BY <1>9, BundleWaits DEF Station!KillSolver, Station!ShelfSame, Station!StationSame
<1> QED BY <1>2, <1>3, <1>4, <1>5, <1>6, <1>7, <1>8, <1>9 DEF Station!SolverStep

\* After a power loss: what was published and flushed is there, and what was
\* published at all is whole.
LEMMA BundleLoses ==
    ASSUME BundleOrdered, Station!BundleLost PROVE BundleOrdered'
<1>1. PICK i \in DOMAIN shelf :
        /\ bundle' = shelf[i] /\ shelf' = <<shelf[i]>>
        /\ mixed' = (mixed \/ Station!Reappears(shelf[i]))
  BY DEF Station!BundleLost
<1>2. PICK rest \in [Solvers -> Station!Files] :
        /\ \A s \in Solvers : rest[s] \in Station!Remains(tree[s])
        /\ tree' = [s \in Solvers |-> [files |-> rest[s], flushed |-> rest[s]]]
  BY DEF Station!BundleLost
<1>3. PICK e \in Entries : e = shelf[i] /\ e \in OnShelf /\ Sorted(e)
  BY <1>1 DEF BundleOrdered, BundleTyped, OnShelf
<1>4. /\ \A s \in Solvers : solver[s] = "done" => solver'[s] = "done"
      /\ \A s \in Solvers : /\ solver'[s] \in {"idle", "done", "failed"}
                            /\ solver'[s] \in {"idle", "done"} => solver[s] = solver'[s]
      /\ DOMAIN solver' = Solvers
  BY DEF Station!BundleLost
<1>5. ASSUME NEW s \in Solvers
      PROVE  /\ tree'[s].files = rest[s] /\ tree'[s].flushed = rest[s]
             /\ rest[s].input \in {tree[s].files.input, tree[s].flushed.input}
             /\ rest[s].result \in {tree[s].files.result, tree[s].flushed.result}
  BY <1>2 DEF Station!Remains
<1>6. bundle' = e /\ shelf' = <<e>> /\ OnShelf' = {e}
  BY <1>1, <1>3 DEF OnShelf
<1>7. BundleTyped'
  <2>1. mixed' \in BOOLEAN
    BY <1>1 DEF BundleOrdered, BundleTyped
  <2>2. solver' \in [Solvers -> {"idle", "evaluated", "renamed", "done", "failed"} \cup Building]
    BY DEF Station!BundleLost, BundleOrdered, BundleTyped
  <2>3. tree' \in [Solvers -> [files : Station!Files, flushed : Station!Files]]
    BY <1>2
  <2>4. bundle' \in Entries /\ shelf' \in Seq(Entries)
    BY <1>3, <1>6
  <2> QED BY <2>1, <2>2, <2>3, <2>4 DEF BundleTyped
<1>8. ASSUME e.published # Nothing
      PROVE  LET t == tree'[e.published]
             IN  /\ t.files = t.flushed /\ t.files.input # Nothing
                 /\ ~mixed' => Station!Whole(t.files)
  <2>1. e.published \in Solvers
    BY <1>3, <1>8 DEF Entries
  <2>2. tree'[e.published].files = tree'[e.published].flushed /\ tree'[e.published].files.input # Nothing
    BY <1>3, <1>5, <1>8, <2>1 DEF Sorted
  <2>3. ASSUME ~mixed' PROVE Station!Whole(tree'[e.published].files)
    <3>1. ~mixed /\ ~Station!Reappears(e)
      BY <1>1, <1>3, <2>3 DEF BundleOrdered, BundleTyped
    <3>2. tree[e.published].files = tree[e.published].flushed
      BY <1>3, <1>8, <3>1 DEF Sorted, Station!Reappears, Station!Partial
    <3> QED BY <1>3, <1>5, <1>8, <2>1, <3>1, <3>2 DEF Sorted, Station!Whole
  <2> QED BY <2>2, <2>3
<1>9. Sorted(e)'
  <2>1. \A s \in Solvers : solver'[s] \in {"idle", "evaluated"} => s # e.partial /\ s # e.published
    BY <1>3, <1>4 DEF Sorted
  <2>2. e.partial # Nothing => e.partial # e.published
    BY <1>3 DEF Sorted
  <2> QED BY <1>6, <1>8, <2>1, <2>2 DEF Sorted
<1>10. ASSUME NEW s \in Solvers PROVE Written(s)'
  <2>1. CASE solver'[s] # "done"
    BY <1>4, <2>1 DEF Written, Building
  <2>2. CASE solver'[s] = "done"
    <3>1. /\ e.published = bundle.published /\ bundle.published # Nothing
          /\ tree[bundle.published].files.result = s
          /\ tree[bundle.published].flushed = tree[bundle.published].files
      BY <1>3, <1>4, <2>2 DEF BundleOrdered, Sorted, Written
    <3>2. e.published \in Solvers
      BY <1>3, <3>1 DEF Entries
    <3> QED BY <1>5, <1>6, <2>2, <3>1, <3>2 DEF Written, Building
  <2> QED BY <2>1, <2>2
<1>11. \A s, t \in Solvers : solver'[s] \in Building /\ solver'[t] \in Building => s = t
  BY <1>4 DEF Building
<1>12. e \in OnShelf' /\ \A d \in OnShelf' : d = e
  BY <1>6
<1>13. \A d \in OnShelf' : Sorted(d)'
  BY <1>9, <1>12
<1> QED BY <1>6, <1>7, <1>10, <1>11, <1>12, <1>13 DEF BundleOrdered

LEMMA EvidenceStep ==
    ASSUME StationOrdered, BundleOrdered, [Station!Next]_Station!vars
    PROVE  StationOrdered' /\ BundleOrdered'
<1>1. ASSUME UNCHANGED <<solver, bundle, shelf, tree, mixed>> PROVE BundleOrdered'
  BY <1>1 DEF BundleOrdered, BundleTyped, Sorted, Written, OnShelf
<1>2. ASSUME UNCHANGED <<path, disk, lock, writer, accepted, unsettled>> PROVE StationOrdered'
  BY <1>2 DEF StationOrdered, StationTyped
<1>3. CASE UNCHANGED Station!vars
  BY <1>1, <1>2, <1>3 DEF Station!vars, Station!stationVars, Station!bundleVars
<1>4. ASSUME NEW w \in Writers, Station!WriterStep(w) PROVE StationOrdered' /\ BundleOrdered'
  <2>1. StationOrdered'
    BY <1>4, StationEnters, StationWrites DEF Station!WriterStep
  <2>2. UNCHANGED <<solver, bundle, shelf, tree, mixed>>
    BY <1>4 DEF Station!WriterStep, Station!Call, Station!Enter, Station!Backup, Station!Publish,
       Station!Flush, Station!WriteFails, Station!Leave, Station!KillWriter, Station!bundleVars
  <2> QED BY <1>1, <2>1, <2>2
<1>5. ASSUME NEW s \in Solvers, Station!SolverStep(s) PROVE StationOrdered' /\ BundleOrdered'
  <2>1. UNCHANGED <<path, disk, lock, writer, accepted, unsettled>>
    BY <1>5 DEF Station!SolverStep, Station!Evaluate, Station!Reserve, Station!CopyEvidence,
       Station!WriteResult, Station!FlushTree, Station!Rename, Station!Solved, Station!RenameBack,
       Station!KillSolver, Station!StationSame, Station!stationVars
  <2> QED BY <1>2, <1>5, <2>1, BundleStep
<1>6. CASE Station!PowerLoss
  BY <1>6, StationLoses, BundleLoses DEF Station!PowerLoss
<1> QED BY <1>3, <1>4, <1>5, <1>6 DEF Station!Next

LEMMA BundleCovers == ASSUME BundleOrdered PROVE Station!BundleWhole
<1>1. Sorted(bundle) /\ \A s \in Solvers : Written(s)
  BY DEF BundleOrdered
<1> QED BY <1>1 DEF Station!BundleWhole, Sorted, Written

\* The station file is always the document of the updates that took effect,
\* whatever fails, is killed or loses power in a write or in the undoing of
\* one; and a published bundle is whole and a reported one is there, after a
\* power loss as well, but for the mixed tree that BundleWhole names.
THEOREM EvidenceIsKept == Station!Spec => []EvidenceKept
<1>1. Station!Init => StationOrdered /\ BundleOrdered  BY StationInit, BundleInit
<1>2. StationOrdered /\ BundleOrdered /\ [Station!Next]_Station!vars
         => StationOrdered' /\ BundleOrdered'
  BY EvidenceStep
<1>3. StationOrdered /\ BundleOrdered => EvidenceKept
  BY StationCovers, BundleCovers DEF EvidenceKept
<1> QED BY <1>1, <1>2, <1>3, PTL DEF Station!Spec
=============================================================================
