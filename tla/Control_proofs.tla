--------------------------- MODULE Control_proofs ---------------------------
(***************************************************************************)
(* Theorems about the Control task, for every set of target bytes, every   *)
(* set of readings, every storing interval and every queue length.         *)
(***************************************************************************)
EXTENDS Control, TLAPS

(* The steps of the task and of its surroundings, one name each. *)
LEMMA NextCases ==
    ASSUME Next,
           NEW G,
           Boot => G, ReadWater => G, NoTick => G, SensorFails => G,
           (\E r \in Readings : Sample(r)) => G,
           EndBurst => G, Record => G, CheckOverflow => G, CheckEmpty => G,
           TakeTarget => G, DrainTimesOut => G, Wake => G,
           Environment => G
    PROVE  G
BY DEF Next, Iteration

(* What a queue's length becomes when a message is sent or dropped. *)
LEMMA SendFits ==
    ASSUME NEW n \in 0 .. QueueLength
    PROVE  Send(n) \in 0 .. QueueLength
BY BoundsAssumption DEF Send

(* uint8 arithmetic yields a byte. *)
LEMMA ByteArithmetic == \A n \in Int : n % 256 \in Byte
BY DEF Byte

(* Power-up is well typed. *)
LEMMA InitType == Init => TypeOK
<1> SUFFICES ASSUME Init PROVE TypeOK
  OBVIOUS
<1>1. linked \in BOOLEAN /\ linkSeen \in BOOLEAN /\ notified \in BOOLEAN
  BY Zenon DEF Init
<1>2. toControl \in Seq(Targets)
  BY DEF Init
<1>3. counter \in 0 .. SampleEvery - 1 /\ toUI \in 0 .. QueueLength
      /\ toNetwork \in 0 .. QueueLength
  BY BoundsAssumption DEF Init
<1>4. setRh \in Byte /\ inRange \in Byte
  BY TargetsAssumption DEF Init
<1>5. pc \in Steps /\ on \subseteq Devices /\ alarm \subseteq Sensors
      /\ bits \subseteq Sensors /\ stored \subseteq Records
      /\ wet \subseteq Sensors
  BY DEF Init, Steps
<1> QED
  BY <1>1, <1>2, <1>3, <1>4, <1>5 DEF TypeOK

(* Every step keeps the types. *)
LEMMA NextType == TypeOK /\ [Next]_vars => TypeOK'
<1> SUFFICES ASSUME TypeOK, [Next]_vars PROVE TypeOK'
  OBVIOUS
<1> USE DEF TypeOK, Steps, Devices, Sensors, Records, AfterI2C, task,
            channels, world
<1>1. CASE Boot
  BY <1>1, TargetsAssumption DEF Boot
<1>2. CASE ReadWater
  BY <1>2 DEF ReadWater, Alarms
<1>3. CASE NoTick
  BY <1>3 DEF NoTick
<1>4. CASE SensorFails
  BY <1>4 DEF SensorFails
<1>5. CASE \E r \in Readings : Sample(r)
  <2> PICK r \in Readings : Sample(r)
    BY <1>5
  <2>1. toUI' \in 0 .. QueueLength /\ toNetwork' \in 0 .. QueueLength
    BY SendFits DEF Sample
  <2>2. inRange' \in Byte
    <3>1. setRh \in Int /\ Band \in Int
      BY DEF Byte, Band
    <3>2. (setRh + Band) % 256 \in Byte /\ (setRh - Band) % 256 \in Byte
      BY <3>1, ByteArithmetic
    <3> QED
      BY <3>2 DEF Sample, Calm, Humidify, Dehumidify, Hold, StopAll
  <2>3. on' \subseteq Devices
    BY DEF Sample, Calm, Humidify, Dehumidify, Hold, StopAll
  <2>4. pc' \in Steps
    BY DEF Sample, Calm, Humidify, Dehumidify, Hold, StopAll
  <2> QED
    BY <2>1, <2>2, <2>3, <2>4 DEF Sample
<1>6. CASE EndBurst
  BY <1>6 DEF EndBurst
<1>7. CASE Record
  <2>1. counter' \in 0 .. SampleEvery - 1
    BY <1>7, BoundsAssumption DEF Record
  <2>2. stored' \subseteq Records /\ pc' \in Steps
    BY <1>7 DEF Record
  <2>3. notified' \in BOOLEAN
    BY <1>7, Zenon DEF Record
  <2> QED
    BY <1>7, <2>1, <2>2, <2>3 DEF Record
<1>8. CASE CheckOverflow
  BY <1>8 DEF CheckOverflow, Warn
<1>9. CASE CheckEmpty
  BY <1>9 DEF CheckEmpty, Warn
<1>10. CASE TakeTarget
  BY <1>10, TargetsAssumption DEF TakeTarget
<1>11. CASE DrainTimesOut
  BY <1>11 DEF DrainTimesOut
<1>12. CASE Wake
  BY <1>12 DEF Wake
<1>13. CASE Environment
  <2>1. CASE TimerTick
    BY <2>1 DEF TimerTick
  <2>2. CASE WaterMoves
    BY <2>2 DEF WaterMoves
  <2>3. CASE LinkChanges
    <3>1. linked' \in BOOLEAN
      BY <2>3, Zenon DEF LinkChanges
    <3> QED
      BY <2>3, <3>1 DEF LinkChanges
  <2>4. CASE \E t \in Targets : SendTarget(t)
    BY <2>4 DEF SendTarget
  <2>5. CASE UITakes
    <3>1. toUI' \in 0 .. QueueLength
      BY <2>5, BoundsAssumption DEF UITakes
    <3> QED
      BY <2>5, <3>1 DEF UITakes
  <2>6. CASE NetworkTakes
    <3>1. toNetwork' \in 0 .. QueueLength
      BY <2>6, BoundsAssumption DEF NetworkTakes
    <3> QED
      BY <2>6, <3>1 DEF NetworkTakes
  <2> QED
    BY <1>13, <2>1, <2>2, <2>3, <2>4, <2>5, <2>6 DEF Environment
<1>14. CASE UNCHANGED vars
  BY <1>14 DEF vars
<1> QED
  BY <1>1, <1>2, <1>3, <1>4, <1>5, <1>6, <1>7, <1>8, <1>9, <1>10, <1>11,
     <1>12, <1>13, <1>14 DEF Next, Iteration

(* Every variable keeps its type: in particular in_range_rh stays a byte   *)
(* however close to 0 or 255 the target is, and no queue overflows.        *)
THEOREM TypeCorrect == Spec => []TypeOK
BY InitType, NextType, PTL DEF Spec

-----------------------------------------------------------------------------
(* The strengthening that makes the safety invariants inductive.           *)

(* Only four output patterns exist, and mist belongs to the burst alone.   *)
Outputs ==
    /\ on \in {{}, {"fan"}, {"humidifier", "fan"}, {"dehumidifier"}}
    /\ "humidifier" \in on => pc = "burst"
    /\ pc = "burst" => on = {"humidifier", "fan"} /\ alarm = {}

(* How far the two alarm blocks have got. *)
AlarmProgress ==
    /\ pc \in {"boot", "top", "sense", "burst", "record", "overflow"} =>
          stored \cap Sensors = {}
    /\ pc = "empty" =>
          /\ "overflow" \in alarm => on = {}
          /\ "overflow" \in bits <=> "overflow" \in alarm
          /\ stored \cap Sensors = alarm \cap {"overflow"}

IInv == /\ TypeOK
        /\ setRh \in Targets
        /\ Outputs
        /\ AlarmProgress
        /\ AlarmHandled
        /\ BandCentre
        /\ RunsTowardsBand

(* Neither edge of the tolerated band is the target or the other edge,     *)
(* though they may wrap.                                                   *)
LEMMA EdgesDiffer ==
    ASSUME NEW t \in Byte
    PROVE  /\ t # (t + Band) % 256
           /\ t # (t - Band) % 256
           /\ (t + Band) % 256 # (t - Band) % 256
BY DEF Byte, Band

(* The inductive invariant holds at power-up ... *)
LEMMA InitIInv == Init => IInv
<1> SUFFICES ASSUME Init PROVE IInv
  OBVIOUS
<1>1. TypeOK
  BY InitType
<1>2. Outputs /\ AlarmProgress /\ AlarmHandled /\ BandCentre
      /\ RunsTowardsBand
  BY DEF Init, Outputs, AlarmProgress, AlarmHandled, BandCentre,
         RunsTowardsBand, Sensors
<1> QED
  BY <1>1, <1>2 DEF IInv, Init

(* Steps that touch neither the devices, the alarms nor the target. *)
LEMMA QuietSteps ==
    ASSUME IInv,
           UNCHANGED <<setRh, inRange, on, alarm, bits, stored>>,
           \/ UNCHANGED pc
           \/ pc \in {"sense", "record"} /\ pc' \in {"overflow"}
           \/ pc = "drain" /\ pc' = "sleep",
           TypeOK'
    PROVE  IInv'
BY DEF IInv, Outputs, AlarmProgress, AlarmHandled, BandCentre,
       RunsTowardsBand

(* ... every step of the task and its surroundings keeps it ... *)
LEMMA NextIInv == IInv /\ [Next]_vars => IInv'
<1> SUFFICES ASSUME IInv, [Next]_vars PROVE IInv'
  OBVIOUS
<1>0. TypeOK /\ TypeOK'
  BY NextType DEF IInv
<1> USE DEF task, channels, world
<1>1. CASE Boot
  <2>1. RunsTowardsBand'
    <3>1. setRh' \in Byte /\ inRange' = setRh'
      BY <1>1, TargetsAssumption DEF Boot
    <3> QED
      BY <3>1, EdgesDiffer DEF RunsTowardsBand
  <2> QED
    BY <1>0, <1>1, <2>1 DEF Boot, IInv, Outputs, AlarmProgress,
                            AlarmHandled, BandCentre, Sensors
<1>2. CASE ReadWater
  BY <1>0, <1>2 DEF ReadWater, IInv, Outputs, AlarmProgress, AlarmHandled,
                    BandCentre, RunsTowardsBand
<1>3. CASE NoTick \/ SensorFails
  BY <1>0, <1>3, QuietSteps DEF NoTick, SensorFails
<1>5. CASE \E r \in Readings : Sample(r)
  <2> PICK r \in Readings : Sample(r)
    BY <1>5
  <2>1. /\ pc = "sense"
        /\ UNCHANGED <<setRh, alarm, bits, stored>>
    BY DEF Sample
  <2>2. Outputs' /\ pc' \in {"burst", "record"}
    BY DEF Sample, Calm, Humidify, Dehumidify, Hold, StopAll, IInv, Outputs
  <2>3. BandCentre'
    BY DEF Sample, Calm, Humidify, Dehumidify, Hold, StopAll, IInv, BandCentre
  <2>4. AlarmProgress' /\ AlarmHandled'
    BY <2>1, <2>2 DEF IInv, AlarmProgress, AlarmHandled
  <2>5. RunsTowardsBand'
    <3>1. setRh \in Byte
      BY <1>0 DEF TypeOK
    <3>2. \/ on' = {} \/ UNCHANGED <<on, inRange>>
          \/ on' = {"humidifier", "fan"} /\ inRange' = (setRh + Band) % 256
          \/ on' = {"dehumidifier"} /\ inRange' = (setRh - Band) % 256
      BY DEF Sample, Calm, Humidify, Dehumidify, Hold, StopAll
    <3> QED
      BY <2>1, <3>1, <3>2, EdgesDiffer DEF IInv, RunsTowardsBand
  <2> QED
    BY <1>0, <2>1, <2>2, <2>3, <2>4, <2>5 DEF IInv
<1>6. CASE EndBurst
  <2>1. on' = {"fan"}
    BY <1>6 DEF EndBurst, IInv, Outputs
  <2> QED
    BY <1>0, <1>6, <2>1 DEF EndBurst, IInv, Outputs, AlarmProgress,
                            AlarmHandled, BandCentre, RunsTowardsBand
<1>7. CASE Record
  <2>1. stored' \cap Sensors = stored \cap Sensors
    BY <1>7 DEF Record, Sensors
  <2> QED
    BY <1>0, <1>7, <2>1 DEF Record, IInv, Outputs, AlarmProgress,
                            AlarmHandled, BandCentre, RunsTowardsBand
<1>8. CASE CheckOverflow
  <2>1. Outputs' /\ BandCentre' /\ RunsTowardsBand'
    BY <1>8 DEF CheckOverflow, Warn, IInv, Outputs, BandCentre, RunsTowardsBand
  <2>2. AlarmProgress' /\ AlarmHandled'
    BY <1>8 DEF CheckOverflow, Warn, IInv, AlarmProgress, AlarmHandled,
                Sensors, TypeOK
  <2> QED
    BY <1>0, <1>8, <2>1, <2>2 DEF CheckOverflow, Warn, IInv
<1>9. CASE CheckEmpty
  <2>1. Outputs' /\ BandCentre' /\ RunsTowardsBand'
    BY <1>9 DEF CheckEmpty, Warn, IInv, Outputs, BandCentre, RunsTowardsBand
  <2>2. /\ alarm \subseteq {"overflow", "empty"}
        /\ bits \subseteq {"overflow", "empty"}
    BY <1>0 DEF TypeOK, Sensors
  <2>3. pc = "empty" /\ pc' = "drain" /\ alarm' = alarm
    BY <1>9 DEF CheckEmpty, Warn
  <2>4. alarm # {} => on' = {}
    BY <1>9, <2>2, <2>3 DEF CheckEmpty, Warn, IInv, AlarmProgress
  <2>5. bits' = alarm
    BY <1>9, <2>2, <2>3 DEF CheckEmpty, Warn, IInv, AlarmProgress
  <2>6. stored' \cap Sensors = alarm
    <3>1. CASE "empty" \in alarm
      BY <1>9, <2>2, <2>3, <3>1 DEF CheckEmpty, Warn, IInv, AlarmProgress,
                                    Sensors
    <3>2. CASE "empty" \notin alarm
      BY <1>9, <2>2, <2>3, <3>2 DEF CheckEmpty, Warn, IInv, AlarmProgress,
                                    Sensors
    <3> QED
      BY <3>1, <3>2
  <2>7. AlarmProgress' /\ AlarmHandled'
    BY <2>3, <2>4, <2>5, <2>6 DEF AlarmProgress, AlarmHandled
  <2> QED
    BY <1>0, <1>9, <2>1, <2>7 DEF CheckEmpty, Warn, IInv
<1>10. CASE TakeTarget
  <2>1. setRh' \in Targets
    BY <1>0, <1>10 DEF TakeTarget, TypeOK
  <2>2. RunsTowardsBand'
    <3>1. setRh' \in Byte /\ inRange' = setRh'
      BY <2>1, <1>10, TargetsAssumption DEF TakeTarget
    <3> QED
      BY <3>1, EdgesDiffer DEF RunsTowardsBand
  <2> QED
    BY <1>0, <1>10, <2>1, <2>2 DEF TakeTarget, IInv, Outputs, AlarmProgress,
                                   AlarmHandled, BandCentre
<1>11. CASE DrainTimesOut
  BY <1>0, <1>11, QuietSteps DEF DrainTimesOut
<1>12. CASE Wake
  BY <1>0, <1>12 DEF Wake, IInv, Outputs, AlarmProgress, AlarmHandled,
                     BandCentre, RunsTowardsBand
<1>13. CASE Environment
  <2>1. UNCHANGED task
    BY <1>13 DEF Environment, TimerTick, WaterMoves, LinkChanges, SendTarget,
                 UITakes, NetworkTakes
  <2> QED
    BY <1>0, <2>1, QuietSteps
<1>14. CASE UNCHANGED vars
  BY <1>0, <1>14, QuietSteps DEF vars
<1> QED
  BY <1>1, <1>2, <1>3, <1>5, <1>6, <1>7, <1>8, <1>9, <1>10, <1>11, <1>12,
     <1>13, <1>14 DEF Next, Iteration

(* ... and so it holds in every state. *)
THEOREM Inductive == Spec => []IInv
BY InitIInv, NextIInv, PTL DEF Spec

(* The humidifier and the dehumidifier never run together, and mist is     *)
(* never made without the fan or beyond its burst, whatever targets,       *)
(* readings and alarms arrive in whatever order.                           *)
THEOREM Exclusion == Spec => []OneCorrectionAtATime
<1>1. IInv => OneCorrectionAtATime
  BY DEF IInv, Outputs, OneCorrectionAtATime
<1> QED
  BY <1>1, Inductive, PTL

(* An alarm read at the top of an iteration has stopped the devices, set   *)
(* its bit and been logged by the end of it.                               *)
THEOREM AlarmsHandled == Spec => []AlarmHandled
<1>1. IInv => AlarmHandled
  BY DEF IInv
<1> QED
  BY <1>1, Inductive, PTL

(* in_range_rh never drifts away from set_rh, even when uint8 wraps it.    *)
THEOREM BandStaysCentred == Spec => []BandCentre
<1>1. IInv => BandCentre
  BY DEF IInv
<1> QED
  BY <1>1, Inductive, PTL

(* Whatever alarms and new targets come between two readings, a device     *)
(* that runs is never judged by the band of the other correction: the      *)
(* stale in_range_rh is on its own side, or in the middle.                 *)
THEOREM BandOnItsSide == Spec => []RunsTowardsBand
<1>1. IInv => RunsTowardsBand
  BY DEF IInv
<1> QED
  BY <1>1, Inductive, PTL

-----------------------------------------------------------------------------
(* The refinement.  It needs targets at which set_rh +- 5 is a uint8: for  *)
(* the others the band wraps, and a reading equal to the target may find   *)
(* no branch to take.                                                      *)

SafeTargets == Targets \subseteq Band .. 255 - Band

(* For a safe target uint8 addition is addition. *)
LEMMA NoWrap ==
    ASSUME NEW t \in Band .. 255 - Band
    PROVE  /\ (t + Band) % 256 = t + Band
           /\ (t - Band) % 256 = t - Band
BY DEF Band

(* What the mode says about the centre of the band. *)
LEMMA ModeCentre ==
    ASSUME IInv, SafeTargets
    PROVE  /\ setRh \in Band .. 255 - Band
           /\ Mode = "idle" => inRange = setRh
           /\ Mode = "humidify" => inRange = setRh + Band
           /\ Mode = "dehumidify" => inRange = setRh - Band
           /\ Mode \in {"idle", "humidify", "dehumidify"}
<1>1. setRh \in Band .. 255 - Band
  BY DEF IInv, SafeTargets
<1> QED
  BY <1>1, NoWrap DEF Mode, IInv, BandCentre

(* A decision of the code is one of the regulator's. *)
LEMMA SampleRefines ==
    ASSUME IInv, SafeTargets, NEW r \in Readings, Sample(r)
    PROVE  Promise!Next \/ UNCHANGED Promise!vars
<1>1. /\ setRh \in Band .. 255 - Band
      /\ r \in Int
  BY ModeCentre, ReadingsAssumption DEF Byte
<1>2. UNCHANGED setRh
  BY DEF Sample
<1>3. CASE Calm(r)
  <2>1. Mode' = "idle"
    BY <1>2, <1>3 DEF Calm, Mode
  <2>2. Promise!Low[Mode] <= r /\ r <= Promise!High[Mode]
    BY <1>1, <1>3, ModeCentre DEF Calm, InBand, Promise!Low, Promise!High, Band
  <2> QED
    BY <1>2, <1>3, <2>1, <2>2 DEF Calm, Promise!Next, Promise!Satisfied
<1>4. CASE Humidify(r)
  <2>1. Mode' = "humidify"
    BY <1>1, <1>2, <1>4, NoWrap DEF Humidify, Mode, Band
  <2>2. r < Promise!Low[Mode]
    BY <1>1, <1>4, ModeCentre DEF Humidify, InBand, Promise!Low, Band
  <2> QED
    BY <1>2, <1>4, <2>1, <2>2 DEF Humidify, Promise!Next, Promise!TooDry
<1>5. CASE Dehumidify(r)
  <2>1. Mode' = "dehumidify"
    BY <1>1, <1>2, <1>5, NoWrap DEF Dehumidify, Mode, Band
  <2>2. r > Promise!High[Mode]
    BY <1>1, <1>5, ModeCentre DEF Dehumidify, InBand, Promise!High, Band
  <2> QED
    BY <1>2, <1>5, <2>1, <2>2 DEF Dehumidify, Promise!Next, Promise!TooHumid
<1>6. ~Hold(r)
  BY <1>1, ModeCentre DEF Hold, InBand, Band
<1>7. CASE StopAll
  BY <1>2, <1>7 DEF StopAll, Mode, Promise!Next, Promise!Trip
<1> QED
  BY <1>3, <1>4, <1>5, <1>6, <1>7 DEF Sample

(* The uint8 task, with its pulses, alarms and queues, implements the      *)
(* unbounded two-sided hysteresis regulator for every set of safe targets. *)
THEOREM Refinement == SafeTargets => (Spec => Regulates)
<1> SUFFICES ASSUME SafeTargets PROVE Spec => Regulates
  OBVIOUS
<1>1. Init => Promise!Init
  BY DEF Init, Promise!Init, Mode
<1>2. IInv /\ [Next]_vars => [Promise!Next]_(Promise!vars)
  <2> SUFFICES ASSUME IInv, [Next]_vars PROVE [Promise!Next]_(Promise!vars)
    OBVIOUS
  <2> USE DEF task, channels, world
  <2>1. CASE Boot
    <3>1. PICK t \in Targets : setRh' = t /\ inRange' = t /\ UNCHANGED on
      BY <2>1 DEF Boot
    <3> QED
      BY <3>1 DEF Mode, Promise!Next, Promise!Retarget
  <2>2. CASE \E r \in Readings : Sample(r)
    BY <2>2, SampleRefines
  <2>3. CASE EndBurst
    BY <2>3 DEF EndBurst, Mode, Promise!Next, Promise!BurstEnds
  <2>4. CASE CheckOverflow \/ CheckEmpty
    BY <2>4 DEF CheckOverflow, CheckEmpty, Warn, Mode, Promise!Next,
                Promise!Trip, Promise!vars
  <2>5. CASE TakeTarget
    <3>1. Head(toControl) \in Targets
      BY <2>5 DEF TakeTarget, IInv, TypeOK
    <3> QED
      BY <2>5, <3>1 DEF TakeTarget, Mode, Promise!Next, Promise!Retarget
  <2>6. CASE \/ ReadWater \/ NoTick \/ SensorFails \/ Record \/ DrainTimesOut
             \/ Wake \/ Environment \/ UNCHANGED vars
    <3>1. UNCHANGED <<setRh, inRange, on>>
      BY <2>6 DEF ReadWater, NoTick, SensorFails, Record, DrainTimesOut, Wake,
                  Environment, TimerTick, WaterMoves, LinkChanges, SendTarget,
                  UITakes, NetworkTakes, vars
    <3> QED
      BY <3>1 DEF Mode, Promise!vars
  <2> QED
    BY <2>1, <2>2, <2>3, <2>4, <2>5, <2>6 DEF Next, Iteration
<1> QED
  BY <1>1, <1>2, Inductive, PTL DEF Spec, Regulates, Promise!Spec
=============================================================================
