------------------------------ MODULE Control ------------------------------
(***************************************************************************)
(* The Control task (src/Task_Control/Control.cpp): it reads the two water *)
(* sensors and the humidity sensor, drives the humidifier, the             *)
(* dehumidifier and the fan, raises the water alarms, and adopts the       *)
(* targets that the UI and Network tasks send it.                          *)
(*                                                                         *)
(* pc stops at the points where the task can block (a sensor or EEPROM     *)
(* transaction, a delay, a queue), which is where other tasks and the      *)
(* physical world change things between two of its steps.                  *)
(***************************************************************************)
EXTENDS Integers, Sequences

CONSTANTS Targets,      \* the target bytes the EEPROM and the senders supply
          Readings,     \* the truncated humidity readings of the sensor
          SampleEvery,  \* one reading in so many is stored: 6 in the code
          QueueLength   \* slots of every Message queue: 10 in the code

Byte == 0 .. 255
Band == 5

ASSUME TargetsAssumption  == Targets \subseteq Byte /\ Targets # {}
ASSUME ReadingsAssumption == Readings \subseteq Byte
ASSUME BoundsAssumption   == /\ SampleEvery \in Nat \ {0}
                             /\ QueueLength \in Nat \ {0}

VARIABLES pc,           \* where the task is in its loop
          setRh,        \* set_rh
          inRange,      \* in_range_rh, the centre of the tolerated band
          on,           \* the devices whose outputs are driven
          wet,          \* the sensors whose Read() returns true
          alarm,        \* the alarms found at the top of this iteration
          bits,         \* the water bits of the event group
          linked,       \* NETWORK_CONNECTED, which the Network task owns
          linkSeen,     \* that bit in this iteration's snapshot
          notified,     \* the task's notification value is not zero
          counter,      \* eeprom_val_write_counter
          stored,       \* the EEPROM records written in this iteration
          toControl,    \* the targets waiting in to_Control
          toUI,         \* how many messages wait in to_UI ...
          toNetwork     \* ... and in to_Network

task     == <<pc, setRh, inRange, on, alarm, bits, linkSeen, counter, stored>>
channels == <<toControl, toUI, toNetwork>>
world    == <<wet, linked>>
vars     == <<task, channels, world, notified>>

Devices == {"humidifier", "dehumidifier", "fan"}
Sensors == {"overflow", "empty"}
Records == {"reboot", "sample"} \cup Sensors
Steps   == {"boot", "top", "sense", "burst", "record", "overflow", "empty",
            "drain", "sleep"}

(* The overflow sensor alarms when it does not read, the other when it does. *)
Alarms(w) == ({"overflow"} \ w) \cup ({"empty"} \cap w)

TypeOK == /\ pc \in Steps
          /\ setRh \in Byte
          /\ inRange \in Byte
          /\ on \subseteq Devices
          /\ wet \subseteq Sensors
          /\ alarm \subseteq Sensors
          /\ bits \subseteq Sensors
          /\ linked \in BOOLEAN
          /\ linkSeen \in BOOLEAN
          /\ notified \in BOOLEAN
          /\ counter \in 0 .. SampleEvery - 1
          /\ stored \subseteq Records
          /\ toControl \in Seq(Targets)
          /\ toUI \in 0 .. QueueLength
          /\ toNetwork \in 0 .. QueueLength

(* Power-up: the device constructors drive every output low, and the member *)
(* set_rh is not initialised.                                               *)
Init == /\ pc = "boot"
        /\ setRh \in Targets
        /\ inRange = setRh
        /\ on = {}
        /\ wet \in SUBSET Sensors
        /\ alarm = {}
        /\ bits = {}
        /\ linked = FALSE
        /\ linkSeen = FALSE
        /\ notified = FALSE
        /\ counter = 0
        /\ stored = {}
        /\ toControl = << >>
        /\ toUI = 0
        /\ toNetwork = 0

-----------------------------------------------------------------------------
(* The iteration, step by step.                                            *)

(* What the EEPROM read yields is used as it is; when the read fails the    *)
(* uninitialised member is.  Either way some byte becomes the target.       *)
Boot == /\ pc = "boot"
        /\ \E t \in Targets : setRh' = t /\ inRange' = t
        /\ stored' = {"reboot"}
        /\ notified' = TRUE
        /\ pc' = "top"
        /\ UNCHANGED <<on, alarm, bits, linkSeen, counter, channels, world>>

ReadWater == /\ pc = "top"
             /\ alarm' = Alarms(wet)
             /\ linkSeen' = linked
             /\ pc' = "sense"
             /\ UNCHANGED <<setRh, inRange, on, bits, counter, stored,
                            channels, world, notified>>

NoTick == /\ pc = "sense"
          /\ ~notified
          /\ pc' = "overflow"
          /\ UNCHANGED <<setRh, inRange, on, alarm, bits, linkSeen, counter,
                         stored, channels, world, notified>>

(* An I2C transaction waits on the same notification as the timer tick: it  *)
(* may swallow a tick, and it may leave a late stop behind that looks like  *)
(* one.                                                                     *)
AfterI2C == notified' \in BOOLEAN

SensorFails == /\ pc = "sense"
               /\ notified
               /\ AfterI2C
               /\ pc' = "overflow"
               /\ UNCHANGED <<setRh, inRange, on, alarm, bits, linkSeen,
                              counter, stored, channels, world>>

Send(n) == IF n < QueueLength THEN n + 1 ELSE n     \* dropped after 100 ms

InBand(r) == inRange - Band <= r /\ r <= inRange + Band

Calm(r) == /\ alarm = {}
           /\ InBand(r)
           /\ inRange' = setRh
           /\ on' = {}
           /\ pc' = "record"

(* Mutant: dehum_off() is forgotten. *)
HumidifyOnTop(r) == /\ alarm = {}
                    /\ ~InBand(r)
                    /\ r < setRh
                    /\ inRange' = (setRh + Band) % 256
                    /\ on' = on \cup {"humidifier", "fan"}
                    /\ pc' = "burst"

Humidify(r) == /\ alarm = {}
               /\ ~InBand(r)
               /\ r < setRh
               /\ inRange' = (setRh + Band) % 256
               /\ on' = {"humidifier", "fan"}
               /\ pc' = "burst"

(* Mutant: in_range_rh is only moved when a device starts from rest. *)
DehumidifyKeepBand(r) == /\ alarm = {}
                         /\ ~InBand(r)
                         /\ r > setRh
                         /\ inRange' = IF on = {} THEN (setRh - Band) % 256
                                                  ELSE inRange
                         /\ on' = {"dehumidifier"}
                         /\ pc' = "record"

Dehumidify(r) == /\ alarm = {}
                 /\ ~InBand(r)
                 /\ r > setRh
                 /\ inRange' = (setRh - Band) % 256
                 /\ on' = {"dehumidifier"}
                 /\ pc' = "record"

(* No branch of the code matches: every output stays as it is. *)
Hold(r) == /\ alarm = {}
           /\ ~InBand(r)
           /\ r = setRh
           /\ pc' = "record"
           /\ UNCHANGED <<inRange, on>>

StopAll == /\ alarm # {}
           /\ on' = {}
           /\ pc' = "record"
           /\ UNCHANGED inRange

Sample(r) == /\ pc = "sense"
             /\ notified
             /\ AfterI2C
             /\ toUI' = Send(toUI)
             /\ toNetwork' = IF linkSeen THEN Send(toNetwork) ELSE toNetwork
             /\ Calm(r) \/ Humidify(r) \/ Dehumidify(r) \/ Hold(r) \/ StopAll
             /\ UNCHANGED <<setRh, alarm, bits, linkSeen, counter, stored,
                            toControl, world>>

(* After the three seconds of mist; the fan goes on. *)
EndBurst == /\ pc = "burst"
            /\ on' = on \ {"humidifier"}
            /\ pc' = "record"
            /\ UNCHANGED <<setRh, inRange, alarm, bits, linkSeen, counter,
                           stored, channels, world, notified>>

Record == /\ pc = "record"
          /\ IF counter + 1 >= SampleEvery
             THEN /\ counter' = 0
                  /\ stored' = stored \cup {"sample"}
                  /\ AfterI2C
             ELSE /\ counter' = counter + 1
                  /\ UNCHANGED <<stored, notified>>
          /\ pc' = "overflow"
          /\ UNCHANGED <<setRh, inRange, on, alarm, bits, linkSeen, channels,
                         world>>

(* Mutant: the bit of an alarm that is over is not cleared. *)
WarnLatched(sensor, next) ==
          /\ pc = sensor
          /\ IF sensor \in alarm
             THEN /\ on' = {}
                  /\ stored' = stored \cup {sensor}
                  /\ bits' = bits \cup {sensor}
                  /\ AfterI2C
             ELSE UNCHANGED <<on, stored, bits, notified>>
          /\ pc' = next
          /\ UNCHANGED <<setRh, inRange, alarm, linkSeen, counter, channels,
                         world>>

(* Mutant: the devices are left to the next reading to stop. *)
WarnOnly(sensor, next) ==
          /\ pc = sensor
          /\ IF sensor \in alarm
             THEN /\ stored' = stored \cup {sensor}
                  /\ bits' = bits \cup {sensor}
                  /\ AfterI2C
             ELSE /\ bits' = bits \ {sensor}
                  /\ UNCHANGED <<stored, notified>>
          /\ pc' = next
          /\ UNCHANGED <<setRh, inRange, on, alarm, linkSeen, counter,
                         channels, world>>

(* The same block of code twice, once for each sensor. *)
Warn(sensor, next) ==
          /\ pc = sensor
          /\ IF sensor \in alarm
             THEN /\ on' = {}
                  /\ stored' = stored \cup {sensor}
                  /\ bits' = bits \cup {sensor}
                  /\ AfterI2C
             ELSE /\ bits' = bits \ {sensor}
                  /\ UNCHANGED <<on, stored, notified>>
          /\ pc' = next
          /\ UNCHANGED <<setRh, inRange, alarm, linkSeen, counter, channels,
                         world>>

CheckOverflow == Warn("overflow", "empty")
CheckEmpty    == Warn("empty", "drain")

(* Mutant: in_range_rh is not reset with the target. *)
TakeTargetKeepBand == /\ pc = "drain"
                      /\ toControl # << >>
                      /\ setRh' = Head(toControl)
                      /\ toControl' = Tail(toControl)
                      /\ UNCHANGED <<pc, inRange, on, alarm, bits, linkSeen,
                                     counter, stored, toUI, toNetwork, world,
                                     notified>>

(* Mutant: only in_range_rh is set. *)
TakeTargetBandOnly == /\ pc = "drain"
                      /\ toControl # << >>
                      /\ inRange' = Head(toControl)
                      /\ toControl' = Tail(toControl)
                      /\ UNCHANGED <<pc, setRh, on, alarm, bits, linkSeen,
                                     counter, stored, toUI, toNetwork, world,
                                     notified>>

TakeTarget == /\ pc = "drain"
              /\ toControl # << >>
              /\ setRh' = Head(toControl)
              /\ inRange' = Head(toControl)
              /\ toControl' = Tail(toControl)
              /\ UNCHANGED <<pc, on, alarm, bits, linkSeen, counter, stored,
                             toUI, toNetwork, world, notified>>

DrainTimesOut == /\ pc = "drain"
                 /\ toControl = << >>
                 /\ pc' = "sleep"
                 /\ UNCHANGED <<setRh, inRange, on, alarm, bits, linkSeen,
                                counter, stored, channels, world, notified>>

Wake == /\ pc = "sleep"
        /\ stored' = {}
        /\ pc' = "top"
        /\ UNCHANGED <<setRh, inRange, on, alarm, bits, linkSeen, counter,
                       channels, world, notified>>

Iteration == \/ Boot \/ ReadWater \/ NoTick \/ SensorFails
             \/ \E r \in Readings : Sample(r)
             \/ EndBurst \/ Record \/ CheckOverflow \/ CheckEmpty
             \/ TakeTarget \/ DrainTimesOut \/ Wake

-----------------------------------------------------------------------------
(* Everything else that touches the same state.                            *)

TimerTick == /\ notified' = TRUE
             /\ UNCHANGED <<task, channels, world>>

WaterMoves == /\ wet' \in SUBSET Sensors
              /\ UNCHANGED <<task, channels, linked, notified>>

LinkChanges == /\ linked' = ~linked
               /\ UNCHANGED <<task, channels, wet, notified>>

SendTarget(t) == /\ Len(toControl) < QueueLength
                 /\ toControl' = Append(toControl, t)
                 /\ UNCHANGED <<task, toUI, toNetwork, world, notified>>

UITakes == /\ toUI > 0
           /\ toUI' = toUI - 1
           /\ UNCHANGED <<task, toControl, toNetwork, world, notified>>

NetworkTakes == /\ toNetwork > 0
                /\ toNetwork' = toNetwork - 1
                /\ UNCHANGED <<task, toControl, toUI, world, notified>>

Environment == \/ TimerTick \/ WaterMoves \/ LinkChanges
               \/ \E t \in Targets : SendTarget(t)
               \/ UITakes \/ NetworkTakes

Next == Iteration \/ Environment

Spec == Init /\ [][Next]_vars

(* The task is never blocked for ever: each of its waits has a timeout.     *)
(* Targets come from a finger on a screen and from a web page: they do not  *)
(* for ever arrive faster than the 10 ms that the drain waits for the next. *)
FairSpec == Spec /\ WF_vars(Iteration) /\ SF_vars(DrainTimesOut)

-----------------------------------------------------------------------------
(* Properties.                                                             *)

(* The two devices never work against each other, and mist is only made    *)
(* with the fan blowing, inside the burst that ends it.                    *)
OneCorrectionAtATime ==
    /\ ~({"humidifier", "dehumidifier"} \subseteq on)
    /\ "humidifier" \in on => pc = "burst" /\ "fan" \in on

(* An alarm found at the top of an iteration has, when the iteration ends, *)
(* stopped every device, raised exactly its own bits, and been logged.     *)
AlarmHandled ==
    pc \in {"drain", "sleep"} =>
        /\ alarm # {} => on = {}
        /\ bits = alarm
        /\ stored \cap Sensors = alarm

(* The band is centred on the target, or half a band beyond it on the side *)
(* of the correction under way, even where uint8 arithmetic wraps it.      *)
BandCentre ==
    /\ inRange \in {setRh, (setRh + Band) % 256, (setRh - Band) % 256}
    /\ pc = "burst" => inRange = (setRh + Band) % 256

(* A device that runs has the band on its own side, above the target for   *)
(* the fan and below it for the dehumidifier, or, after a new target, in   *)
(* the middle.  Alarms stop devices and leave in_range_rh, new targets set *)
(* it and leave the devices: whatever their order, no device is judged by  *)
(* the band of the other correction, half of which lies beyond the target. *)
RunsTowardsBand ==
    /\ "fan" \in on => inRange # (setRh - Band) % 256
    /\ "dehumidifier" \in on => inRange # (setRh + Band) % 256

(* Water that stays bad ends every correction for good and is shown for    *)
(* good.                                                                   *)
BadWaterStopsDevices ==
    \A s \in Sensors :
        <>[](s \in Alarms(wet)) => <>[](on = {} /\ s \in bits)

(* A target at the head of the queue is adopted. *)
TargetAdopted ==
    \A t \in Targets :
        (toControl # << >> /\ Head(toControl) = t) ~> (setRh = t)

(* The refinement: the centre of the band says which correction is on. *)
Mode == IF inRange = setRh THEN "idle"
        ELSE IF inRange = (setRh + Band) % 256 THEN "humidify"
        ELSE "dehumidify"

Promise == INSTANCE Regulator WITH target <- setRh, mode <- Mode

(* The uint8 task regulates as the unbounded specification says. *)
Regulates == Promise!Spec
=============================================================================
